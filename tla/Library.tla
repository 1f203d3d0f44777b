------------------------------ MODULE Library ------------------------------
(***************************************************************************)
(* The parts that compute and keep little: hash tables, explored rooms,    *)
(* names, the text editor and the map.  They share nothing, so a behaviour *)
(* is one of one of them; the others rest.                                 *)
(***************************************************************************)
EXTENDS HashMap, Explored, Names, TextEditor, Automap

VARIABLE part  \* the one whose behaviour it is

LibraryInit ==
  /\ part \in {"HashMap", "Explored", "Names", "TextEditor", "Automap"}
  /\ HashInit /\ ExploredInit
  /\ IF part = "Names" THEN NamesInit ELSE world = <<>> /\ argument = NoArgument /\ found = 0
  /\ IF part = "TextEditor" THEN EditorInit
     ELSE text = <<>> /\ typed = [op |-> "none", n |-> 0, line |-> <<>>] /\ ended = FALSE
  /\ IF part = "Automap" THEN AutomapInit
     ELSE exits = [r \in Rooms |-> [d \in Directions |-> Nowhere]] /\ inRoom = Min(Rooms)

LibraryNext ==
  /\ UNCHANGED part
  /\ \/ part = "HashMap" /\ HashNext
        /\ UNCHANGED <<exploredVars, namesVars, editorVars, automapVars>>
     \/ part = "Explored" /\ ExploredNext
        /\ UNCHANGED <<hashVars, namesVars, editorVars, automapVars>>
     \/ part = "Names" /\ NamesNext
        /\ UNCHANGED <<hashVars, exploredVars, editorVars, automapVars>>
     \/ part = "TextEditor" /\ EditorNext
        /\ UNCHANGED <<hashVars, exploredVars, namesVars, automapVars>>
     \/ part = "Automap" /\ AutomapNext
        /\ UNCHANGED <<hashVars, exploredVars, namesVars, editorVars>>

libraryVars == <<part, hashVars, exploredVars, namesVars, editorVars, automapVars>>

LibrarySpec == LibraryInit /\ [][LibraryNext]_libraryVars

=============================================================================
