--------------------------- MODULE MCCanvasEditor ---------------------------
(* Instance of CanvasEditor: a new document, and one that a user of the     *)
(* GUI saved earlier, with a numbered module at the end of its range and    *)
(* two modules with one link, a free connector on each side, and ports      *)
(* below the ones the page starts at.                                       *)
EXTENDS CanvasEditor

Tcp(port) == [transport |-> "tcp", key |-> port]

MCFiles ==
    {<<>>,
     <<Component(<<"a", 99>>, 4000, <<Tcp(7000), Blank>>, <<>>),
       Component(<<"B", Plain>>, 4001, <<>>, <<Tcp(7000), Blank>>)>>}
=============================================================================
