----------------------------- MODULE MCLibrary ------------------------------
(* The data structures of the library side by side: its two queues, lines  *)
(* and trees; and the address table of a tap device.  They share nothing,  *)
(* so that a behaviour uses one of them and leaves the others as they are  *)
(* at the start.                                                           *)
EXTENDS ParseQueue, Gueue, Line, Avl, Arp

CONSTANTS p1, p2, p3

\* Messages with an empty argument, with escapes at either end of an
\* argument and with more of them than fit the buffer.
TwoMessages ==
    {<<<<"?", "a">>, << >>, <<"a", "backslash", "_">>>>,
     <<<<"!", "a">>, <<"space", "a", "a", "nl">>>>}

\* What this library reads and does not write: blank lines, a tag, several
\* separators, an escape that is none.
OneForeign ==
    {<<<<"cr", "nl", "?", "a", "[", "1", "]", "space", "tab", "backslash", "@", "space", "backslash", "b", "tab", "nl">>,
       <<<<"?", "a">>, << >>, <<"b">>>>>>}

\* One of the initial states of lines is enough to leave alone.
OneHop == LineInit /\ Hops = 1

LibraryInit == Init /\ GueueInit /\ LineInit /\ AvlInit /\ ArpInit

LibraryNext ==
    \/ GueueInit /\ OneHop /\ AvlInit /\ ArpInit /\ Next /\ UNCHANGED <<g, lvars, avars, tapvars>>
    \/ Init /\ OneHop /\ AvlInit /\ ArpInit /\ GueueNext /\ UNCHANGED <<vars, lvars, avars, tapvars>>
    \/ Init /\ GueueInit /\ AvlInit /\ ArpInit /\ LineNext /\ UNCHANGED <<vars, g, avars, tapvars>>
    \/ Init /\ GueueInit /\ OneHop /\ ArpInit /\ AvlNext /\ UNCHANGED <<vars, g, lvars, tapvars>>
    \/ Init /\ GueueInit /\ OneHop /\ AvlInit /\ ArpNext /\ UNCHANGED <<vars, g, lvars, avars>>

LibrarySpec == LibraryInit /\ [][LibraryNext]_<<vars, g, lvars, avars, tapvars>>

=============================================================================
