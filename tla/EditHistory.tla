---------------------------- MODULE EditHistory ----------------------------
(***************************************************************************)
(* What the undo history of a document promises, without saying how it is  *)
(* kept: one timeline of contents and a cursor on it.  An edit cuts the    *)
(* timeline behind the cursor and adds the new content, forgetting the     *)
(* oldest ones beyond the limit; undo and redo move the cursor and nothing *)
(* else; opening or reverting starts a new timeline.                       *)
(*                                                                         *)
(* Document implements it (crates/kael_document/src/document.rs) with two  *)
(* stacks and a current content; see Document!History.                     *)
(***************************************************************************)
EXTENDS Naturals, Sequences

CONSTANTS
    Contents,         \* what a document may hold
    MaxHistoryDepth   \* max_history_depth

VARIABLES
    timeline,         \* the contents undo and redo move over
    cursor            \* where on it the document is; 0 when none is open

vars == <<timeline, cursor>>

Newest(s, n) == IF Len(s) > n THEN SubSeq(s, Len(s) - n + 1, Len(s)) ELSE s

Init == timeline = <<>> /\ cursor = 0

(* A document is opened, created or reverted.                              *)
Load ==
    /\ \E c \in Contents : timeline' = <<c>>
    /\ cursor' = 1

Edit ==
    /\ cursor > 0
    /\ \E c \in Contents \ {timeline[cursor]} :
           timeline' = Append(Newest(SubSeq(timeline, 1, cursor), MaxHistoryDepth), c)
    /\ cursor' = Len(timeline')

Undo ==
    /\ cursor > 1
    /\ cursor' = cursor - 1
    /\ UNCHANGED timeline

Redo ==
    /\ cursor > 0 /\ cursor < Len(timeline)
    /\ cursor' = cursor + 1
    /\ UNCHANGED timeline

Close ==
    /\ timeline' = <<>>
    /\ cursor' = 0

Next == Load \/ Edit \/ Undo \/ Redo \/ Close

Spec == Init /\ [][Next]_vars
=============================================================================
