---------------------------- MODULE QueueActions ----------------------------
(***************************************************************************)
(* The actions command systems and players queue on a CommandQueue, and    *)
(* what the queue does with them (CommandQueue.hh).  A queue is a record   *)
(* with the current command, those queued behind it, whether the current   *)
(* one is done, and the actions the next frame handles.                    *)
(***************************************************************************)
EXTENDS Sequences

(* CommandQueueAction: Replace, AddFront and AddBack carry commands. *)
Done       == [do |-> "done", cmds |-> << >>]
Replace(s) == [do |-> "replace", cmds |-> s]
Front(c)   == [do |-> "front", cmds |-> <<c>>]
Back(c)    == [do |-> "back", cmds |-> <<c>>]

(* Altered handle_action: a replacement goes before what was queued. *)
HandledNotCleared(r, a) ==
  CASE a.do = "done"    -> [r EXCEPT !.done = TRUE]
    [] a.do = "back"    -> [r EXCEPT !.queued = @ \o a.cmds]
    [] OTHER            -> [r EXCEPT !.queued = a.cmds \o @]

(* handle_action *)
Handled(r, a) ==
  CASE a.do = "done"    -> [r EXCEPT !.done = TRUE]
    [] a.do = "replace" -> [r EXCEPT !.queued = a.cmds]
    [] a.do = "front"   -> [r EXCEPT !.queued = a.cmds \o @]
    [] a.do = "back"    -> [r EXCEPT !.queued = @ \o a.cmds]
=============================================================================
