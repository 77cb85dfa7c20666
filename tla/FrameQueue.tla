----------------------------- MODULE FrameQueue -----------------------------
(***************************************************************************)
(* What one direction of an IPC connection promises: the frames that were  *)
(* accepted come out whole, once and in order, until the connection        *)
(* breaks; what was still inside then is lost.  IpcStream implements it.   *)
(***************************************************************************)
EXTENDS Naturals, Sequences

CONSTANT Frames

VARIABLES
  inside,   \* accepted and not delivered
  out,      \* delivered, in order
  open      \* the connection stands

queueVars == <<inside, out, open>>

QueueInit == inside = <<>> /\ out = <<>> /\ open = TRUE

Accept(f) == open /\ inside' = Append(inside, f) /\ UNCHANGED <<out, open>>

\* One receive hands up some of the oldest frames, all of them whole.
Deliver(n) ==
  /\ open /\ n \in 1..Len(inside)
  /\ out' = out \o SubSeq(inside, 1, n)
  /\ inside' = SubSeq(inside, n + 1, Len(inside))
  /\ UNCHANGED open

Break == open /\ open' = FALSE /\ inside' = <<>> /\ UNCHANGED out

QueueNext ==
  \/ \E f \in Frames : Accept(f)
  \/ \E n \in 1..Len(inside) : Deliver(n)
  \/ Break

QueueSpec == QueueInit /\ [][QueueNext]_queueVars

=============================================================================
