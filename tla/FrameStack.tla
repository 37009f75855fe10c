----------------------------- MODULE FrameStack -----------------------------
(***************************************************************************)
(* What VMArgStack promises to the virtual machine: a bounded stack cut    *)
(* into frames.  Only the newest frame can be read, popped or cleared; the *)
(* older ones are out of reach until RestoreBasePointer gives them back.   *)
(* A call that the stack refuses reports an exception and changes nothing. *)
(***************************************************************************)
EXTENDS Naturals, Sequences

CONSTANTS
  Capacity,     \* elements the stack has room for
  Values,       \* what an element can hold
  Done,         \* outcome of an operation that returns no element
  Overflow,     \* outcome: StackOverflow was thrown
  Underflow     \* outcome: StackUnderflow was thrown

VARIABLES
  frames,       \* frames, oldest first; each is a sequence, its top first
  outcome       \* what the last operation returned or threw

fvars == <<frames, outcome>>

Visible == frames[Len(frames)]
Hidden  == SubSeq(frames, 1, Len(frames) - 1)

Total(fs) ==
  LET total[n \in 0 .. Len(fs)] == IF n = 0 THEN 0 ELSE total[n - 1] + Len(fs[n]) IN total[Len(fs)]

SetVisible(f) == frames' = Append(Hidden, f)

Refuse(why) == outcome' = why /\ UNCHANGED frames

Init == frames = << <<>> >> /\ outcome = Done

Push(v) ==
  \/ /\ Total(frames) < Capacity
     /\ SetVisible(<<v>> \o Visible)
     /\ outcome' = Done
  \/ Total(frames) = Capacity /\ Refuse(Overflow)

Drop(n) ==
  \/ /\ n <= Len(Visible)
     /\ SetVisible(SubSeq(Visible, n + 1, Len(Visible)))
     /\ outcome' = Done
  \/ n > Len(Visible) /\ Refuse(Underflow)

Read(i) ==
  \/ i < Len(Visible) /\ Refuse(Visible[i + 1])
  \/ i >= Len(Visible) /\ Refuse(Underflow)

Write(i, v) ==
  \/ i < Len(Visible) /\ SetVisible([Visible EXCEPT ![i + 1] = v]) /\ outcome' = Done
  \/ i >= Len(Visible) /\ Refuse(Underflow)

(* The newest n elements become a frame of their own. *)
Enter(n) ==
  /\ n <= Len(Visible)
  /\ frames' = Hidden \o << SubSeq(Visible, n + 1, Len(Visible)), SubSeq(Visible, 1, n) >>
  /\ outcome' = Done

(* The newest frame is merged into the one below it. *)
Leave ==
  /\ Len(frames) > 1
  /\ frames' = Append(SubSeq(frames, 1, Len(frames) - 2), Visible \o frames[Len(frames) - 1])
  /\ outcome' = Done

Clean == frames' = << <<>> >> /\ outcome' = Done

Next ==
  \/ \E v \in Values : Push(v) \/ \E i \in 0 .. Capacity : Write(i, v)
  \/ \E n \in 0 .. Capacity + 1 : Drop(n) \/ Read(n) \/ Enter(n)
  \/ Leave
  \/ Clean

Spec == Init /\ [][Next]_fvars
=============================================================================
