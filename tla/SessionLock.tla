----------------------------- MODULE SessionLock -----------------------------
(***************************************************************************)
(* What a probe promises about its lock, said without requests, tables or  *)
(* clocks: one owner at a time, everything created belongs to the owner    *)
(* and is gone when the lock changes hands, an id that has just ended is   *)
(* not granted the lock again, and a resource number is given out once in  *)
(* a boot.  ProbeSession implements it.                                    *)
(***************************************************************************)
EXTENDS Integers

CONSTANTS Sid, NoSid

VARIABLES
  owner,    \* the session that holds the lock, or NoSid
  ended,    \* the last owner, or NoSid: not granted again while no other one was
  mine,     \* what the owner has created: <<kind, number>>
  next      \* the next resource number

Init == owner = NoSid /\ ended = NoSid /\ mine = {} /\ next = 1

\* A free lock is granted to any session but the one that has just ended.
Grant(s) ==
  /\ owner = NoSid /\ s # ended
  /\ owner' = s /\ ended' = s
  /\ UNCHANGED <<mine, next>>

\* A session takes the lock of another one by force; nothing passes to it.
Steal(s) ==
  /\ owner \notin {NoSid, s}
  /\ owner' = s /\ ended' = s /\ mine' = {}
  /\ UNCHANGED next

Numbered == {x \in mine : x[1] \in {"conn", "stream"}}

\* The owner creates a connection or a stream: under a number of its own.
Create(kind) ==
  /\ owner # NoSid
  /\ mine' = mine \cup {<<kind, next>>}
  /\ next' = next + 1
  /\ UNCHANGED <<owner, ended>>

\* What takes no number comes and goes, and anything may go.
Change ==
  /\ owner # NoSid
  /\ Numbered' \subseteq Numbered
  /\ UNCHANGED <<owner, ended, next>>

\* The lock ends: the owner ended it or its lease ran out.
Release ==
  /\ owner # NoSid
  /\ owner' = NoSid /\ mine' = {}
  /\ UNCHANGED <<ended, next>>

\* The probe starts again: nothing of the boot before is left.
Restart ==
  /\ owner' = NoSid /\ ended' = NoSid /\ mine' = {} /\ next' = 1

Next ==
  \/ \E s \in Sid : Grant(s) \/ Steal(s)
  \/ \E kind \in {"conn", "stream"} : Create(kind)
  \/ Change \/ Release \/ Restart

Spec == Init /\ [][Next]_<<owner, ended, mine, next>>
=============================================================================
