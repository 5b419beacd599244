---------------------------- MODULE MCProbeSession ----------------------------
(***************************************************************************)
(* ProbeSession on small instances: two sessions whose clients may send    *)
(* any request of a chosen set, under any corr, on any route.              *)
(***************************************************************************)
EXTENDS ProbeSession, TLC

CONSTANT Bodies

\* Every request with one of the bodies under every session id and corr, and the header's
\* refusals: a corr 0, an operation the probe does not offer, a session's operation without one.
AllRequests ==
  {[sid |-> s, corr |-> c, op |-> b[1], arg |-> b[2]] : s \in Sid, c \in Corr, b \in Bodies}
  \cup {[sid |-> NoSid, corr |-> 1, op |-> b[1], arg |-> b[2]] : b \in Bodies}
  \cup {[sid |-> s, corr |-> 0, op |-> "keepalive", arg |-> 0] : s \in Sid}
  \cup {[sid |-> s, corr |-> 1, op |-> "unknown", arg |-> 0] : s \in Sid}

\* The lock and the resend table: what can be resent, refused, replayed or forgotten.
LockBodies == {<<"open", 0>>, <<"force", 0>>, <<"end", 0>>, <<"write", 1>>, <<"write", 2>>}

\* What a session creates and loses, and the operations that only answer.
OwnBodies ==
  {<<"open", 1>>, <<"force", 9>>, <<"short", 0>>, <<"badforce", 0>>, <<"end", 0>>,
   <<"connect", 0>>, <<"detach", 1>>, <<"detach", 2>>, <<"stream", 1>>, <<"stream", 2>>,
   <<"close", 1>>, <<"close", 2>>, <<"apply", 7>>, <<"release", 7>>, <<"subscribe", 7>>,
   <<"unsubscribe", 7>>, <<"restart", 0>>, <<"bad", 0>>, <<"confirm", 0>>,
   <<"lock_state", 0>>, <<"keepalive", 0>>, <<"read", 0>>, <<"write", 1>>}

\* Every second corr: the space still wraps (1, 3, 5, 1 ...) with fewer requests.
OddRequests == {r \in AllRequests : r.corr \in {0, 1, 3, 5}}

None == {}

\* The state but for the answers on their way: nothing reads them but the bound OutMax, which a
\* run with this view sets out of its reach.
WithoutAnswers == <<session, table, owned, nextRes, world, history, given>>

Symmetry == Permutations(Sid)
=============================================================================
