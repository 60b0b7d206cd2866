--------------------------- MODULE MCConversation ---------------------------
(* Small inboxes for TLC: the constants of Conversation, chosen in the .cfg  *)
(* files.                                                                    *)
EXTENDS Conversation, TLC

CONSTANTS r1, r2, m1, m2, m3, stop, alice, bob

\* Everything comes from one customer, or the third message from another.
FromAlice == [m \in Messages |-> alice]
FromBoth == [m \in Messages |-> IF m = m3 THEN bob ELSE alice]

\* A request is one message; one that mixes customers, in either order; the
\* second message and the third after it, and an opt-out on its own.
Single == {<<m>> : m \in Messages}
Mixed == {<<m1, m3>>, <<m3, m2>>}
WithStop == {<<m1>>, <<m2, m3>>, <<stop>>}

\* What concerns two messages fails; or the first message; or nothing.
TwoFail == FaultNames \X {m1, m2}
FirstFails == FaultNames \X {m1}
NoFaults == {}

\* The runners may change places: no definition tells them apart.
Alike == Permutations(Runners)
=============================================================================
