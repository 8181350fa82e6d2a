------------------------------- MODULE MCBus -------------------------------
(***************************************************************************)
(* Instances of Bus for TLC.  Each configuration lets clients send one     *)
(* family of messages, so that every run can afford enough connections and *)
(* requests for that family's interleavings.                               *)
(***************************************************************************)
EXTENDS Bus, TLC

CONSTANTS c1, c2, c3, s1, s2, p1, v1

AnnounceAll == {[op |-> "announce", sid |-> s] : s \in Sessions}
Bare(ops) == {[op |-> o] : o \in ops}
Beat(set) == [op |-> "heartbeat", set |-> set, oversized |-> FALSE]
Oversized == [op |-> "heartbeat", set |-> [f \in Fields |-> Absent], oversized |-> TRUE]
OnlyField(f, v) == [g \in Fields |-> IF g = f THEN v ELSE Absent]
Claim(p, ttl, force) == [op |-> "claim_acquire", path |-> p, ttl |-> ttl, force |-> force]
Free(p) == [op |-> "claim_release", path |-> p]

EmptyJournal ==
  [claims |-> [p \in Paths |-> None], intents |-> [s \in Sessions |-> NoIntent]]

\* Owners and guests, pruning, a sticky field, a line that cannot be read.
SessionMessages ==
  AnnounceAll
    \cup Bare({"peers", "unreadable"})
    \cup {Beat(OnlyField("prd_slug", v)) : v \in {v1, Empty}}

ChosenEmpty == {EmptyJournal}

\* Claims: short and forced long acquires, releases; started from a
\* journal whose claim expires when the clock first moves.
ClaimMessages ==
  AnnounceAll
    \cup Bare({"claim_list"})
    \cup {Claim(p1, 1, FALSE), Claim(p1, 2, TRUE), Free(p1)}

JournalOf(claim) == [EmptyJournal EXCEPT !.claims = [p \in Paths |-> claim]]
ChosenLiveClaim == {JournalOf([sid |-> s1, ttl |-> 1])}

TopicA == <<"wm", "a">>
TopicB == <<"wm", "b">>
ChosenTopics == {TopicA, TopicB}
ChosenPrefixes == {<<"wm", "a">>, <<"wm">>, <<>>}
PubSubMessages ==
  AnnounceAll
    \cup Bare({"update", "uplink_status", "malformed"}) \cup {Oversized}
    \cup {[op |-> "publish", topic |-> t] : t \in ChosenTopics}
    \cup {[op |-> "subscribe", prefix |-> p] : p \in ChosenPrefixes}

ConnSymmetry == Permutations(Conns)
=============================================================================
