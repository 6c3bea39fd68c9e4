---------------------------- MODULE WorkspaceFeed ----------------------------
(***************************************************************************)
(* What the relay promises of one workspace's live stream: "the relay is   *)
(* the single point of ordering per workspace, so messages have a          *)
(* consistent sequence for every daemon" (docs/architecture.md:168).       *)
(*                                                                         *)
(* There is one feed.  An entry joins it after all the others.  A reader   *)
(* may miss entries (its socket was down) but reads in feed order and      *)
(* reads nothing twice.                                                    *)
(***************************************************************************)
EXTENDS Integers, Sequences

CONSTANT Reader

VARIABLES
  feed,   \* the entries published so far
  got     \* [Reader -> the entries it has read, in order]

feedVars == <<feed, got>>

\* An entry's place: the incarnation of the publisher, then its number.
Earlier(a, b) == a.epoch < b.epoch \/ (a.epoch = b.epoch /\ a.seq < b.seq)

FeedInit == feed = {} /\ got = [r \in Reader |-> <<>>]

PublishEntry ==
  /\ \E e \in (feed' \ feed) :
       /\ feed' = feed \cup {e}
       /\ \A f \in feed : Earlier(f, e) /\ f.id # e.id
  /\ UNCHANGED got

ReadEntry(r) ==
  /\ \E e \in feed :
       /\ \A i \in DOMAIN got[r] : Earlier(got[r][i], e)
       /\ got' = [got EXCEPT ![r] = Append(@, e)]
  /\ UNCHANGED feed

FeedNext == PublishEntry \/ \E r \in Reader : ReadEntry(r)

FeedSpec == FeedInit /\ [][FeedNext]_feedVars
=============================================================================
