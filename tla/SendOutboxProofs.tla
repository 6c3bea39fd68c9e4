--------------------------- MODULE SendOutboxProofs ---------------------------
(* What the outgoing messages of the web client keep, for every number of       *)
(* channels and messages and every budget of faults.  The invariant says what a *)
(* record that is still to be read looks like: nothing else of its message is   *)
(* in this page or on the socket, and nothing but deletions under way, so       *)
(* reading it back neither loses nor doubles it.                                *)
EXTENDS SendOutbox, FiniteSetTheorems, FunctionTheorems, TLAPS

(* Frames, transactions and rows that there can be. *)

Row == Message \X (Nat \ {0})
Request == {Sync(cold) : cold \in BOOLEAN}
           \cup {Fetch(c, who) : c \in Channel \cup {None}, who \in {"selectChannel", "selectWorkspace"}}
UpFrame == {[kind |-> "auth"]} \cup {Post(m) : m \in Message} \cup Request
Echo(r) == [kind |-> "echo", row |-> r]
DownFrame == {[kind |-> "welcome"]} \cup {Echo(r) : r \in Row}
             \cup [kind : {"page"}, channel : Channel \cup {None}, by : {"selectChannel", "selectWorkspace"},
                   rows : SUBSET Row]
             \cup [kind : {"delta", "snapshot"}, rows : SUBSET Row]
Transaction == {Do("clear", 0), Do("read", 0)} \cup {Do(what, m) : what \in {"put", "delete"}, m \in Message}

Distinct(q) == \A i, j \in DOMAIN q : q[i] = q[j] => i = j

PageTyped == /\ local \in [Message -> Status] /\ bubbles \in [Message -> Status]
             /\ shown \subseteq Row /\ watch \subseteq Message
             /\ restoring \in BOOLEAN /\ parked \in BOOLEAN /\ blank \in BOOLEAN /\ active \in Channel \cup {None}
QueueTyped == queue \in Seq(Message) /\ Distinct(queue)
WireTyped == /\ sock \in {"closed", "open", "authed"} /\ known \in {"no", "checking", "yes"}
             /\ up \in Seq(UpFrame) /\ down \in Seq(DownFrame)
RelayTyped == posting \in [Message -> Nat] /\ asking \in Seq(Request) /\ rows \in SUBSET Row
StoreTyped == stored \subseteq Message /\ ops \in Seq(Transaction)
HistoryTyped == /\ home \in [Message -> Channel \cup {None}]
                /\ posted \in [Message -> Nat] /\ again \in [Message -> Nat]
                /\ lost \subseteq Message /\ refused \subseteq Message /\ dropped \subseteq Message
                /\ may \in Budgets /\ faults \in 0 .. may.faults
Typed == PageTyped /\ QueueTyped /\ WireTyped /\ RelayTyped /\ StoreTyped /\ HistoryTyped

\* The rows of a frame.
Rows(f) == CASE f.kind = "echo" -> {f.row}
             [] f.kind \in {"page", "delta", "snapshot"} -> f.rows
             [] OTHER -> {}

\* Nothing bears the number of a message that was not written.
Absent(m) == /\ local[m] = None /\ bubbles[m] = None /\ posted[m] = 0 /\ posting[m] = 0
             /\ m \notin stored /\ m \notin ToSet(queue) /\ m \notin Posts(up)
             /\ \A i \in DOMAIN ops : ops[i].m # m
Unwritten == \A m \in Message : home[m] = None => Absent(m)

\* The page and the requests have only found what was posted, and an echo comes
\* before any other frame that has its row.
SeenRows == /\ \A r \in shown \cup rows : r[2] <= posted[r[1]]
            /\ \A i \in DOMAIN down : \A r \in Rows(down[i]) : r[2] <= posted[r[1]]
EchoFirst == \A i \in DOMAIN down : down[i].kind = "echo" =>
    /\ down[i].row \notin shown
    /\ \A j \in 1 .. i-1 : down[i].row \notin Rows(down[j])

\* A record that is still to be read: this page has nothing else of its message,
\* its put has ended, and only deletions, which the echo of an earlier post can
\* bring, follow.
Untouched(m) == /\ m \in stored
                /\ m \notin ToSet(queue) /\ m \notin Posts(up)
                /\ local[m] = None /\ bubbles[m] = None
                /\ \A i \in DOMAIN ops : ops[i].m = m => ops[i] = Do("delete", m)

\* The records once n of the transactions o have ended over the records s.
RecordsOf(s, o, n) == {m \in Message :
    \/ m \in s /\ \A i \in 1 .. n : ~Removes(o[i], m)
    \/ \E i \in 1 .. n : o[i] = Do("put", m) /\ \A j \in i+1 .. n : ~Removes(o[j], m)}

\* A page that has just begun (first) will read it, or a read under way will find it.
DueIn(s, o, first, m) == \/ first /\ m \in RecordsOf(s, o, Len(o))
                         \/ \E i \in 1 .. Len(o) : o[i].op = "read" /\ m \in RecordsOf(s, o, i)
Due(m) == DueIn(stored, ops, restoring, m)
ToBeRead == \A m \in Message : Due(m) => Untouched(m)

\* A logout lies between two reads, and before the read of a page that has just begun.
SeparatedIn(o, first) == \A i \in 1 .. Len(o) : o[i].op = "read" =>
    /\ first => \E k \in i+1 .. Len(o) : o[k].op = "clear"
    /\ \A j \in i+1 .. Len(o) : o[j].op = "read" => \E k \in i+1 .. j : o[k].op = "clear"
Separated == SeparatedIn(ops, restoring)

\* Nothing is on the way while the socket is closed.
Silent == sock = "closed" => up = <<>> /\ down = <<>> /\ known = "no" /\ asking = <<>>

\* Where a message is that was written, when nothing went wrong.
Traced == \A m \in Sent \ (lost \cup refused \cup dropped) :
    \/ posted[m] + posting[m] > 0
    \/ m \in Posts(up)
    \/ m \in RecordsOf(stored, ops, Len(ops)) /\ (m \in ToSet(queue) \/ Due(m))

\* Posts of a message that are on their way, are under way or can still be made.
Copies(q, m) == Cardinality({i \in DOMAIN q : q[i] = Post(m)})
KeptIn(s, o, m) == \/ m \in s /\ \A i \in 1 .. Len(o) : o[i] # Do("delete", m)
                   \/ \E i \in 1 .. Len(o) : o[i] = Do("put", m)
                                             /\ \A j \in i+1 .. Len(o) : o[j] # Do("delete", m)
Live(m) == m \in ToSet(queue) \/ KeptIn(stored, ops, m) \/ Due(m)
Tokens == \A m \in Message :
    posted[m] + posting[m] + Copies(up, m) + (IF Live(m) THEN 1 ELSE 0) <= 1 + again[m]

OutboxInv == /\ Typed /\ Unwritten /\ SeenRows /\ EchoFirst /\ FreshBubblesAreRight
             /\ Silent /\ ToBeRead /\ Separated /\ Traced /\ Tokens

------------------------------------------------------------------------------
(* Lemmas about the data. *)

\* The model's operators are those of the records and the transactions there are.
LEMMA RecordsAre == /\ \A n : RecordsAfter(n) = RecordsOf(stored, ops, n)
                    /\ Records = RecordsOf(stored, ops, Len(ops))
                    /\ \A n : RecordsAfter(n)' = RecordsOf(stored', ops', n)
                    /\ Records' = RecordsOf(stored', ops', Len(ops'))
BY DEF RecordsAfter, Records, RecordsOf

\* One sequence after the other.
LEMMA Joined ==
  ASSUME NEW S, NEW a \in Seq(S), NEW b \in Seq(S)
  PROVE  /\ a \o b \in Seq(S) /\ Len(a \o b) = Len(a) + Len(b) /\ Len(a) \in Nat /\ Len(b) \in Nat
         /\ \A i \in 1 .. Len(a) : (a \o b)[i] = a[i]
         /\ \A i \in 1 .. Len(b) : (a \o b)[Len(a) + i] = b[i]
         /\ \A i \in 1 .. Len(a) + Len(b) : i > Len(a) => i - Len(a) \in 1 .. Len(b) /\ (a \o b)[i] = b[i - Len(a)]
OBVIOUS

\* Joining sequences is associative.
LEMMA Regrouped ==
  ASSUME NEW S, NEW a \in Seq(S), NEW b \in Seq(S), NEW c \in Seq(S)
  PROVE  (a \o b) \o c = a \o (b \o c)
OBVIOUS

\* Transactions that begin later change no earlier record.
LEMMA ExtendOps ==
  ASSUME NEW s, NEW o \in Seq(Transaction), NEW e \in Seq(Transaction)
  PROVE  /\ \A n \in 0 .. Len(o) : RecordsOf(s, o \o e, n) = RecordsOf(s, o, n)
         /\ \A m \in Message : m \in RecordsOf(s, o, Len(o)) /\ (\A i \in DOMAIN e : ~Removes(e[i], m))
                               => m \in RecordsOf(s, o \o e, Len(o \o e))
         /\ \A m \in Message : m \in RecordsOf(s, o \o e, Len(o \o e)) /\ (\A i \in DOMAIN e : e[i] # Do("put", m))
                               => m \in RecordsOf(s, o, Len(o))
<1> DEFINE p == o \o e
<1>1. /\ Len(p) = Len(o) + Len(e) /\ Len(o) \in Nat /\ Len(e) \in Nat
      /\ \A i \in 1 .. Len(o) : p[i] = o[i]
      /\ \A i \in 1 .. Len(e) : p[Len(o) + i] = e[i]
      /\ \A i \in 1 .. Len(p) : i > Len(o) => p[i] = e[i - Len(o)] /\ i - Len(o) \in 1 .. Len(e)
  OBVIOUS
<1> HIDE DEF p
<1>2. \A n \in 0 .. Len(o) : RecordsOf(s, p, n) = RecordsOf(s, o, n)
  <2> SUFFICES ASSUME NEW n \in 0 .. Len(o) PROVE RecordsOf(s, p, n) = RecordsOf(s, o, n)
    OBVIOUS
  <2>1. \A i \in 1 .. n : p[i] = o[i]
    BY <1>1
  <2>2. \A i \in 1 .. n : \A j \in i+1 .. n : p[j] = o[j]
    BY <2>1
  <2>3. QED BY <2>1, <2>2 DEF RecordsOf
<1>3. ASSUME NEW m \in Message, m \in RecordsOf(s, o, Len(o)), \A i \in DOMAIN e : ~Removes(e[i], m)
      PROVE  m \in RecordsOf(s, p, Len(p))
  <2>1. \A i \in 1 .. Len(p) : i > Len(o) => ~Removes(p[i], m)
    BY <1>1, <1>3
  <2>2. CASE m \in s /\ \A i \in 1 .. Len(o) : ~Removes(o[i], m)
    BY <1>1, <2>1, <2>2 DEF RecordsOf
  <2>3. ASSUME NEW i \in 1 .. Len(o), o[i] = Do("put", m), \A j \in i+1 .. Len(o) : ~Removes(o[j], m)
        PROVE  m \in RecordsOf(s, p, Len(p))
    <3>1. i \in 1 .. Len(p) /\ p[i] = Do("put", m)
      BY <1>1, <2>3
    <3>2. ASSUME NEW j \in i+1 .. Len(p) PROVE ~Removes(p[j], m)
      <4>1. CASE j > Len(o)
        BY <2>1, <2>3, <4>1
      <4>2. CASE ~(j > Len(o))
        <5>1. j \in i+1 .. Len(o) /\ j \in 1 .. Len(o)
          BY <1>1, <2>3, <4>2
        <5>2. QED BY <1>1, <2>3, <5>1
      <4>3. QED BY <4>1, <4>2
    <3>3. QED BY <3>1, <3>2 DEF RecordsOf
  <2>4. QED BY <1>3, <2>2, <2>3 DEF RecordsOf
<1>4. ASSUME NEW m \in Message, m \in RecordsOf(s, p, Len(p)), \A i \in DOMAIN e : e[i] # Do("put", m)
      PROVE  m \in RecordsOf(s, o, Len(o))
  <2>1. \A i \in 1 .. Len(p) : i > Len(o) => p[i] # Do("put", m)
    BY <1>1, <1>4
  <2>2. CASE m \in s /\ \A i \in 1 .. Len(p) : ~Removes(p[i], m)
    BY <1>1, <2>2 DEF RecordsOf
  <2>3. ASSUME NEW i \in 1 .. Len(p), p[i] = Do("put", m), \A j \in i+1 .. Len(p) : ~Removes(p[j], m)
        PROVE  m \in RecordsOf(s, o, Len(o))
    <3>1. i \in 1 .. Len(o) /\ o[i] = Do("put", m)
      BY <1>1, <2>1, <2>3
    <3>2. \A j \in i+1 .. Len(o) : ~Removes(o[j], m)
      BY <1>1, <2>3
    <3>3. QED BY <3>1, <3>2 DEF RecordsOf
  <2>4. QED BY <1>4, <2>2, <2>3 DEF RecordsOf
<1>5. QED BY <1>2, <1>3, <1>4 DEF p

\* A transaction that ends leaves the records as the rest will.
LEMMA EndOp ==
  ASSUME NEW s \in SUBSET Message, NEW o \in Seq(Transaction), o # <<>>
  PROVE  \A n \in 1 .. Len(o) : RecordsOf(Commit(s, Head(o)), Tail(o), n - 1) = RecordsOf(s, o, n)
<1> DEFINE t == Tail(o)
           c == Commit(s, Head(o))
<1>1. /\ Len(o) \in Nat \ {0} /\ Len(t) = Len(o) - 1 /\ Head(o) = o[1] /\ o[1] \in Transaction
      /\ \A i \in 1 .. Len(t) : t[i] = o[i+1]
  OBVIOUS
<1>2. \A m \in Message : m \in c <=> (m \in s /\ ~Removes(o[1], m)) \/ o[1] = Do("put", m)
  BY <1>1 DEF Commit, Removes, Do, Transaction
<1> HIDE DEF t, c
<1>3. SUFFICES ASSUME NEW n \in 1 .. Len(o), NEW m \in Message
               PROVE  m \in RecordsOf(c, t, n-1) <=> m \in RecordsOf(s, o, n)
  <2>1. \A n \in 1 .. Len(o) : RecordsOf(c, t, n-1) = RecordsOf(s, o, n)
    BY <1>3 DEF RecordsOf
  <2>2. QED BY <2>1 DEF t, c
<1>4. (\A i \in 1 .. n-1 : ~Removes(t[i], m)) <=> \A i \in 2 .. n : ~Removes(o[i], m)
  <2>1. \A i \in 2 .. n : o[i] = t[i-1] /\ i-1 \in 1 .. n-1
    BY <1>1
  <2>2. \A i \in 1 .. n-1 : t[i] = o[i+1] /\ i+1 \in 2 .. n
    BY <1>1
  <2>3. QED BY <2>1, <2>2
<1>5. (\E i \in 1 .. n-1 : t[i] = Do("put", m) /\ \A j \in i+1 .. n-1 : ~Removes(t[j], m))
      <=> \E i \in 2 .. n : o[i] = Do("put", m) /\ \A j \in i+1 .. n : ~Removes(o[j], m)
  <2>1. ASSUME NEW i \in 1 .. n-1, t[i] = Do("put", m), \A j \in i+1 .. n-1 : ~Removes(t[j], m)
        PROVE  \E k \in 2 .. n : o[k] = Do("put", m) /\ \A j \in k+1 .. n : ~Removes(o[j], m)
    <3>1. \A j \in i+2 .. n : o[j] = t[j-1] /\ j-1 \in i+1 .. n-1
      BY <1>1
    <3>2. i+1 \in 2 .. n /\ o[i+1] = t[i]
      BY <1>1
    <3>3. QED BY <2>1, <3>1, <3>2
  <2>2. ASSUME NEW i \in 2 .. n, o[i] = Do("put", m), \A j \in i+1 .. n : ~Removes(o[j], m)
        PROVE  \E k \in 1 .. n-1 : t[k] = Do("put", m) /\ \A j \in k+1 .. n-1 : ~Removes(t[j], m)
    <3>1. \A j \in i .. n-1 : t[j] = o[j+1] /\ j+1 \in i+1 .. n
      BY <1>1
    <3>2. i-1 \in 1 .. n-1 /\ t[i-1] = o[i]
      BY <1>1
    <3>3. QED BY <2>2, <3>1, <3>2
  <2>3. QED BY <2>1, <2>2
<1>6. (m \in s /\ \A i \in 1 .. n : ~Removes(o[i], m))
      <=> m \in s /\ ~Removes(o[1], m) /\ \A i \in 2 .. n : ~Removes(o[i], m)
  BY <1>1
<1>7. (\E i \in 1 .. n : o[i] = Do("put", m) /\ \A j \in i+1 .. n : ~Removes(o[j], m))
      <=> \/ o[1] = Do("put", m) /\ \A j \in 2 .. n : ~Removes(o[j], m)
          \/ \E i \in 2 .. n : o[i] = Do("put", m) /\ \A j \in i+1 .. n : ~Removes(o[j], m)
  <2>1. 1 .. n = {1} \cup 2 .. n
    OBVIOUS
  <2>2. QED BY <2>1
<1>8. QED BY <1>2, <1>4, <1>5, <1>6, <1>7 DEF RecordsOf

\* The same for deletions alone.
LEMMA ExtendKept ==
  ASSUME NEW s, NEW o \in Seq(Transaction), NEW e \in Seq(Transaction), NEW m \in Message
  PROVE  /\ (\A i \in DOMAIN e : e[i] # Do("put", m)) => (KeptIn(s, o \o e, m) => KeptIn(s, o, m))
         /\ (\E i \in DOMAIN e : e[i] = Do("delete", m)) /\ (\A i \in DOMAIN e : e[i] # Do("put", m))
            => ~KeptIn(s, o \o e, m)
<1> DEFINE p == o \o e
<1>1. /\ Len(p) = Len(o) + Len(e) /\ Len(o) \in Nat /\ Len(e) \in Nat
      /\ \A i \in 1 .. Len(o) : p[i] = o[i]
      /\ \A i \in 1 .. Len(e) : p[Len(o) + i] = e[i]
      /\ \A i \in 1 .. Len(p) : i > Len(o) => p[i] = e[i - Len(o)] /\ i - Len(o) \in 1 .. Len(e)
  OBVIOUS
<1> HIDE DEF p
<1>2. ASSUME \A i \in DOMAIN e : e[i] # Do("put", m), KeptIn(s, p, m)
      PROVE  KeptIn(s, o, m) /\ \A i \in DOMAIN e : e[i] # Do("delete", m)
  <2>1. \A i \in 1 .. Len(p) : i > Len(o) => p[i] # Do("put", m)
    BY <1>1, <1>2
  <2>2. CASE m \in s /\ \A i \in 1 .. Len(p) : p[i] # Do("delete", m)
    BY <1>1, <2>2 DEF KeptIn
  <2>3. ASSUME NEW i \in 1 .. Len(p), p[i] = Do("put", m), \A j \in i+1 .. Len(p) : p[j] # Do("delete", m)
        PROVE  KeptIn(s, o, m) /\ \A k \in DOMAIN e : e[k] # Do("delete", m)
    <3>1. i \in 1 .. Len(o) /\ o[i] = Do("put", m)
      BY <1>1, <2>1, <2>3
    <3>2. \A j \in i+1 .. Len(o) : o[j] # Do("delete", m)
      BY <1>1, <2>3
    <3>3. \A k \in 1 .. Len(e) : Len(o) + k \in i+1 .. Len(p)
      BY <1>1, <3>1
    <3>4. \A k \in 1 .. Len(e) : e[k] # Do("delete", m)
      BY <1>1, <2>3, <3>3
    <3>5. QED BY <3>1, <3>2, <3>4 DEF KeptIn
  <2>4. QED BY <1>2, <2>2, <2>3 DEF KeptIn
<1>3. QED BY <1>2 DEF p

\* What is kept when the first transaction has ended was kept before.
LEMMA EndKept ==
  ASSUME NEW s \in SUBSET Message, NEW o \in Seq(Transaction), o # <<>>, NEW m \in Message,
         KeptIn(Commit(s, Head(o)), Tail(o), m)
  PROVE  KeptIn(s, o, m)
<1> DEFINE t == Tail(o)
           c == Commit(s, Head(o))
<1>1. /\ Len(o) \in Nat \ {0} /\ Len(t) = Len(o) - 1 /\ Head(o) = o[1] /\ o[1] \in Transaction
      /\ \A i \in 1 .. Len(t) : t[i] = o[i+1]
      /\ \A i \in 2 .. Len(o) : o[i] = t[i-1] /\ i-1 \in 1 .. Len(t)
  OBVIOUS
<1>2. m \in c => (m \in s /\ o[1] # Do("delete", m)) \/ o[1] = Do("put", m)
  BY <1>1 DEF Commit, Do, Transaction
<1>3. KeptIn(c, t, m)
  OBVIOUS
<1> HIDE DEF t, c
<1>4. CASE m \in c /\ \A i \in 1 .. Len(t) : t[i] # Do("delete", m)
  <2>1. \A i \in 2 .. Len(o) : o[i] # Do("delete", m)
    BY <1>1, <1>4
  <2>2. QED BY <1>1, <1>2, <1>4, <2>1 DEF KeptIn
<1>5. ASSUME NEW i \in 1 .. Len(t), t[i] = Do("put", m), \A j \in i+1 .. Len(t) : t[j] # Do("delete", m)
      PROVE  KeptIn(s, o, m)
  <2>1. i+1 \in 1 .. Len(o) /\ o[i+1] = Do("put", m)
    BY <1>1, <1>5
  <2>2. \A j \in i+2 .. Len(o) : o[j] # Do("delete", m)
    BY <1>1, <1>5
  <2>3. QED BY <2>1, <2>2 DEF KeptIn
<1>6. QED BY <1>3, <1>4, <1>5 DEF KeptIn

\* Posts that are on their way.
LEMMA CopiesAre ==
  ASSUME NEW q \in Seq(UpFrame), NEW m \in Message
  PROVE  /\ Copies(q, m) \in Nat
         /\ m \notin Posts(q) => Copies(q, m) = 0
         /\ \A f \in UpFrame : Copies(Append(q, f), m) = Copies(q, m) + (IF f = Post(m) THEN 1 ELSE 0)
<1> DEFINE D == {i \in DOMAIN q : q[i] = Post(m)}
<1>1. IsFiniteSet(D) /\ Cardinality(D) \in Nat
  <2>1. IsFiniteSet(1 .. Len(q)) /\ D \in SUBSET (1 .. Len(q))
    BY FS_Interval
  <2>2. QED BY <2>1, FS_Subset, FS_CardinalityType
<1>2. m \notin Posts(q) => D = {}
  BY DEF Posts, Post, IsPost
<1>3. ASSUME NEW f \in UpFrame
      PROVE  Copies(Append(q, f), m) = Copies(q, m) + (IF f = Post(m) THEN 1 ELSE 0)
  <2> DEFINE E == {i \in DOMAIN Append(q, f) : Append(q, f)[i] = Post(m)}
             n == Len(q) + 1
  <2>1. E = IF f = Post(m) THEN D \cup {n} ELSE D
    <3>1. /\ DOMAIN Append(q, f) = DOMAIN q \cup {n} /\ n \notin DOMAIN q
          /\ Append(q, f)[n] = f /\ \A i \in DOMAIN q : Append(q, f)[i] = q[i]
      OBVIOUS
    <3>2. QED BY <3>1
  <2>2. n \notin D
    OBVIOUS
  <2>3. Copies(Append(q, f), m) = Cardinality(E) /\ Copies(q, m) = Cardinality(D)
    BY DEF Copies
  <2> HIDE DEF D, E, n
  <2>4. Cardinality(D \cup {n}) = Cardinality(D) + 1
    BY <1>1, <2>2, FS_AddElement
  <2>5. QED BY <1>1, <2>1, <2>3, <2>4
<1>4. QED BY <1>1, <1>2, <1>3, FS_EmptySet DEF Copies

\* Reading a frame takes one copy off the wire, if it is one.
LEMMA CopiesOfTail ==
  ASSUME NEW q \in Seq(UpFrame), q # <<>>, NEW m \in Message
  PROVE  Copies(Tail(q), m) + (IF Head(q) = Post(m) THEN 1 ELSE 0) = Copies(q, m)
<1> DEFINE D == {i \in DOMAIN q : q[i] = Post(m)}
           E == {i \in DOMAIN Tail(q) : Tail(q)[i] = Post(m)}
           f == [i \in D \ {1} |-> i - 1]
<1>1. IsFiniteSet(D) /\ Cardinality(D) \in Nat
  <2>1. IsFiniteSet(1 .. Len(q)) /\ D \in SUBSET (1 .. Len(q))
    BY FS_Interval
  <2>2. QED BY <2>1, FS_Subset, FS_CardinalityType
<1>2. /\ \A i \in D \ {1} : i - 1 \in E
      /\ \A i \in E : i + 1 \in D \ {1}
      /\ D \subseteq Int /\ E \subseteq Int
  OBVIOUS
<1>3. 1 \in D <=> Head(q) = Post(m)
  OBVIOUS
<1> HIDE DEF D, E
<1>4. f \in [D \ {1} -> E] /\ (\A a, b \in D \ {1} : f[a] = f[b] => a = b)
  BY <1>2
<1>5. \A t \in E : \E s \in D \ {1} : f[s] = t
  BY <1>2
<1>6. f \in Bijection(D \ {1}, E)
  BY <1>4, <1>5, Fun_IsBij
<1>7. Cardinality(E) = Cardinality(D \ {1}) /\ IsFiniteSet(D \ {1})
  BY <1>1, <1>6, FS_RemoveElement, FS_Bijection DEF ExistsBijection
<1>8. Cardinality(D \ {1}) = IF 1 \in D THEN Cardinality(D) - 1 ELSE Cardinality(D)
  BY <1>1, FS_RemoveElement
<1>9. Copies(q, m) = Cardinality(D) /\ Copies(Tail(q), m) = Cardinality(E)
  BY DEF Copies, D, E
<1>10. QED BY <1>1, <1>3, <1>7, <1>8, <1>9

\* Handing a queue over posts each of its messages once.
LEMMA CopiesOfAll ==
  ASSUME NEW u \in Seq(UpFrame), NEW q \in Seq(Message), Distinct(q), NEW m \in Message
  PROVE  Copies(u \o [i \in DOMAIN q |-> Post(q[i])], m) = Copies(u, m) + (IF m \in ToSet(q) THEN 1 ELSE 0)
<1> DEFINE p == [i \in DOMAIN q |-> Post(q[i])]
           D == {i \in DOMAIN u : u[i] = Post(m)}
           E == {i \in DOMAIN (u \o p) : (u \o p)[i] = Post(m)}
<1>1. IsFiniteSet(D) /\ Cardinality(D) \in Nat
  <2>1. IsFiniteSet(1 .. Len(u)) /\ D \in SUBSET (1 .. Len(u))
    BY FS_Interval
  <2>2. QED BY <2>1, FS_Subset, FS_CardinalityType
<1>2. p \in Seq(UpFrame) /\ Len(p) = Len(q) /\ \A i \in 1 .. Len(q) : p[i] = Post(q[i])
  BY DEF UpFrame
<1> HIDE DEF p
<1>3. /\ Len(u) \in Nat /\ Len(q) \in Nat /\ Len(u \o p) = Len(u) + Len(q)
      /\ \A i \in 1 .. Len(u) : (u \o p)[i] = u[i]
      /\ \A i \in 1 .. Len(q) : (u \o p)[Len(u) + i] = Post(q[i])
      /\ \A i \in 1 .. Len(u) + Len(q) : i > Len(u) => i - Len(u) \in 1 .. Len(q) /\ (u \o p)[i] = Post(q[i - Len(u)])
  <2>0. p \in Seq(UpFrame)
    BY <1>2
  <2> DEFINE j == u \o p
  <2>1. /\ Len(u) \in Nat /\ Len(p) \in Nat /\ Len(j) = Len(u) + Len(p)
        /\ \A i \in 1 .. Len(u) : j[i] = u[i]
        /\ \A i \in 1 .. Len(p) : j[Len(u) + i] = p[i]
        /\ \A i \in 1 .. Len(u) + Len(p) : i > Len(u) => i - Len(u) \in 1 .. Len(p) /\ j[i] = p[i - Len(u)]
    BY <2>0, Joined
  <2> HIDE DEF j
  <2>2. QED BY <1>2, <2>1 DEF j
<1>4. \A a, b \in Message : Post(a) = Post(b) => a = b
  BY DEF Post
<1>5. Copies(u \o p, m) = Cardinality(E) /\ Copies(u, m) = Cardinality(D)
  BY DEF Copies
<1>6. CASE m \notin ToSet(q)
  <2>1. E = D
    BY <1>3, <1>4, <1>6 DEF ToSet
  <2> HIDE DEF D, E
  <2>2. QED BY <1>1, <1>5, <1>6, <2>1 DEF p
<1>7. CASE m \in ToSet(q)
  <2>1. PICK k \in 1 .. Len(q) : q[k] = m
    BY <1>7 DEF ToSet
  <2>2. E = D \cup {Len(u) + k} /\ Len(u) + k \notin D
    <3>1. \A i \in E : i > Len(u) => i = Len(u) + k
      <4> SUFFICES ASSUME NEW i \in E, i > Len(u) PROVE i = Len(u) + k
        OBVIOUS
      <4>1. i - Len(u) \in 1 .. Len(q) /\ Post(q[i - Len(u)]) = Post(m)
        BY <1>3
      <4>2. q[i - Len(u)] = q[k]
        BY <1>4, <2>1, <4>1
      <4>3. i - Len(u) = k
        BY <2>1, <4>1, <4>2 DEF Distinct
      <4>4. Len(u) \in Int /\ i \in Int
        OBVIOUS
      <4> HIDE DEF D, E
      <4>5. QED BY <4>3, <4>4
    <3>2. \A i \in E : ~(i > Len(u)) => i \in D
      BY <1>3
    <3>3. D \subseteq E /\ Len(u) + k \in E
      BY <1>3, <2>1
    <3>4. QED BY <3>1, <3>2, <3>3, <1>3
  <2> HIDE DEF D, E
  <2>3. Cardinality(E) = Cardinality(D) + 1
    BY <1>1, <2>2, FS_AddElement
  <2>4. QED BY <1>5, <1>7, <2>3 DEF p
<1>8. QED BY <1>6, <1>7

\* The records that were read are queued oldest first, each once.
LEMMA OldestFirstIs ==
  ASSUME SendOutboxAssumption, NEW S \in SUBSET Message
  PROVE  /\ OldestFirst(S) \in Seq(Message) /\ ToSet(OldestFirst(S)) = S /\ Distinct(OldestFirst(S))
<1> DEFINE Upto(m) == {x \in S : x <= m}
           rank == [m \in S |-> Cardinality(Upto(m))]
           n == Cardinality(S)
           Sorted(q) == q \in [1 .. n -> S] /\ \A i, j \in DOMAIN q : i < j => q[i] < q[j]
<1>1. S \subseteq Nat /\ IsFiniteSet(S) /\ n \in Nat
  <2>1. IsFiniteSet(1 .. MaxSends) /\ S \subseteq 1 .. MaxSends /\ 1 .. MaxSends \subseteq Nat
    BY FS_Interval DEF SendOutboxAssumption, Message
  <2>2. QED BY <2>1, FS_Subset, FS_CardinalityType
<1>2. \A m \in S : IsFiniteSet(Upto(m)) /\ Cardinality(Upto(m)) \in 1 .. n
  <2> SUFFICES ASSUME NEW m \in S PROVE IsFiniteSet(Upto(m)) /\ Cardinality(Upto(m)) \in 1 .. n
    OBVIOUS
  <2>1. Upto(m) \in SUBSET S /\ m \in Upto(m)
    BY <1>1
  <2> HIDE DEF Upto
  <2>2. IsFiniteSet(Upto(m)) /\ Cardinality(Upto(m)) <= n /\ Cardinality(Upto(m)) \in Nat
    BY <1>1, <2>1, FS_Subset, FS_CardinalityType
  <2>3. Cardinality(Upto(m)) # 0
    BY <2>1, <2>2, FS_EmptySet
  <2>4. QED BY <1>1, <2>2, <2>3
<1>3. \A a, b \in S : a < b => rank[a] < rank[b]
  <2> SUFFICES ASSUME NEW a \in S, NEW b \in S, a < b PROVE Cardinality(Upto(a)) < Cardinality(Upto(b))
    OBVIOUS
  <2>1. Upto(a) \in SUBSET Upto(b) /\ Upto(a) # Upto(b)
    <3>1. a \in Nat /\ b \in Nat /\ \A x \in S : x \in Nat
      BY <1>1
    <3>2. b \in Upto(b) /\ b \notin Upto(a)
      BY <3>1
    <3>3. \A x \in Upto(a) : x \in Upto(b)
      BY <3>1
    <3>4. QED BY <3>2, <3>3
  <2> HIDE DEF Upto
  <2>2. Cardinality(Upto(a)) <= Cardinality(Upto(b)) /\ Cardinality(Upto(a)) # Cardinality(Upto(b))
    BY <1>2, <2>1, FS_Subset
  <2>3. QED BY <1>2, <2>2
<1>4. rank \in [S -> 1 .. n]
  BY <1>2
<1> HIDE DEF rank, n
<1>5. \A a, b \in S : rank[a] = rank[b] => a = b
  <2> SUFFICES ASSUME NEW a \in S, NEW b \in S, rank[a] = rank[b], a # b PROVE FALSE
    OBVIOUS
  <2>1. a < b \/ b < a
    BY <1>1
  <2>2. QED BY <1>1, <1>3, <1>4, <2>1
<1>6. rank \in Surjection(S, 1 .. n)
  <2>1. rank \in Injection(S, 1 .. n)
    BY <1>4, <1>5, Fun_IsInj
  <2>2. IsFiniteSet(1 .. n) /\ Cardinality(1 .. n) = n
    BY <1>1, FS_Interval
  <2>3. QED BY <2>1, <2>2, FS_Injection DEF n
<1>7. \A i \in 1 .. n : \E m \in S : rank[m] = i
  BY <1>6, Fun_SurjectionProperties
<1> DEFINE q0 == [i \in 1 .. n |-> CHOOSE m \in S : rank[m] = i]
<1>8. \A i \in 1 .. n : q0[i] \in S /\ rank[q0[i]] = i
  BY <1>7
<1>9. Sorted(q0)
  <2>1. q0 \in [1 .. n -> S]
    BY <1>8
  <2>2. ASSUME NEW i \in 1 .. n, NEW j \in 1 .. n, i < j PROVE q0[i] < q0[j]
    <3> HIDE DEF q0
    <3>0. q0[i] \in S /\ q0[j] \in S /\ rank[q0[i]] = i /\ rank[q0[j]] = j
      BY <1>8
    <3>1. q0[i] \in Nat /\ q0[j] \in Nat /\ ~(q0[j] < q0[i]) /\ q0[j] # q0[i]
      <4>1. q0[j] < q0[i] => j < i
        BY <1>3, <3>0
      <4>2. i \in Int /\ j \in Int
        OBVIOUS
      <4>3. ~(q0[j] < q0[i]) /\ q0[j] # q0[i]
        BY <2>2, <3>0, <4>1, <4>2
      <4>4. QED BY <1>1, <3>0, <4>3
    <3>2. QED BY <3>1
  <2>3. QED BY <2>1, <2>2
<1> DEFINE q == OldestFirst(S)
<1>10. Sorted(q)
  <2>1. q = CHOOSE r \in [1 .. n -> S] : \A i, j \in DOMAIN r : i < j => r[i] < r[j]
    BY DEF OldestFirst, n
  <2>2. \E r \in [1 .. n -> S] : \A i, j \in DOMAIN r : i < j => r[i] < r[j]
    BY <1>9
  <2> HIDE DEF q
  <2>3. QED BY <2>1, <2>2
<1> HIDE DEF q
<1>11. q \in [1 .. n -> S] /\ \A i, j \in 1 .. n : i < j => q[i] < q[j]
  BY <1>10
<1>12. \A i, j \in 1 .. n : q[i] = q[j] => i = j
  <2> SUFFICES ASSUME NEW i \in 1 .. n, NEW j \in 1 .. n, q[i] = q[j], i # j PROVE FALSE
    OBVIOUS
  <2>1. i < j \/ j < i
    BY <1>1
  <2>2. q[i] < q[j] \/ q[j] < q[i]
    BY <1>11, <2>1
  <2>3. q[i] \in Nat /\ q[j] \in Nat
    BY <1>1, <1>11
  <2>4. QED BY <2>2, <2>3
<1>13. \A m \in S : \E i \in 1 .. n : q[i] = m
  <2>1. q \in Injection(1 .. n, S)
    BY <1>11, <1>12, Fun_IsInj
  <2>2. IsFiniteSet(1 .. n) /\ Cardinality(1 .. n) = n
    BY <1>1, FS_Interval
  <2>3. q \in Surjection(1 .. n, S)
    BY <1>1, <2>1, <2>2, FS_Injection DEF n
  <2>4. QED BY <2>3 DEF Surjection
<1>14. q \in Seq(Message) /\ DOMAIN q = 1 .. n
  <2>1. q \in [1 .. n -> Message]
    BY <1>11
  <2>2. QED BY <1>1, <2>1
<1>15. ToSet(q) = S /\ Distinct(q)
  BY <1>11, <1>12, <1>13, <1>14 DEF ToSet, Distinct
<1>16. QED BY <1>14, <1>15 DEF q

\* dequeueOutbox takes the only entry of a message out.
LEMMA RemoveFirstIs ==
  ASSUME NEW q \in Seq(Message), Distinct(q), NEW m \in Message
  PROVE  LET r == RemoveFirst(q, m)
         IN  r \in Seq(Message) /\ Distinct(r) /\ ToSet(r) = ToSet(q) \ {m}
<1> DEFINE r == RemoveFirst(q, m)
<1>1. CASE ~\E i \in 1 .. Len(q) : q[i] = m
  <2>1. r = q
    BY <1>1 DEF RemoveFirst
  <2>2. m \notin ToSet(q)
    BY <1>1 DEF ToSet
  <2>3. QED BY <2>1, <2>2
<1>2. CASE \E i \in 1 .. Len(q) : q[i] = m
  <2>1. PICK k \in 1 .. Len(q) : q[k] = m
    BY <1>2
  <2>2. {i \in 1 .. Len(q) : q[i] = m} = {k}
    BY <2>1 DEF Distinct
  <2>3. SelectInSeq(q, LAMBDA v : v = m) = k
    BY <2>2 DEF SelectInSeq, Min
  <2>4. r = SubSeq(q, 1, k-1) \o SubSeq(q, k+1, Len(q))
    BY <1>2, <2>3 DEF RemoveFirst, RemoveAt
  <2> DEFINE a == SubSeq(q, 1, k-1)
             b == SubSeq(q, k+1, Len(q))
  <2>5. /\ a \in Seq(Message) /\ b \in Seq(Message) /\ Len(a) = k - 1 /\ Len(b) = Len(q) - k
        /\ \A i \in 1 .. k-1 : a[i] = q[i]
        /\ \A i \in 1 .. Len(q) - k : b[i] = q[k+i]
    OBVIOUS
  <2> HIDE DEF a, b
  <2>6. /\ r \in Seq(Message) /\ Len(r) = Len(q) - 1 /\ k \in Nat /\ Len(q) \in Nat
        /\ \A i \in 1 .. k-1 : r[i] = q[i]
        /\ \A i \in k .. Len(q) - 1 : r[i] = q[i+1]
    <3>0. r = a \o b /\ k \in Nat /\ k >= 1 /\ k <= Len(q) /\ Len(q) \in Nat
      BY <2>1, <2>4 DEF a, b
    <3>1. r \in Seq(Message) /\ Len(r) = Len(q) - 1 /\ k \in Nat /\ Len(q) \in Nat
      <4> HIDE DEF r
      <4>1. r \in Seq(Message) /\ Len(r) = Len(a) + Len(b)
        BY <2>5, <3>0, Joined
      <4>2. QED BY <2>5, <3>0, <4>1
    <3>2. \A i \in 1 .. k-1 : r[i] = q[i]
      <4> HIDE DEF r
      <4>1. \A i \in 1 .. k-1 : r[i] = a[i]
        BY <2>5, <3>0
      <4>2. QED BY <2>5, <4>1
    <3>3. ASSUME NEW i \in k .. Len(q) - 1 PROVE r[i] = q[i+1]
      <4>1. i - (k-1) \in 1 .. Len(b) /\ i > Len(a) /\ i <= Len(a) + Len(b) /\ k + (i - (k-1)) = i + 1
        BY <2>1, <2>5
      <4>2. r = a \o b
        BY <2>4 DEF a, b
      <4>3. r[i] = b[i - (k-1)]
        <5>1. a \in Seq(Message) /\ b \in Seq(Message) /\ Len(a) = k - 1
          BY <2>5
        <5>2. \A n \in 1 .. Len(a) + Len(b) : n > Len(a) => (a \o b)[n] = b[n - Len(a)]
          BY <5>1, Joined
        <5> HIDE DEF r
        <5>3. i \in 1 .. Len(a) + Len(b)
          BY <2>5, <3>0, <4>1, <5>1
        <5>4. QED BY <4>1, <4>2, <5>1, <5>2, <5>3
      <4>4. b[i - (k-1)] = q[k + (i - (k-1))]
        BY <2>5, <4>1
      <4>5. QED BY <4>1, <4>3, <4>4
    <3>4. QED BY <3>1, <3>2, <3>3
  <2> HIDE DEF r
  <2>7. \A i \in 1 .. Len(r) : \E n \in 1 .. Len(q) : n # k /\ r[i] = q[n] /\ n = IF i < k THEN i ELSE i+1
    BY <2>6
  <2>8. Distinct(r)
    <3> SUFFICES ASSUME NEW i \in 1 .. Len(r), NEW j \in 1 .. Len(r), r[i] = r[j] PROVE i = j
      BY DEF Distinct
    <3>1. PICK n \in 1 .. Len(q) : r[i] = q[n] /\ n = IF i < k THEN i ELSE i+1
      BY <2>7
    <3>2. PICK p \in 1 .. Len(q) : r[j] = q[p] /\ p = IF j < k THEN j ELSE j+1
      BY <2>7
    <3>3. n = p
      <4>1. q[n] = q[p]
        BY <3>1, <3>2
      <4>2. QED BY <4>1 DEF Distinct
    <3>4. QED BY <2>6, <3>1, <3>2, <3>3
  <2>9. ToSet(r) \subseteq ToSet(q) \ {m}
    <3> SUFFICES ASSUME NEW i \in 1 .. Len(r) PROVE r[i] \in ToSet(q) /\ r[i] # m
      BY DEF ToSet
    <3>1. PICK n \in 1 .. Len(q) : n # k /\ r[i] = q[n]
      BY <2>7
    <3>2. QED BY <2>1, <3>1 DEF Distinct, ToSet
  <2>10. ASSUME NEW x \in ToSet(q), x # m PROVE x \in ToSet(r)
    <3>0. \A j \in 1 .. Len(r) : r[j] \in ToSet(r)
      BY <2>6 DEF ToSet
    <3>1. PICK i \in 1 .. Len(q) : q[i] = x
      BY DEF ToSet
    <3>2. i < k \/ i > k
      BY <2>1, <2>10, <3>1
    <3>3. CASE i < k
      <4>1. i \in 1 .. Len(r) /\ r[i] = x
        BY <2>1, <2>6, <3>1, <3>3
      <4>2. QED BY <3>0, <4>1
    <3>4. CASE i > k
      <4>1. i - 1 \in 1 .. Len(r) /\ i - 1 \in k .. Len(q) - 1 /\ (i - 1) + 1 = i
        BY <2>1, <2>6, <3>1, <3>4
      <4>2. r[i-1] = x
        BY <2>6, <3>1, <4>1
      <4>3. QED BY <3>0, <4>1, <4>2
    <3>5. QED BY <3>2, <3>3, <3>4
  <2>11. QED BY <2>6, <2>8, <2>9, <2>10 DEF r
<1>3. QED BY <1>1, <1>2

\* Two queues that share no message.
LEMMA QueuesJoined ==
  ASSUME NEW q \in Seq(Message), NEW r \in Seq(Message), Distinct(q), Distinct(r), ToSet(q) \cap ToSet(r) = {}
  PROVE  q \o r \in Seq(Message) /\ Distinct(q \o r) /\ ToSet(q \o r) = ToSet(q) \cup ToSet(r)
<1>1. /\ Len(q) \in Nat /\ Len(r) \in Nat /\ Len(q \o r) = Len(q) + Len(r) /\ q \o r \in Seq(Message)
      /\ \A i \in 1 .. Len(q) : (q \o r)[i] = q[i]
      /\ \A i \in 1 .. Len(r) : (q \o r)[Len(q) + i] = r[i] /\ Len(q) + i \in 1 .. Len(q \o r)
      /\ \A i \in 1 .. Len(q \o r) : i > Len(q) => i - Len(q) \in 1 .. Len(r) /\ (q \o r)[i] = r[i - Len(q)]
  OBVIOUS
<1> DEFINE p == q \o r
<1> HIDE DEF p
<1>2. ToSet(p) = ToSet(q) \cup ToSet(r)
  <2>1. \A i \in 1 .. Len(p) : p[i] \in ToSet(q) \cup ToSet(r)
    <3> SUFFICES ASSUME NEW i \in 1 .. Len(p) PROVE p[i] \in ToSet(q) \cup ToSet(r)
      OBVIOUS
    <3>1. CASE i > Len(q)
      BY <1>1, <3>1 DEF p, ToSet
    <3>2. CASE ~(i > Len(q))
      <4>1. i \in 1 .. Len(q) /\ p[i] = q[i]
        BY <1>1, <3>2 DEF p
      <4>2. QED BY <4>1 DEF ToSet
    <3>3. QED BY <3>1, <3>2
  <2>2. \A i \in 1 .. Len(q) : i \in 1 .. Len(p) /\ p[i] = q[i]
    BY <1>1 DEF p
  <2>3. \A i \in 1 .. Len(r) : Len(q) + i \in 1 .. Len(p) /\ p[Len(q) + i] = r[i]
    BY <1>1 DEF p
  <2>4. ToSet(q) \subseteq ToSet(p) /\ ToSet(r) \subseteq ToSet(p)
    <3>1. p \in Seq(Message)
      BY <1>1 DEF p
    <3>2. \A i \in 1 .. Len(p) : p[i] \in ToSet(p)
      BY <3>1 DEF ToSet
    <3>3. \A i \in 1 .. Len(q) : q[i] \in ToSet(p)
      BY <2>2, <3>2
    <3>4. \A i \in 1 .. Len(r) : r[i] \in ToSet(p)
      BY <2>3, <3>2
    <3>5. QED BY <3>3, <3>4 DEF ToSet
  <2>5. ToSet(p) \subseteq ToSet(q) \cup ToSet(r)
    BY <1>1, <2>1 DEF ToSet, p
  <2>6. QED BY <2>4, <2>5
<1>3. ASSUME NEW i \in 1 .. Len(p), NEW j \in 1 .. Len(p), p[i] = p[j] PROVE i = j
  <2>0. /\ i \in Int /\ j \in Int
        /\ \A k \in {i, j} : k > Len(q) => k - Len(q) \in 1 .. Len(r) /\ p[k] = r[k - Len(q)]
        /\ \A k \in {i, j} : ~(k > Len(q)) => k \in 1 .. Len(q) /\ p[k] = q[k]
    BY <1>1 DEF p
  <2>1. CASE ~(i > Len(q)) /\ ~(j > Len(q))
    BY <1>3, <2>0, <2>1 DEF Distinct
  <2>2. CASE i > Len(q) /\ j > Len(q)
    <3>1. i - Len(q) = j - Len(q)
      BY <1>3, <2>0, <2>2 DEF Distinct
    <3>2. QED BY <1>1, <2>0, <3>1
  <2>3. CASE ~(i > Len(q)) /\ j > Len(q)
    <3>1. p[i] \in ToSet(q) /\ p[j] \in ToSet(r)
      BY <2>0, <2>3 DEF ToSet
    <3>2. QED BY <1>3, <3>1
  <2>4. CASE i > Len(q) /\ ~(j > Len(q))
    <3>1. p[j] \in ToSet(q) /\ p[i] \in ToSet(r)
      BY <2>0, <2>4 DEF ToSet
    <3>2. QED BY <1>3, <3>1
  <2>5. QED BY <2>1, <2>2, <2>3, <2>4
<1>4. QED BY <1>1, <1>2, <1>3 DEF Distinct, p

------------------------------------------------------------------------------
(* What the steps that send do to the queue, the socket and the records. *)

\* What the posts among the frames q are, and how a frame adds to them.
LEMMA PostsAre ==
  ASSUME NEW q \in Seq(UpFrame)
  PROVE  /\ Posts(q) \subseteq Message
         /\ \A m : m \in Posts(q) <=> \E i \in 1 .. Len(q) : q[i] = Post(m) /\ m \in Message
         /\ \A f \in UpFrame : \/ Posts(Append(q, f)) = Posts(q) /\ \A m \in Message : f # Post(m)
                               \/ \E m \in Message : f = Post(m) /\ Posts(Append(q, f)) = Posts(q) \cup {m}
<1>1. \A f \in UpFrame : /\ IsPost(f) => f.m \in Message /\ f = Post(f.m)
                         /\ \A m \in Message : f = Post(m) => IsPost(f) /\ f.m = m
  BY DEF UpFrame, Request, Sync, IsPost, Post, Fetch
<1>2. \A i \in 1 .. Len(q) : q[i] \in UpFrame
  OBVIOUS
<1>3. \A m : m \in Posts(q) <=> \E i \in 1 .. Len(q) : IsPost(q[i]) /\ q[i].m = m
  BY DEF Posts
<1>4. \A m : m \in Posts(q) <=> \E i \in 1 .. Len(q) : q[i] = Post(m) /\ m \in Message
  BY <1>1, <1>2, <1>3
<1>5. ASSUME NEW f \in UpFrame
      PROVE  \/ Posts(Append(q, f)) = Posts(q) /\ \A m \in Message : f # Post(m)
             \/ \E m \in Message : f = Post(m) /\ Posts(Append(q, f)) = Posts(q) \cup {m}
  <2> DEFINE r == Append(q, f)
  <2>1. /\ Len(r) = Len(q) + 1 /\ Len(q) \in Nat /\ r[Len(q) + 1] = f
        /\ \A i \in 1 .. Len(q) : r[i] = q[i]
        /\ \A i \in 1 .. Len(r) : i \in 1 .. Len(q) \/ i = Len(q) + 1
        /\ r \in Seq(UpFrame)
    OBVIOUS
  <2> HIDE DEF r
  <2>2. \A m : m \in Posts(r) <=> \E i \in 1 .. Len(r) : IsPost(r[i]) /\ r[i].m = m
    BY <2>1 DEF Posts
  <2>3. \A m : m \in Posts(r) <=> m \in Posts(q) \/ (IsPost(f) /\ f.m = m)
    BY <1>3, <2>1, <2>2
  <2>4. CASE IsPost(f)
    <3>1. f.m \in Message /\ f = Post(f.m)
      BY <1>1, <2>4
    <3>2. Posts(r) = Posts(q) \cup {f.m}
      BY <2>3, <2>4
    <3>3. QED BY <3>1, <3>2 DEF r
  <2>5. CASE ~IsPost(f)
    <3>1. Posts(r) = Posts(q)
      BY <2>3, <2>5
    <3>2. QED BY <1>1, <2>5, <3>1 DEF r
  <2>6. QED BY <2>4, <2>5
<1>6. QED BY <1>4, <1>5

\* Reading a frame takes its own post and no other.
LEMMA PostsOfTail ==
  ASSUME NEW q \in Seq(UpFrame), q # <<>>
  PROVE  /\ Tail(q) \in Seq(UpFrame) /\ Head(q) \in UpFrame
         /\ Posts(Tail(q)) \subseteq Posts(q)
         /\ \A m \in Posts(q) : Head(q) = Post(m) \/ m \in Posts(Tail(q))
<1>1. /\ Tail(q) \in Seq(UpFrame) /\ Head(q) \in UpFrame /\ Head(q) = q[1] /\ Len(Tail(q)) = Len(q) - 1 /\ Len(q) \in Nat
      /\ \A i \in 1 .. Len(Tail(q)) : Tail(q)[i] = q[i+1] /\ i+1 \in 1 .. Len(q)
      /\ \A i \in 2 .. Len(q) : q[i] = Tail(q)[i-1] /\ i-1 \in 1 .. Len(Tail(q))
  OBVIOUS
<1>2. Posts(Tail(q)) \subseteq Posts(q)
  <2> SUFFICES ASSUME NEW m \in Posts(Tail(q)) PROVE m \in Posts(q)
    OBVIOUS
  <2>1. PICK i \in 1 .. Len(Tail(q)) : Tail(q)[i] = Post(m) /\ m \in Message
    BY <1>1, PostsAre
  <2>2. i+1 \in 1 .. Len(q) /\ q[i+1] = Post(m)
    BY <1>1, <2>1
  <2>3. QED BY <2>1, <2>2, PostsAre
<1>3. ASSUME NEW m \in Posts(q) PROVE Head(q) = Post(m) \/ m \in Posts(Tail(q))
  <2>1. PICK i \in 1 .. Len(q) : q[i] = Post(m) /\ m \in Message
    BY PostsAre
  <2>2. CASE i = 1
    BY <1>1, <2>1, <2>2
  <2>3. CASE i # 1
    <3>1. i - 1 \in 1 .. Len(Tail(q)) /\ Tail(q)[i-1] = Post(m)
      BY <1>1, <2>1, <2>3
    <3>2. QED BY <1>1, <2>1, <3>1, PostsAre
  <2>4. QED BY <2>2, <2>3
<1>4. QED BY <1>1, <1>2, <1>3

\* A frame that is no post.
LEMMA NoPost ==
  ASSUME NEW q \in Seq(UpFrame), NEW f \in UpFrame, \A m \in Message : f # Post(m)
  PROVE  /\ Append(q, f) \in Seq(UpFrame) /\ Posts(Append(q, f)) = Posts(q)
         /\ \A m \in Message : Copies(Append(q, f), m) = Copies(q, m)
<1>1. Posts(Append(q, f)) = Posts(q)
  BY PostsAre
<1>2. ASSUME NEW m \in Message PROVE Copies(Append(q, f), m) = Copies(q, m)
  BY CopiesAre
<1>3. QED BY <1>1, <1>2

\* The other frames are no posts.
LEMMA OtherFrames ==
  /\ [kind |-> "auth"] \in UpFrame /\ \A cold \in BOOLEAN : Sync(cold) \in UpFrame
  /\ \A c \in Channel \cup {None}, who \in {"selectChannel", "selectWorkspace"} : Fetch(c, who) \in UpFrame
  /\ \A m \in Message : /\ Post(m) \in UpFrame /\ [kind |-> "auth"] # Post(m)
                        /\ \A cold : Sync(cold) # Post(m)
                        /\ \A c, who : Fetch(c, who) # Post(m)
<1>1. \A m \in Message : Post(m).kind = "post"
  BY DEF Post
<1>2. \A c, who : Fetch(c, who).kind = "fetch"
  BY DEF Fetch
<1>3. [kind |-> "auth"].kind = "auth" /\ \A cold : Sync(cold).kind = "sync"
  BY DEF Sync
<1>4. \A m \in Message : /\ [kind |-> "auth"] # Post(m) /\ \A cold : Sync(cold) # Post(m)
                         /\ \A c, who : Fetch(c, who) # Post(m)
  BY <1>1, <1>2, <1>3
<1>5. QED BY <1>4 DEF UpFrame, Request

\* Asking for a channel's page posts nothing.
LEMMA Asked ==
  ASSUME PageTyped, NEW u \in Seq(UpFrame), NEW b \in BOOLEAN
  PROVE  /\ Ask(u, b) \in Seq(UpFrame) /\ Posts(Ask(u, b)) = Posts(u)
         /\ \A m \in Message : Copies(Ask(u, b), m) = Copies(u, m)
<1>1. CASE ~b
  BY <1>1 DEF Ask
<1>2. CASE b
  <2> DEFINE f == Fetch(active, "selectChannel")
  <2>1. f \in UpFrame /\ \A m \in Message : f # Post(m)
    BY OtherFrames DEF PageTyped
  <2> HIDE DEF f
  <2>2. Append(u, f) \in Seq(UpFrame) /\ Posts(Append(u, f)) = Posts(u) /\ \A m \in Message : Copies(Append(u, f), m) = Copies(u, m)
    BY <2>1, NoPost
  <2>3. Ask(u, b) = Append(u, f)
    BY <1>2 DEF Ask, f
  <2>4. QED BY <2>2, <2>3
<1>3. QED BY <1>1, <1>2

\* dispatchSend hands the message to the socket or queues it.
Dispatched(m) ==
  /\ watch' = watch \cup {m}
  /\ \/ /\ up' = Append(up, Post(m)) /\ UNCHANGED <<queue, ops>>
     \/ /\ ops' = Append(ops, Do("put", m)) /\ UNCHANGED up
        /\ queue' \in Seq(Message) /\ Distinct(queue') /\ ToSet(queue') = ToSet(queue) \cup {m}

\* What dispatching a message does to queue, wire and records.
LEMMA DispatchIs == ASSUME Typed, NEW m \in Message, Dispatch(m) PROVE Dispatched(m)
<1>1. CASE sock = "authed"
  BY <1>1 DEF Dispatch, Dispatched
<1>2. CASE sock # "authed"
  <2>1. Enqueue(m) /\ UNCHANGED up /\ watch' = watch \cup {m} /\ queue \in Seq(Message) /\ Distinct(queue)
    BY <1>2 DEF Dispatch, Typed, QueueTyped
  <2>2. CASE Contains(queue, m)
    <3>1. queue' = queue /\ ToSet(queue) = ToSet(queue) \cup {m}
      BY <2>1, <2>2 DEF Enqueue, Contains, ToSet
    <3>2. QED BY <2>1, <3>1 DEF Enqueue, Dispatched
  <2>3. CASE ~Contains(queue, m)
    <3>1. m \notin ToSet(queue)
      BY <2>1, <2>3 DEF Contains, ToSet
    <3>2. <<m>> \in Seq(Message) /\ Distinct(<<m>>) /\ ToSet(<<m>>) = {m}
      BY DEF Distinct, ToSet
    <3>3. queue' = queue \o <<m>>
      BY <2>1, <2>3 DEF Enqueue
    <3>4. ToSet(queue) \cap ToSet(<<m>>) = {}
      BY <3>1, <3>2
    <3>5. queue' \in Seq(Message) /\ Distinct(queue') /\ ToSet(queue') = ToSet(queue) \cup {m}
      BY <2>1, <3>2, <3>3, <3>4, QueuesJoined
    <3>6. QED BY <2>1, <3>5 DEF Enqueue, Dispatched
  <2>4. QED BY <2>2, <2>3
<1>3. QED BY <1>1, <1>2

\* flushSendOutbox: the queue q stays, or every message of it is posted and its
\* record deleted; e are the transactions that begin.
HandsOver(q, e) ==
  \/ /\ queue' = q /\ Posts(up') = Posts(up) /\ \A m \in Message : Copies(up', m) = Copies(up, m)
     /\ \A i \in DOMAIN e : e[i] = Do("read", 0)
  \/ /\ queue' = <<>> /\ Posts(up') = Posts(up) \cup ToSet(q)
     /\ \A m \in Message : Copies(up', m) = Copies(up, m) + (IF m \in ToSet(q) THEN 1 ELSE 0)
     /\ \A i \in DOMAIN e : e[i] = Do("read", 0) \/ \E m \in ToSet(q) : e[i] = Do("delete", m)
     /\ \A m \in ToSet(q) : \E i \in DOMAIN e : e[i] = Do("delete", m)

\* What handing over the queue q does: one post and one deletion for each message.
LEMMA HandedOverIs ==
  ASSUME NEW u \in Seq(UpFrame), NEW q \in Seq(Message), Distinct(q)
  PROVE  LET h == HandedOver(q)
         IN  /\ h.queue = <<>> /\ h.ops \in Seq(Transaction)
             /\ u \o h.up \in Seq(UpFrame) /\ Posts(u \o h.up) = Posts(u) \cup ToSet(q)
             /\ \A m \in Message : Copies(u \o h.up, m) = Copies(u, m) + (IF m \in ToSet(q) THEN 1 ELSE 0)
             /\ \A i \in DOMAIN h.ops : \E m \in ToSet(q) : h.ops[i] = Do("delete", m)
             /\ \A m \in ToSet(q) : \E i \in DOMAIN h.ops : h.ops[i] = Do("delete", m)
<1> DEFINE p == [i \in DOMAIN q |-> Post(q[i])]
           d == [i \in DOMAIN q |-> Do("delete", q[i])]
           h == HandedOver(q)
<1>1. h.queue = <<>> /\ h.up = p /\ h.ops = d
  BY DEF HandedOver
<1>2. /\ p \in Seq(UpFrame) /\ Len(p) = Len(q) /\ \A i \in 1 .. Len(q) : p[i] = Post(q[i]) /\ q[i] \in Message
  BY DEF UpFrame
<1>3. /\ d \in Seq(Transaction) /\ Len(d) = Len(q) /\ \A i \in 1 .. Len(q) : d[i] = Do("delete", q[i])
  BY DEF Transaction
<1>4. \A m \in Message : Copies(u \o p, m) = Copies(u, m) + (IF m \in ToSet(q) THEN 1 ELSE 0)
  BY CopiesOfAll
<1> HIDE DEF p, d, h
<1>5. \A a, b \in Message : Post(a) = Post(b) => a = b
  BY DEF Post
<1>6. /\ u \o p \in Seq(UpFrame) /\ Len(u \o p) = Len(u) + Len(q) /\ Len(u) \in Nat /\ Len(q) \in Nat
      /\ \A i \in 1 .. Len(u) : (u \o p)[i] = u[i]
      /\ \A i \in 1 .. Len(q) : (u \o p)[Len(u) + i] = Post(q[i]) /\ Len(u) + i \in 1 .. Len(u \o p)
      /\ \A i \in 1 .. Len(u \o p) : i > Len(u) => i - Len(u) \in 1 .. Len(q) /\ (u \o p)[i] = Post(q[i - Len(u)])
  <2> DEFINE j == u \o p
  <2>0. p \in Seq(UpFrame)
    BY <1>2
  <2>1. /\ j \in Seq(UpFrame) /\ Len(j) = Len(u) + Len(p) /\ Len(u) \in Nat /\ Len(p) \in Nat
        /\ \A i \in 1 .. Len(u) : j[i] = u[i]
        /\ \A i \in 1 .. Len(p) : j[Len(u) + i] = p[i]
        /\ \A i \in 1 .. Len(u) + Len(p) : i > Len(u) => i - Len(u) \in 1 .. Len(p) /\ j[i] = p[i - Len(u)]
    BY <2>0, Joined
  <2> HIDE DEF j
  <2>2. \A i \in 1 .. Len(q) : j[Len(u) + i] = Post(q[i]) /\ Len(u) + i \in 1 .. Len(j)
    BY <1>2, <2>1
  <2>3. \A i \in 1 .. Len(j) : i > Len(u) => i - Len(u) \in 1 .. Len(q) /\ j[i] = Post(q[i - Len(u)])
    BY <1>2, <2>1
  <2>4. QED BY <1>2, <2>1, <2>2, <2>3 DEF j
<1>7. Posts(u \o p) = Posts(u) \cup ToSet(q)
  <2>1. ASSUME NEW m \in Posts(u \o p) PROVE m \in Posts(u) \cup ToSet(q)
    <3>1. PICK i \in 1 .. Len(u \o p) : (u \o p)[i] = Post(m) /\ m \in Message
      BY <1>6, PostsAre
    <3>2. CASE i > Len(u)
      <4>1. i - Len(u) \in 1 .. Len(q) /\ q[i - Len(u)] = m
        BY <1>2, <1>5, <1>6, <3>1, <3>2
      <4>2. QED BY <4>1 DEF ToSet
    <3>3. CASE ~(i > Len(u))
      <4>1. i \in 1 .. Len(u) /\ u[i] = Post(m)
        BY <1>6, <3>1, <3>3
      <4>2. QED BY <3>1, <4>1, PostsAre
    <3>4. QED BY <3>2, <3>3
  <2>2. ASSUME NEW m \in Posts(u) PROVE m \in Posts(u \o p)
    <3>1. PICK i \in 1 .. Len(u) : u[i] = Post(m) /\ m \in Message
      BY PostsAre
    <3>2. i \in 1 .. Len(u \o p) /\ (u \o p)[i] = Post(m)
      BY <1>6, <3>1
    <3>3. QED BY <1>6, <3>1, <3>2, PostsAre
  <2>3. ASSUME NEW m \in ToSet(q) PROVE m \in Posts(u \o p)
    <3>1. PICK i \in 1 .. Len(q) : q[i] = m
      BY DEF ToSet
    <3>2. Len(u) + i \in 1 .. Len(u \o p) /\ (u \o p)[Len(u) + i] = Post(m) /\ m \in Message
      BY <1>2, <1>6, <3>1
    <3>3. QED BY <1>6, <3>2, PostsAre
  <2>4. QED BY <2>1, <2>2, <2>3
<1>8. \A i \in DOMAIN d : \E m \in ToSet(q) : d[i] = Do("delete", m)
  BY <1>3 DEF ToSet
<1>9. \A m \in ToSet(q) : \E i \in DOMAIN d : d[i] = Do("delete", m)
  BY <1>3 DEF ToSet
<1>10. QED BY <1>1, <1>3, <1>4, <1>6, <1>7, <1>8, <1>9 DEF h

\* What authenticating does: the queue is handed over, and in a page that has just
\* begun the records are read.
WelcomedBy(e) ==
  /\ e \in Seq(Transaction) /\ ops' = ops \o e /\ HandsOver(queue, e)
  /\ IF restoring THEN /\ Len(e) > 0 /\ e[Len(e)] = Do("read", 0)
                       /\ \A i \in 1 .. Len(e) - 1 : e[i] # Do("read", 0)
                  ELSE \A i \in DOMAIN e : e[i] # Do("read", 0)

\* The transactions are different ones.
LEMMA NotRead == \A m \in Message : /\ Do("delete", m) # Do("read", 0) /\ Do("put", m) # Do("read", 0)
                                    /\ Do("clear", 0) # Do("read", 0) /\ Do("delete", m) # Do("clear", 0)
                                    /\ \A n : Do("put", m) # Do("delete", n) /\ Do("read", 0) # Do("put", n)
                                              /\ Do("clear", 0) # Do("put", n) /\ Do("read", 0) # Do("delete", n)
<1>1. \A what, m : Do(what, m).op = what
  BY DEF Do
<1>2. QED BY <1>1

\* What a welcome does to queue, wire and records.
LEMMA WelcomedIs == ASSUME Typed, Welcomed PROVE up' \in Seq(UpFrame) /\ \E e : WelcomedBy(e)
<1>0. PICK cold \in {FALSE, blank} : up' = Ask(up \o Flush(queue).up \o (IF restoring THEN <<>> ELSE <<Sync(cold)>>), parked)
  BY DEF Welcomed
<1> DEFINE flush == Flush(queue)
           u1 == up \o flush.up
           u2 == u1 \o (IF restoring THEN <<>> ELSE <<Sync(cold)>>)
           r == IF restoring THEN <<Do("read", 0)>> ELSE <<>>
           e == flush.ops \o r
<1>1. /\ queue \in Seq(Message) /\ Distinct(queue) /\ up \in Seq(UpFrame) /\ ops \in Seq(Transaction)
      /\ parked \in BOOLEAN /\ restoring \in BOOLEAN /\ cold \in BOOLEAN /\ PageTyped
  BY <1>0 DEF Typed, QueueTyped, WireTyped, StoreTyped, PageTyped
<1>2. /\ u1 \in Seq(UpFrame) /\ flush.ops \in Seq(Transaction)
      /\ \/ /\ flush.queue = queue /\ Posts(u1) = Posts(up) /\ flush.ops = <<>>
            /\ \A m \in Message : Copies(u1, m) = Copies(up, m)
         \/ /\ flush.queue = <<>> /\ Posts(u1) = Posts(up) \cup ToSet(queue)
            /\ \A m \in Message : Copies(u1, m) = Copies(up, m) + (IF m \in ToSet(queue) THEN 1 ELSE 0)
            /\ \A i \in DOMAIN flush.ops : \E m \in ToSet(queue) : flush.ops[i] = Do("delete", m)
            /\ \A m \in ToSet(queue) : \E i \in DOMAIN flush.ops : flush.ops[i] = Do("delete", m)
  <2>1. CASE sock = "closed"
    <3>1. flush.queue = queue /\ flush.up = <<>> /\ flush.ops = <<>>
      BY <2>1 DEF Flush, Kept
    <3>2. u1 = up
      BY <1>1, <3>1
    <3>3. QED BY <1>1, <3>1, <3>2
  <2>2. CASE sock # "closed"
    <3>1. flush = HandedOver(queue)
      BY <2>2 DEF Flush
    <3>2. QED BY <1>1, <3>1, HandedOverIs
  <2>3. QED BY <2>1, <2>2
<1>3. /\ queue' = flush.queue /\ ops' = (ops \o flush.ops) \o r /\ up' = Ask(u2, parked)
  BY <1>0 DEF Welcomed
<1> HIDE DEF flush, u1
<1>4. u2 \in Seq(UpFrame) /\ Posts(u2) = Posts(u1) /\ \A m \in Message : Copies(u2, m) = Copies(u1, m)
  <2>1. CASE restoring
    <3>1. u2 = u1
      BY <1>2, <2>1
    <3> HIDE DEF u2
    <3>2. QED BY <1>2, <3>1
  <2>2. CASE ~restoring
    <3>1. u2 = Append(u1, Sync(cold))
      BY <1>2, <2>2
    <3> HIDE DEF u2
    <3>2. Sync(cold) \in UpFrame /\ \A m \in Message : Sync(cold) # Post(m)
      BY <1>1, OtherFrames
    <3>3. QED BY <1>2, <3>1, <3>2, NoPost
  <2>3. QED BY <2>1, <2>2
<1> HIDE DEF u2
<1>5. up' \in Seq(UpFrame) /\ Posts(up') = Posts(u1) /\ \A m \in Message : Copies(up', m) = Copies(u1, m)
  BY <1>1, <1>3, <1>4, Asked
<1>6. /\ r \in Seq(Transaction) /\ Len(r) = IF restoring THEN 1 ELSE 0
      /\ restoring => r[1] = Do("read", 0)
  <2>1. Do("read", 0) \in Transaction
    BY DEF Transaction
  <2>2. QED BY <1>1, <2>1
<1> HIDE DEF r
<1>7. /\ e \in Seq(Transaction) /\ Len(e) = Len(flush.ops) + Len(r) /\ Len(flush.ops) \in Nat
      /\ \A i \in 1 .. Len(flush.ops) : e[i] = flush.ops[i]
      /\ restoring => Len(e) = Len(flush.ops) + 1 /\ e[Len(e)] = Do("read", 0)
      /\ ~restoring => Len(e) = Len(flush.ops)
      /\ ops' = ops \o e
  <2>0. r \in Seq(Transaction) /\ ops \in Seq(Transaction)
    BY <1>1, <1>6
  <2> DEFINE d == flush.ops
  <2>1. d \in Seq(Transaction)
    BY <1>2
  <2> HIDE DEF d
  <2>2. /\ e \in Seq(Transaction) /\ Len(e) = Len(flush.ops) + Len(r)
        /\ \A i \in 1 .. Len(flush.ops) : e[i] = flush.ops[i]
        /\ \A i \in 1 .. Len(r) : e[Len(flush.ops) + i] = r[i]
    <3>1. d \o r \in Seq(Transaction) /\ Len(d \o r) = Len(d) + Len(r)
      BY <2>0, <2>1
    <3>2. /\ \A i \in 1 .. Len(d) : (d \o r)[i] = d[i]
          /\ \A i \in 1 .. Len(r) : (d \o r)[Len(d) + i] = r[i]
      BY <2>0, <2>1
    <3>3. QED BY <3>1, <3>2 DEF d
  <2>3. ops' = ops \o e
    <3>1. (ops \o d) \o r = ops \o (d \o r)
      BY <2>0, <2>1, Regrouped
    <3>2. QED BY <1>3, <3>1 DEF d
  <2> HIDE DEF e
  <2>4. Len(flush.ops) \in Nat
    BY <2>1 DEF d
  <2>5. restoring => Len(e) = Len(flush.ops) + 1 /\ e[Len(e)] = Do("read", 0)
    BY <1>6, <2>2, <2>4
  <2>6. ~restoring => Len(e) = Len(flush.ops)
    BY <1>6, <2>2, <2>4
  <2>7. QED BY <2>2, <2>3, <2>4, <2>5, <2>6
<1> HIDE DEF e
<1>8. \A i \in DOMAIN e : i \in DOMAIN flush.ops \/ (restoring /\ e[i] = Do("read", 0) /\ i = Len(e))
  BY <1>1, <1>2, <1>7
<1>9. \A i \in DOMAIN flush.ops : i \in DOMAIN e /\ e[i] = flush.ops[i]
  <2>1. DOMAIN e = 1 .. Len(e) /\ DOMAIN flush.ops = 1 .. Len(flush.ops) /\ Len(flush.ops) <= Len(e)
    BY <1>2, <1>7
  <2>2. QED BY <1>7, <2>1
<1>10. \A i \in DOMAIN flush.ops : \E m \in ToSet(queue) : flush.ops[i] = Do("delete", m) /\ m \in Message
  <2>1. ToSet(queue) \subseteq Message
    BY <1>1 DEF ToSet
  <2>2. QED BY <1>2, <2>1
<1>11. HandsOver(queue, e)
  BY <1>2, <1>3, <1>5, <1>8, <1>9 DEF HandsOver
<1>12. IF restoring THEN /\ Len(e) > 0 /\ e[Len(e)] = Do("read", 0)
                         /\ \A i \in 1 .. Len(e) - 1 : e[i] # Do("read", 0)
                    ELSE \A i \in DOMAIN e : e[i] # Do("read", 0)
  <2>1. \A i \in DOMAIN flush.ops : e[i] # Do("read", 0)
    BY <1>9, <1>10, NotRead
  <2>2. CASE restoring
    <3>1. \A i \in 1 .. Len(e) - 1 : i \in DOMAIN flush.ops
      BY <1>2, <1>7, <2>2
    <3>2. QED BY <1>7, <2>1, <2>2, <3>1
  <2>3. CASE ~restoring
    BY <1>8, <2>1, <2>3
  <2>4. QED BY <2>2, <2>3
<1>13. WelcomedBy(e)
  BY <1>7, <1>11, <1>12 DEF WelcomedBy
<1>14. QED BY <1>5, <1>13

\* What the end of a read does: what it found is queued as well, and handed over.
RehydratedBy(q, e) ==
  /\ q \in Seq(Message) /\ Distinct(q) /\ ToSet(q) = ToSet(queue) \cup stored
  /\ e \in Seq(Transaction) /\ ops' = Tail(ops) \o e /\ HandsOver(q, e)
  /\ \A i \in DOMAIN e : e[i] # Do("read", 0)

\* What reading the records back does to queue, wire and records.
LEMMA RehydrateIs ==
  ASSUME SendOutboxAssumption, Typed, Rehydrate, ops # <<>> PROVE up' \in Seq(UpFrame) /\ \E q, e : RehydratedBy(q, e)
<1> DEFINE f == OldestFirst(stored \ ToSet(queue))
           q == queue \o f
           flush == Flush(q)
<1>1. /\ queue \in Seq(Message) /\ Distinct(queue) /\ up \in Seq(UpFrame) /\ ops \in Seq(Transaction) /\ stored \subseteq Message
      /\ Tail(ops) \in Seq(Transaction)
  BY DEF Typed, QueueTyped, WireTyped, StoreTyped
<1>2. f \in Seq(Message) /\ ToSet(f) = stored \ ToSet(queue) /\ Distinct(f)
  BY <1>1, OldestFirstIs
<1> HIDE DEF f
<1>3. q \in Seq(Message) /\ Distinct(q) /\ ToSet(q) = ToSet(queue) \cup stored
  BY <1>1, <1>2, QueuesJoined
<1>4. queue' = flush.queue /\ up' = up \o flush.up /\ ops' = Tail(ops) \o flush.ops
  BY DEF Rehydrate, Rehydrated, f
<1> HIDE DEF q
<1>5. CASE sock = "closed"
  <2>1. flush.queue = q /\ flush.up = <<>> /\ flush.ops = <<>>
    BY <1>5 DEF Flush, Kept
  <2>2. up' = up /\ <<>> \in Seq(Transaction)
    BY <1>1, <1>4, <2>1
  <2>3. HandsOver(q, <<>>)
    BY <1>4, <2>1, <2>2 DEF HandsOver
  <2>4. RehydratedBy(q, <<>>)
    BY <1>3, <1>4, <2>1, <2>2, <2>3 DEF RehydratedBy
  <2>5. QED BY <1>1, <2>2, <2>4
<1>6. CASE sock # "closed"
  <2>1. flush = HandedOver(q)
    BY <1>6 DEF Flush
  <2> HIDE DEF flush
  <2>2. /\ flush.queue = <<>> /\ flush.ops \in Seq(Transaction)
        /\ up' \in Seq(UpFrame) /\ Posts(up') = Posts(up) \cup ToSet(q)
        /\ \A m \in Message : Copies(up', m) = Copies(up, m) + (IF m \in ToSet(q) THEN 1 ELSE 0)
        /\ \A i \in DOMAIN flush.ops : \E m \in ToSet(q) : flush.ops[i] = Do("delete", m)
        /\ \A m \in ToSet(q) : \E i \in DOMAIN flush.ops : flush.ops[i] = Do("delete", m)
    BY <1>1, <1>3, <1>4, <2>1, HandedOverIs
  <2>3. HandsOver(q, flush.ops)
    BY <1>4, <2>2 DEF HandsOver
  <2>4. ToSet(q) \subseteq Message
    BY <1>3 DEF ToSet
  <2>5. \A i \in DOMAIN flush.ops : flush.ops[i] # Do("read", 0)
    BY <2>2, <2>4, NotRead
  <2>6. RehydratedBy(q, flush.ops)
    BY <1>3, <1>4, <2>2, <2>3, <2>5 DEF RehydratedBy
  <2>7. QED BY <2>2, <2>6
<1>7. QED BY <1>5, <1>6

------------------------------------------------------------------------------
(* Types. *)

\* The relay answers with rows that were posted.
LEMMA HistoryRows == ASSUME HistoryTyped PROVE History \subseteq Row /\ \A r \in History : r[2] <= posted[r[1]]
<1>1. ASSUME NEW r \in History PROVE r \in Row /\ r[2] <= posted[r[1]]
  <2>1. PICK m \in Message : r \in {<<m, k>> : k \in 1 .. posted[m]}
    BY DEF History
  <2>2. PICK k \in 1 .. posted[m] : r = <<m, k>>
    BY <2>1
  <2>3. posted[m] \in Nat /\ k \in Nat \ {0}
    BY <2>2 DEF HistoryTyped
  <2>4. QED BY <2>2, <2>3 DEF Row
<1>2. QED BY <1>1

\* What the next frame down is.
LEMMA NextFrame ==
  ASSUME WireTyped, down # <<>>
  PROVE  Head(down) \in DownFrame /\ Tail(down) \in Seq(DownFrame)
BY DEF WireTyped

\* What the kinds of frames carry.
LEMMA FrameKinds ==
  ASSUME NEW f \in DownFrame
  PROVE  /\ f.kind = "echo" => f.row \in Row /\ f = Echo(f.row)
         /\ f.kind \in {"page", "delta", "snapshot"} => f.rows \in SUBSET Row
         /\ Rows(f) \subseteq Row
<1>1. f.kind = "echo" => f.row \in Row /\ f = Echo(f.row)
  BY DEF DownFrame, Echo
<1>2. f.kind \in {"page", "delta", "snapshot"} => f.rows \in SUBSET Row
  BY DEF DownFrame, Echo
<1>3. QED BY <1>1, <1>2 DEF Rows

\* Every action keeps the types: first what it does to bubbles and rows.
LEMMA StatusTyped ==
  ASSUME NEW f \in [Message -> Status]
  PROVE  /\ NoRows \in [Message -> Status]
         /\ \A m : Repending(f, m) \in [Message -> Status] /\ Failing(f, m) \in [Message -> Status]
         /\ \A m : [f EXCEPT ![m] = "pending"] \in [Message -> Status] /\ [f EXCEPT ![m] = None] \in [Message -> Status]
         /\ \A news : Collapse(f, news) \in [Message -> Status]
BY DEF NoRows, Repending, Failing, Collapse, Status

LEMMA AppendOp ==
  ASSUME StoreTyped
  PROVE  /\ \A m \in Message : Append(ops, Do("put", m)) \in Seq(Transaction)
                               /\ Append(ops, Do("delete", m)) \in Seq(Transaction)
         /\ Append(ops, Do("clear", 0)) \in Seq(Transaction)
<1>1. Do("clear", 0) \in Transaction /\ \A m \in Message : Do("put", m) \in Transaction /\ Do("delete", m) \in Transaction
  BY DEF Transaction
<1>2. QED BY <1>1 DEF StoreTyped

LEMMA DispatchTyped ==
  ASSUME Typed, NEW m \in Message, Dispatched(m)
  PROVE  QueueTyped' /\ up' \in Seq(UpFrame) /\ ops' \in Seq(Transaction) /\ watch' \subseteq Message
<1>1. Append(up, Post(m)) \in Seq(UpFrame)
  BY OtherFrames DEF Typed, WireTyped
<1>2. Append(ops, Do("put", m)) \in Seq(Transaction)
  BY AppendOp DEF Typed
<1>3. QED BY <1>1, <1>2 DEF Dispatched, Typed, PageTyped, QueueTyped, WireTyped, StoreTyped

LEMMA SendTyped == ASSUME Typed, Send PROVE Typed'
<1>1. PICK m \in Message : /\ home' = [home EXCEPT ![m] = active] /\ local' = [local EXCEPT ![m] = "pending"]
                           /\ Dispatch(m)
  BY DEF Send
<1>2. QueueTyped' /\ up' \in Seq(UpFrame) /\ ops' \in Seq(Transaction) /\ watch' \subseteq Message
  BY <1>1, DispatchIs, DispatchTyped
<1>3. local' \in [Message -> Status]
  BY <1>1, StatusTyped DEF Typed, PageTyped
<1>4. PageTyped'
  BY <1>2, <1>3 DEF Send, Typed, PageTyped
<1>5. HistoryTyped'
  BY <1>1 DEF Send, history, Typed, PageTyped, HistoryTyped
<1>6. QED BY <1>2, <1>4, <1>5 DEF Send, relay, Typed, WireTyped, RelayTyped, StoreTyped

LEMMA RetryTyped == ASSUME Typed, Retry PROVE Typed'
<1>1. PICK m \in Message : /\ local' = [local EXCEPT ![m] = "pending"] /\ bubbles' = Repending(bubbles, m)
                           /\ again' = [again EXCEPT ![m] = @ + 1] /\ Dispatch(m)
  BY DEF Retry
<1>2. QueueTyped' /\ up' \in Seq(UpFrame) /\ ops' \in Seq(Transaction) /\ watch' \subseteq Message
  BY <1>1, DispatchIs, DispatchTyped
<1>3. local' \in [Message -> Status] /\ bubbles' \in [Message -> Status]
  BY <1>1, StatusTyped DEF Typed, PageTyped
<1>4. PageTyped'
  BY <1>2, <1>3 DEF Retry, Typed, PageTyped
<1>5. HistoryTyped'
  BY <1>1 DEF Retry, Typed, HistoryTyped
<1>6. QED BY <1>2, <1>4, <1>5 DEF Retry, relay, Typed, WireTyped, RelayTyped, StoreTyped

LEMMA TimeoutTyped == ASSUME Typed, Timeout PROVE Typed'
<1>1. PICK m \in watch : watch' = watch \ {m} /\ local' = Failing(local, m) /\ bubbles' = Failing(bubbles, m)
  BY DEF Timeout
<1>2. local' \in [Message -> Status] /\ bubbles' \in [Message -> Status]
  BY <1>1, StatusTyped DEF Typed, PageTyped
<1>3. PageTyped'
  BY <1>1, <1>2 DEF Timeout, Typed, PageTyped
<1>4. QED BY <1>3 DEF Timeout, wire, relay, idb, history, Typed, QueueTyped, WireTyped, RelayTyped, StoreTyped, HistoryTyped

\* The channels a behaviour opens.
LEMMA OpenedChannels == ASSUME HistoryTyped PROVE may.channels \subseteq Channel
BY SendOutboxAssumption DEF SendOutboxAssumption, HistoryTyped

LEMMA SelectTyped == ASSUME Typed, Select \/ SelectWorkspace PROVE Typed'
<1>1. PICK c \in Channel : /\ Clear(c)
                           /\ \/ up' = Append(up, Fetch(c, "selectChannel")) /\ parked' = FALSE
                              \/ parked' = TRUE /\ UNCHANGED up
                              \/ up' = Append(up, Fetch(c, "selectWorkspace")) /\ UNCHANGED parked
  BY OpenedChannels DEF Select, SelectWorkspace, Typed
<1>2. up' \in Seq(UpFrame)
  BY <1>1, OtherFrames DEF Typed, WireTyped
<1>3. PageTyped'
  BY <1>1, StatusTyped DEF Clear, Typed, PageTyped
<1>4. QED BY <1>1, <1>2, <1>3 DEF Clear, relay, idb, history, Typed, QueueTyped, WireTyped, RelayTyped, StoreTyped, HistoryTyped

LEMMA OpenTyped == ASSUME Typed, Open \/ RelayKnows PROVE Typed'
<1>1. <<[kind |-> "auth"]>> \in Seq(UpFrame) /\ <<>> \in Seq(DownFrame)
  BY OtherFrames
<1>2. down \in Seq(DownFrame) => Append(down, [kind |-> "welcome"]) \in Seq(DownFrame)
  BY DEF DownFrame
<1>3. WireTyped'
  BY <1>1, <1>2 DEF Open, RelayKnows, Typed, WireTyped
<1>4. QED BY <1>3 DEF Open, RelayKnows, list, relay, idb, history, Typed, PageTyped, QueueTyped, RelayTyped, StoreTyped, HistoryTyped

LEMMA FetchedTyped == ASSUME Typed, down # <<>>, Head(down).kind = "page", Fetched(Head(down)) PROVE Typed'
<1> DEFINE f == Head(down)
<1>1. f.rows \in SUBSET Row /\ Tail(down) \in Seq(DownFrame)
  BY NextFrame, FrameKinds DEF Typed
<1>2. \A c : In(c, f.rows) \subseteq Row
  BY <1>1 DEF In
<1>3. Reapplied \in [Message -> Status]
  BY DEF Reapplied, Typed, PageTyped, Status
<1>4. shown' \subseteq Row /\ local' \in [Message -> Status]
  BY <1>2, <1>3, StatusTyped DEF Fetched, Typed, PageTyped
<1>5. PageTyped'
  BY <1>4 DEF Fetched, Typed, PageTyped
<1>6. QED BY <1>1, <1>5 DEF Fetched, relay, idb, history, Typed, QueueTyped, WireTyped, RelayTyped, StoreTyped, HistoryTyped

LEMMA SyncedTyped == ASSUME Typed, down # <<>>, Head(down).kind \in {"delta", "snapshot"}, Synced(Head(down)) PROVE Typed'
<1> DEFINE f == Head(down)
           b == active # None /\ shown' = {} /\ local' = NoRows /\ sock = "authed"
<1>1. f.rows \in SUBSET Row /\ Tail(down) \in Seq(DownFrame)
  BY NextFrame, FrameKinds DEF Typed
<1>2. In(active, f.rows) \subseteq Row
  BY <1>1 DEF In
<1>3. shown' \subseteq Row /\ local' \in [Message -> Status]
  BY <1>2, StatusTyped DEF Synced, Added, Typed, PageTyped
<1>4. PageTyped'
  BY <1>3 DEF Synced, Typed, PageTyped
<1>5. up' \in Seq(UpFrame)
  <2>1. up' = Ask(up, b) /\ b \in BOOLEAN
    BY DEF Synced
  <2>2. QED BY <2>1, Asked DEF Typed, WireTyped
<1>6. QED BY <1>1, <1>4, <1>5 DEF Synced, relay, idb, history, Typed, QueueTyped, WireTyped, RelayTyped, StoreTyped, HistoryTyped

\* The echo of a message of the channel on screen.
EchoedHere(m) ==
  /\ ops' = Append(ops, Do("delete", m)) /\ bubbles' = [bubbles EXCEPT ![m] = None]
  /\ queue' \in Seq(Message) /\ Distinct(queue') /\ ToSet(queue') = ToSet(queue) \ {m}

LEMMA EchoedIs ==
  ASSUME Typed, down # <<>>, Head(down).kind = "echo", Echoed(Head(down))
  PROVE  \E r \in Row : /\ Head(down) = Echo(r)
                        /\ \/ home[r[1]] = active /\ EchoedHere(r[1]) /\ blank' = FALSE
                              /\ shown' = shown \cup {r} /\ watch' = Sweep(local')
                              /\ local' = IF r \in shown THEN local ELSE Collapse(local, {r})
                           \/ UNCHANGED <<local, shown, blank, watch, ops, queue, bubbles>>
<1> DEFINE r == Head(down).row
<1>1. r \in Row /\ Head(down) = Echo(r)
  BY NextFrame, FrameKinds DEF Typed
<1>2. r[1] \in Message
  BY <1>1 DEF Row
<1>3. home[r[1]] = active => EchoedHere(r[1])
  BY <1>2, RemoveFirstIs DEF Echoed, EchoedHere, Typed, QueueTyped
<1>4. QED BY <1>1, <1>3 DEF Echoed

LEMMA EchoedTyped == ASSUME Typed, down # <<>>, Head(down).kind = "echo", Echoed(Head(down)) PROVE Typed'
<1>1. PICK r \in Row : /\ Head(down) = Echo(r)
                       /\ \/ home[r[1]] = active /\ EchoedHere(r[1]) /\ blank' = FALSE
                             /\ shown' = shown \cup {r} /\ watch' = Sweep(local')
                             /\ local' = IF r \in shown THEN local ELSE Collapse(local, {r})
                          \/ UNCHANGED <<local, shown, blank, watch, ops, queue, bubbles>>
  BY EchoedIs
<1>2. r[1] \in Message /\ Tail(down) \in Seq(DownFrame)
  BY NextFrame DEF Row, Typed
<1>3. /\ UNCHANGED <<sock, up, known, relay, restoring, active, parked, stored, home, posted, history>>
      /\ down' = Tail(down)
  BY DEF Echoed
<1>4. CASE UNCHANGED <<local, shown, blank, watch, ops, queue, bubbles>>
  BY <1>2, <1>3, <1>4 DEF relay, history, Typed, PageTyped, QueueTyped, WireTyped, RelayTyped, StoreTyped, HistoryTyped
<1>5. CASE /\ EchoedHere(r[1])
           /\ shown' = shown \cup {r} /\ watch' = Sweep(local')
           /\ local' = IF r \in shown THEN local ELSE Collapse(local, {r})
           /\ blank' = FALSE
  <2>1. local' \in [Message -> Status] /\ bubbles' \in [Message -> Status]
    BY <1>5, StatusTyped DEF EchoedHere, Typed, PageTyped
  <2>2. watch' \subseteq Message /\ shown' \subseteq Row
    BY <1>5 DEF Sweep, Typed, PageTyped
  <2>3. ops' \in Seq(Transaction)
    BY <1>2, <1>5, AppendOp DEF EchoedHere, Typed
  <2>4. PageTyped'
    BY <1>3, <1>5, <2>1, <2>2 DEF Typed, PageTyped
  <2>5. QED BY <1>2, <1>3, <1>5, <2>3, <2>4 DEF EchoedHere, relay, history, Typed, QueueTyped, WireTyped, RelayTyped, StoreTyped, HistoryTyped
<1>6. QED BY <1>1, <1>4, <1>5

LEMMA HandsOverTyped ==
  ASSUME NEW q \in Seq(Message), Distinct(q), NEW e, HandsOver(q, e)
  PROVE  QueueTyped' /\ ToSet(queue') \subseteq ToSet(q)
<1>1. <<>> \in Seq(Message) /\ Distinct(<<>>) /\ ToSet(<<>>) = {}
  BY DEF Distinct, ToSet
<1>2. queue' = q \/ queue' = <<>>
  BY DEF HandsOver
<1>3. QED BY <1>1, <1>2 DEF QueueTyped

LEMMA WelcomedTyped == ASSUME Typed, down # <<>>, Welcomed PROVE Typed'
<1>1. PICK e : WelcomedBy(e)
  BY WelcomedIs
<1>2. up' \in Seq(UpFrame)
  BY WelcomedIs
<1>3. ops' \in Seq(Transaction) /\ QueueTyped'
  <2>1. e \in Seq(Transaction) /\ ops' = ops \o e /\ ops \in Seq(Transaction)
    BY <1>1 DEF WelcomedBy, Typed, StoreTyped
  <2>2. QueueTyped'
    BY <1>1, HandsOverTyped DEF WelcomedBy, Typed, QueueTyped
  <2>3. QED BY <2>1, <2>2
<1>4. Tail(down) \in Seq(DownFrame)
  BY NextFrame DEF Typed
<1>5. PageTyped'
  BY DEF Welcomed, Typed, PageTyped
<1>6. QED BY <1>2, <1>3, <1>4, <1>5 DEF Welcomed, relay, history, Typed, WireTyped, RelayTyped, StoreTyped, HistoryTyped

LEMMA TransactTyped == ASSUME SendOutboxAssumption, Typed, Transact PROVE Typed'
<1>1. Head(ops) \in Transaction /\ Tail(ops) \in Seq(Transaction) /\ ops # <<>>
  BY DEF Transact, Typed, StoreTyped
<1>2. UNCHANGED <<sock, down, known, relay, restoring, active, parked, shown, blank, home, posted, history>>
  BY DEF Transact
<1>3. CASE Head(ops).op = "read"
  <2>1. Rehydrate
    BY <1>3 DEF Transact
  <2>2. PICK q, e : RehydratedBy(q, e)
    BY <1>1, <2>1, RehydrateIs
  <2>3. up' \in Seq(UpFrame)
    BY <1>1, <2>1, RehydrateIs
  <2>4. ops' \in Seq(Transaction) /\ QueueTyped'
    <3>1. e \in Seq(Transaction) /\ ops' = Tail(ops) \o e
      BY <2>2 DEF RehydratedBy
    <3>2. QueueTyped'
      BY <2>2, HandsOverTyped DEF RehydratedBy
    <3>3. QED BY <1>1, <3>1, <3>2
  <2>5. local' \in [Message -> Status] /\ bubbles' \in [Message -> Status]
    BY <2>1 DEF Rehydrate, Typed, PageTyped, Status
  <2>6. PageTyped'
    BY <1>2, <2>1, <2>5 DEF Rehydrate, Typed, PageTyped, StoreTyped
  <2>7. QED BY <1>2, <2>1, <2>3, <2>4, <2>6 DEF Rehydrate, relay, history, Typed, WireTyped, RelayTyped, StoreTyped, HistoryTyped
<1>4. CASE Head(ops).op # "read"
  <2>1. stored' = Commit(stored, Head(ops)) /\ ops' = Tail(ops) /\ UNCHANGED <<up, local, queue, bubbles, watch>>
    BY <1>4 DEF Transact
  <2>2. Commit(stored, Head(ops)) \subseteq Message
    BY <1>1 DEF Commit, Transaction, Do, Typed, StoreTyped
  <2>3. QED BY <1>1, <1>2, <2>1, <2>2 DEF relay, history, Typed, PageTyped, QueueTyped, WireTyped, RelayTyped, StoreTyped, HistoryTyped
<1>5. QED BY <1>3, <1>4

LEMMA RelayReadsTyped == ASSUME Typed, RelayReads PROVE Typed'
<1>1. up # <<>> /\ up \in Seq(UpFrame) /\ HistoryTyped /\ RelayTyped
  BY DEF RelayReads, Typed, WireTyped
<1>2. Head(up) \in UpFrame /\ up' = Tail(up) /\ Tail(up) \in Seq(UpFrame)
  BY <1>1, PostsOfTail DEF RelayReads
<1>3. IsPost(Head(up)) => Head(up).m \in Message
  BY <1>2 DEF UpFrame, Request, IsPost, Post, Fetch, Sync
<1>4. HistoryTyped' /\ known' \in {"no", "checking", "yes"}
  <2>1. UNCHANGED <<home, posted, again, refused, dropped, faults, may>> /\ known' \in {known, "checking"}
    BY DEF RelayReads
  <2>2. lost' = lost \/ (IsPost(Head(up)) /\ lost' = lost \cup {Head(up).m})
    BY DEF RelayReads
  <2>3. lost' \subseteq Message
    BY <1>1, <1>3, <2>2 DEF HistoryTyped
  <2>4. QED BY <1>1, <2>1, <2>3 DEF Typed, WireTyped, HistoryTyped
<1>5. RelayTyped'
  <2>1. posting' = posting \/ (IsPost(Head(up)) /\ posting' = [posting EXCEPT ![Head(up).m] = @ + 1])
    BY DEF RelayReads
  <2>2. asking' = asking \/ (Head(up).kind \in {"fetch", "sync"} /\ asking' = Append(asking, Head(up)))
    BY DEF RelayReads
  <2>3. Head(up).kind \in {"fetch", "sync"} => Head(up) \in Request
    BY <1>2 DEF UpFrame, Post
  <2>4. posting' \in [Message -> Nat]
    BY <1>1, <1>3, <2>1 DEF RelayTyped
  <2>5. asking' \in Seq(Request)
    BY <1>1, <2>2, <2>3 DEF RelayTyped
  <2>6. QED BY <1>1, <2>4, <2>5 DEF RelayReads, RelayTyped
<1>6. QED BY <1>2, <1>4, <1>5 DEF RelayReads, list, idb, Typed, PageTyped, QueueTyped, WireTyped, StoreTyped

\* What a message that is posted is echoed by.
LEMMA InjectIs ==
  ASSUME Typed, Inject
  PROVE  \E m \in Message :
            /\ posting[m] > 0 /\ posting' = [posting EXCEPT ![m] = @ - 1]
            /\ posted' = [posted EXCEPT ![m] = @ + 1] /\ <<m, posted[m] + 1>> \in Row
            /\ down' = down \/ down' = Append(down, Echo(<<m, posted[m] + 1>>))
<1>1. PICK m \in Message :
          /\ posting[m] > 0 /\ posting' = [posting EXCEPT ![m] = @ - 1]
          /\ posted' = [posted EXCEPT ![m] = @ + 1]
          /\ down' = IF known = "yes" THEN Append(down, [kind |-> "echo", row |-> <<m, posted'[m]>>]) ELSE down
  BY DEF Inject
<1>2. posted'[m] = posted[m] + 1 /\ posted[m] \in Nat
  BY <1>1 DEF Typed, HistoryTyped
<1>3. <<m, posted[m] + 1>> \in Row
  BY <1>2 DEF Row
<1>4. down' = down \/ down' = Append(down, Echo(<<m, posted[m] + 1>>))
  BY <1>1, <1>2 DEF Echo
<1>5. QED BY <1>1, <1>3, <1>4

LEMMA InjectTyped == ASSUME Typed, Inject PROVE Typed'
<1>1. PICK m \in Message :
          /\ posting[m] > 0 /\ posting' = [posting EXCEPT ![m] = @ - 1]
          /\ posted' = [posted EXCEPT ![m] = @ + 1] /\ <<m, posted[m] + 1>> \in Row
          /\ down' = down \/ down' = Append(down, Echo(<<m, posted[m] + 1>>))
  BY InjectIs
<1>2. down' \in Seq(DownFrame)
  <2>1. Echo(<<m, posted[m] + 1>>) \in DownFrame
    BY <1>1 DEF DownFrame
  <2>2. \A f \in DownFrame : Append(down, f) \in Seq(DownFrame)
    BY DEF Typed, WireTyped
  <2>3. QED BY <1>1, <2>1, <2>2 DEF Typed, WireTyped
<1>3. posting' \in [Message -> Nat] /\ posted' \in [Message -> Nat]
  BY <1>1 DEF Typed, RelayTyped, HistoryTyped
<1>4. WireTyped' /\ RelayTyped' /\ HistoryTyped'
  BY <1>2, <1>3 DEF Inject, history, Typed, WireTyped, RelayTyped, HistoryTyped
<1>5. QED BY <1>4 DEF Inject, list, idb, Typed, PageTyped, QueueTyped, StoreTyped

\* A request is done with.
LEMMA Withdrawn ==
  ASSUME NEW S, NEW q \in Seq(S), NEW i \in DOMAIN q PROVE RemoveAt(q, i) \in Seq(S)
<1>1. i \in 1 .. Len(q) /\ Len(q) \in Nat
  OBVIOUS
<1>2. SubSeq(q, 1, i-1) \in Seq(S) /\ SubSeq(q, i+1, Len(q)) \in Seq(S)
  BY <1>1
<1>3. QED BY <1>2 DEF RemoveAt

\* What a request is answered with: rows that were posted.
LEMMA AnswerIs ==
  ASSUME Typed, Answer
  PROVE  /\ rows' \subseteq rows \cup History /\ rows' \in SUBSET Row /\ asking' \in Seq(Request)
         /\ \E f \in DownFrame : down' = Append(down, f) /\ Rows(f) = rows' /\ f.kind \in {"page", "delta", "snapshot"}
<1>1. PICK i \in DOMAIN asking : /\ \E written \in SUBSET (History \ rows) : rows' = rows \cup written
                                 /\ down' = Append(down, Found(asking[i])) /\ asking' = RemoveAt(asking, i)
  BY DEF Answer
<1>2. asking[i] \in Request /\ asking' \in Seq(Request)
  BY <1>1, Withdrawn DEF Typed, RelayTyped
<1>3. rows' \subseteq rows \cup History /\ rows' \in SUBSET Row
  BY <1>1, HistoryRows DEF Typed, RelayTyped
<1>4. ASSUME NEW c \in Channel \cup {None}, NEW who \in {"selectChannel", "selectWorkspace"}, asking[i] = Fetch(c, who)
      PROVE  Found(asking[i]) \in DownFrame /\ Rows(Found(asking[i])) = rows' /\ Found(asking[i]).kind = "page"
  <2>1. Found(asking[i]) = [kind |-> "page", channel |-> c, by |-> who, rows |-> rows']
    BY <1>4 DEF Found, Fetch
  <2>2. QED BY <1>3, <2>1 DEF DownFrame, Rows
<1>5. ASSUME NEW cold \in BOOLEAN, asking[i] = Sync(cold)
      PROVE  /\ Found(asking[i]) \in DownFrame /\ Rows(Found(asking[i])) = rows'
             /\ Found(asking[i]).kind \in {"delta", "snapshot"}
  <2>1. Found(asking[i]) = [kind |-> IF cold THEN "snapshot" ELSE "delta", rows |-> rows']
    BY <1>5 DEF Found, Sync
  <2>2. QED BY <1>3, <2>1 DEF DownFrame, Rows
<1>6. QED BY <1>1, <1>2, <1>3, <1>4, <1>5 DEF Request

LEMMA AnswerTyped == ASSUME Typed, Answer PROVE Typed'
<1>0. \A f \in DownFrame : Append(down, f) \in Seq(DownFrame)
  BY DEF Typed, WireTyped
<1>1. down' \in Seq(DownFrame) /\ rows' \in SUBSET Row /\ asking' \in Seq(Request)
  BY <1>0, AnswerIs
<1>2. WireTyped' /\ RelayTyped'
  BY <1>1 DEF Answer, Typed, WireTyped, RelayTyped
<1>3. QED BY <1>2 DEF Answer, list, idb, history, Typed, PageTyped, QueueTyped, StoreTyped, HistoryTyped

\* A fault of the budget.
LEMMA OneMoreFault ==
  ASSUME SendOutboxAssumption, HistoryTyped, faults < may.faults, faults' = faults + 1, may' = may
  PROVE  faults' \in 0 .. may'.faults
<1>1. may.faults \in Nat
  BY DEF SendOutboxAssumption, HistoryTyped
<1>2. QED BY <1>1 DEF HistoryTyped

LEMMA RefuseTyped == ASSUME SendOutboxAssumption, Typed, Refuse PROVE Typed'
<1>1. faults' \in 0 .. may'.faults
  BY OneMoreFault DEF Refuse, Typed
<1>2. posting' \in [Message -> Nat] /\ refused' \subseteq Message /\ asking' \in Seq(Request)
  BY Withdrawn DEF Refuse, Typed, RelayTyped, HistoryTyped
<1>3. RelayTyped' /\ HistoryTyped'
  BY <1>1, <1>2 DEF Refuse, Typed, RelayTyped, HistoryTyped
<1>4. QED BY <1>3 DEF Refuse, wire, list, idb, Typed, PageTyped, QueueTyped, WireTyped, StoreTyped

LEMMA FaultTyped ==
  ASSUME SendOutboxAssumption, Typed, Fault
  PROVE  /\ sock' = "closed" /\ up' = <<>> /\ down' = <<>> /\ known' = "no"
         /\ WireTyped' /\ RelayTyped' /\ UNCHANGED <<home, posted, refused, may>> /\ faults' \in 0 .. may'.faults
         /\ lost' \subseteq Message /\ lost' = lost \cup Posts(up)
<1>1. Posts(up) \subseteq Message
  BY PostsAre DEF Typed, WireTyped
<1>2. <<>> \in Seq(UpFrame) /\ <<>> \in Seq(DownFrame)
  OBVIOUS
<1>3. faults' \in 0 .. may'.faults
  BY OneMoreFault DEF Fault, Typed
<1>4. <<>> \in Seq(Request)
  OBVIOUS
<1>5. RelayTyped'
  BY <1>4 DEF Fault, Typed, RelayTyped
<1>6. QED BY <1>1, <1>2, <1>3, <1>5 DEF Fault, WireTyped, Typed, HistoryTyped

LEMMA FaultsTyped == ASSUME SendOutboxAssumption, Typed, Drop \/ Reload \/ Logout PROVE Typed'
<1>1. Fault
  BY DEF Drop, Reload, Logout
<1>2. /\ WireTyped' /\ RelayTyped' /\ UNCHANGED <<home, posted, refused, may>> /\ faults' \in 0 .. may'.faults /\ lost' \subseteq Message
  BY <1>1, FaultTyped
<1>3. CASE Drop
  BY <1>2, <1>3 DEF Drop, list, idb, Typed, PageTyped, QueueTyped, RelayTyped, StoreTyped, HistoryTyped
<1>4. Unpage => /\ QueueTyped' /\ local' \in [Message -> Status] /\ shown' \subseteq Row
                /\ bubbles' \in [Message -> Status] /\ restoring' \in BOOLEAN /\ parked' \in BOOLEAN
                /\ active' \in Channel \cup {None} /\ blank' \in BOOLEAN
  <2>1. NoRows \in [Message -> Status]
    BY DEF NoRows, Status
  <2>2. <<>> \in Seq(Message) /\ Distinct(<<>>)
    BY DEF Distinct
  <2>3. QED BY <2>1, <2>2 DEF Unpage, QueueTyped
<1>5. ToSet(queue) \subseteq Message /\ Sent \subseteq Message
  BY DEF ToSet, Sent, Typed, QueueTyped
<1>6. CASE Reload
  <2>1. PageTyped' /\ QueueTyped'
    BY <1>4, <1>6 DEF Reload, PageTyped
  <2>2. again' \in [Message -> Nat] /\ dropped' \subseteq Message
    BY <1>5, <1>6 DEF Reload, Typed, HistoryTyped
  <2>3. StoreTyped'
    BY <1>6 DEF Reload, Typed, StoreTyped
  <2>4. QED BY <1>2, <2>1, <2>2, <2>3 DEF Typed, HistoryTyped
<1>7. CASE Logout
  <2>1. PageTyped' /\ QueueTyped'
    BY <1>4, <1>7 DEF Logout, Typed, PageTyped
  <2>2. again' \in [Message -> Nat] /\ dropped' \subseteq Message
    BY <1>5, <1>7 DEF Logout, Typed, HistoryTyped
  <2>3. StoreTyped'
    BY <1>7, AppendOp DEF Logout, Typed, StoreTyped
  <2>4. QED BY <1>2, <2>1, <2>2, <2>3 DEF Typed, HistoryTyped
<1>8. QED BY <1>3, <1>6, <1>7

LEMMA InitTyped == ASSUME SendOutboxAssumption, Init PROVE Typed
<1>1. NoRows \in [Message -> Status] /\ NoRows \in [Message -> Channel \cup {None}]
  BY DEF NoRows, Status
<1>2. <<>> \in Seq(Message) /\ <<>> \in Seq(UpFrame) /\ <<>> \in Seq(DownFrame) /\ <<>> \in Seq(Transaction)
      /\ <<>> \in Seq(Request) /\ Distinct(<<>>)
  BY DEF Distinct
<1>3. PageTyped /\ QueueTyped /\ WireTyped /\ RelayTyped /\ StoreTyped
  BY <1>1, <1>2 DEF Init, PageTyped, QueueTyped, WireTyped, RelayTyped, StoreTyped
<1>4. HistoryTyped
  <2>1. may \in Budgets /\ faults = 0
    BY DEF Init
  <2>2. may.faults \in Nat
    BY <2>1 DEF SendOutboxAssumption
  <2>3. QED BY <1>1, <2>1, <2>2 DEF Init, HistoryTyped
<1>5. QED BY <1>3, <1>4 DEF Typed

\* The steps of the page's message handler.
LEMMA ReceiveIs ==
  ASSUME Receive
  PROVE  /\ down # <<>>
         /\ \/ Head(down).kind = "welcome" /\ Welcomed
            \/ Head(down).kind = "echo" /\ Echoed(Head(down))
            \/ Head(down).kind = "page" /\ Fetched(Head(down))
            \/ Head(down).kind \in {"delta", "snapshot"} /\ Synced(Head(down))
BY DEF Receive

LEMMA NextTyped == ASSUME SendOutboxAssumption, Typed, [Next]_vars PROVE Typed'
<1>1. CASE Receive
  BY <1>1, ReceiveIs, WelcomedTyped, EchoedTyped, FetchedTyped, SyncedTyped
<1>2. CASE UNCHANGED vars
  BY <1>2 DEF vars, wire, relay, list, idb, history, Typed, PageTyped, QueueTyped, WireTyped, RelayTyped, StoreTyped, HistoryTyped
<1>3. QED BY <1>1, <1>2, SendTyped, RetryTyped, TimeoutTyped, SelectTyped, OpenTyped, RelayReadsTyped, InjectTyped,
          AnswerTyped, RefuseTyped, FaultsTyped, TransactTyped
          DEF Next

\* The queue holds as many messages as it has entries.
LEMMA TypesSuffice == ASSUME Typed PROVE TypeOK
<1>1. queue \in Seq(Message) /\ Distinct(queue)
  BY DEF Typed, QueueTyped
<1>2. Cardinality(ToSet(queue)) = Len(queue)
  <2>1. queue \in [1 .. Len(queue) -> ToSet(queue)] /\ Len(queue) \in Nat
    BY <1>1 DEF ToSet
  <2>2. \A a, b \in 1 .. Len(queue) : queue[a] = queue[b] => a = b
    BY <1>1 DEF Distinct
  <2>3. \A t \in ToSet(queue) : \E s \in 1 .. Len(queue) : queue[s] = t
    BY <1>1 DEF ToSet
  <2>4. queue \in Bijection(1 .. Len(queue), ToSet(queue))
    BY <2>1, <2>2, <2>3, Fun_IsBij
  <2>5. IsFiniteSet(1 .. Len(queue)) /\ Cardinality(1 .. Len(queue)) = Len(queue)
    <3>1. \A n \in Nat : IsFiniteSet(1 .. n) /\ Cardinality(1 .. n) = n
      BY FS_Interval
    <3>2. QED BY <2>1, <3>1
  <2>6. QED BY <2>4, <2>5, FS_Bijection DEF ExistsBijection
<1>3. \A i \in DOMAIN ops : ops[i].op \in {"put", "delete", "clear", "read"}
  BY DEF Typed, StoreTyped, Transaction, Do
<1>4. shown \subseteq Message \X Nat /\ rows \subseteq Message \X Nat
  BY DEF Typed, PageTyped, RelayTyped, Row
<1>5. QED BY <1>1, <1>2, <1>3, <1>4 DEF Typed, PageTyped, WireTyped, RelayTyped, StoreTyped, HistoryTyped, TypeOK

------------------------------------------------------------------------------
(* The rows the page has seen, and the messages that were not written. *)

\* The page takes a frame: it shows no row but those of the frame.
LEMMA TakeFrame ==
  ASSUME WireTyped, down # <<>>, SeenRows, EchoFirst, down' = Tail(down), UNCHANGED <<rows, posted>>,
         shown' \subseteq shown \cup Rows(Head(down))
  PROVE  SeenRows' /\ EchoFirst'
<1>1. /\ Len(Tail(down)) = Len(down) - 1 /\ Head(down) = down[1] /\ Len(down) \in Nat \ {0}
      /\ \A i \in DOMAIN Tail(down) : Tail(down)[i] = down[i+1] /\ i+1 \in DOMAIN down /\ i \in Nat \ {0}
      /\ 1 \in DOMAIN down /\ DOMAIN down = 1 .. Len(down)
  BY DEF WireTyped
<1>2. SeenRows'
  BY <1>1 DEF SeenRows, Rows
<1>3. ASSUME NEW i \in DOMAIN down', down'[i].kind = "echo"
      PROVE  down'[i].row \notin shown' /\ \A j \in 1 .. i-1 : down'[i].row \notin Rows(down'[j])
  <2>1. down'[i] = down[i+1] /\ i+1 \in DOMAIN down /\ i \in Nat \ {0}
    BY <1>1
  <2>2. down[i+1].row \notin shown /\ \A j \in 1 .. (i+1)-1 : down[i+1].row \notin Rows(down[j])
    BY <1>3, <2>1 DEF EchoFirst
  <2>3. down[i+1].row \notin Rows(Head(down))
    BY <1>1, <2>1, <2>2
  <2>4. ASSUME NEW j \in 1 .. i-1 PROVE down[i+1].row \notin Rows(down'[j])
    <3>1. j + 1 \in 1 .. (i+1)-1 /\ down'[j] = down[j+1]
      BY <1>1, <2>1
    <3>2. QED BY <2>2, <3>1
  <2>5. QED BY <2>1, <2>2, <2>3, <2>4
<1>4. EchoFirst'
  BY <1>3 DEF EchoFirst, Rows
<1>5. QED BY <1>2, <1>4

\* The relay sends a frame.
LEMMA NewFrame ==
  ASSUME WireTyped, SeenRows, EchoFirst, UNCHANGED shown, NEW f, down' = Append(down, f),
         \A m \in Message : posted[m] <= posted'[m] /\ posted[m] \in Nat /\ posted'[m] \in Nat,
         shown \subseteq Row, Rows(f) \subseteq Row, \A r \in Rows(f) : r[2] <= posted'[r[1]],
         \A r \in rows' : r[2] <= posted'[r[1]],
         f.kind = "echo" => f.row[2] > posted[f.row[1]]
  PROVE  SeenRows' /\ EchoFirst'
<1>1. /\ Len(down') = Len(down) + 1 /\ Len(down) \in Nat /\ down'[Len(down) + 1] = f
      /\ \A i \in DOMAIN down : down'[i] = down[i] /\ i \in 1 .. Len(down) /\ down[i] \in DownFrame
      /\ \A i \in DOMAIN down' : i \in DOMAIN down \/ i = Len(down) + 1
      /\ \A i \in 1 .. Len(down) : i \in DOMAIN down
  BY DEF WireTyped
<1>2. \A r \in Row : r[2] <= posted[r[1]] => r[2] <= posted'[r[1]]
  BY DEF Row
<1>3. \A i \in DOMAIN down : Rows(down[i]) \subseteq Row
  BY <1>1, FrameKinds
<1>4. ASSUME NEW i \in DOMAIN down', NEW r \in Rows(down'[i]) PROVE r[2] <= posted'[r[1]]
  BY <1>1, <1>2, <1>3, <1>4 DEF SeenRows
<1>5. SeenRows'
  BY <1>2, <1>4 DEF SeenRows, Rows
<1>6. ASSUME NEW i \in DOMAIN down', down'[i].kind = "echo"
      PROVE  down'[i].row \notin shown /\ \A j \in 1 .. i-1 : down'[i].row \notin Rows(down'[j])
  <2>1. CASE i \in DOMAIN down
    <3>1. down'[i] = down[i] /\ \A j \in 1 .. i-1 : j \in DOMAIN down /\ down'[j] = down[j]
      BY <1>1, <2>1
    <3>2. QED BY <1>6, <2>1, <3>1 DEF EchoFirst
  <2>2. CASE i = Len(down) + 1
    <3>1. down'[i] = f /\ f.row[2] > posted[f.row[1]] /\ f.row \in Row
      BY <1>1, <1>6, <2>2 DEF Rows
    <3>2. f.row[2] \in Nat /\ posted[f.row[1]] \in Nat
      BY <3>1 DEF Row
    <3>3. f.row \notin shown
      BY <3>1, <3>2 DEF SeenRows
    <3>4. \A j \in 1 .. i-1 : j \in DOMAIN down /\ down'[j] = down[j]
      BY <1>1, <2>2
    <3>5. \A j \in 1 .. i-1 : f.row \notin Rows(down[j])
      BY <3>1, <3>2, <3>4 DEF SeenRows
    <3>6. QED BY <3>1, <3>3, <3>4, <3>5
  <2>3. QED BY <1>1, <2>1, <2>2
<1>7. EchoFirst'
  BY <1>6 DEF EchoFirst, Rows
<1>8. QED BY <1>5, <1>7

\* The page has seen only what was posted, echoes first.
LEMMA NextRows == ASSUME SendOutboxAssumption, Typed, SeenRows, EchoFirst, [Next]_vars PROVE SeenRows' /\ EchoFirst'
<1>1. WireTyped /\ HistoryTyped /\ shown \subseteq Row /\ rows \subseteq Row
  BY DEF Typed, PageTyped, RelayTyped
<1>2. ASSUME UNCHANGED <<down, rows, posted>>, shown' \subseteq shown PROVE SeenRows' /\ EchoFirst'
  BY <1>2 DEF SeenRows, EchoFirst, Rows
<1>3. ASSUME down' = <<>>, shown' \subseteq shown, UNCHANGED <<rows, posted>> PROVE SeenRows' /\ EchoFirst'
  BY <1>3 DEF SeenRows, EchoFirst, Rows
<1>4. CASE Send \/ Retry \/ Timeout \/ Select \/ SelectWorkspace \/ UNCHANGED vars
  BY <1>2, <1>4 DEF Send, Retry, Timeout, Select, SelectWorkspace, Clear, wire, relay, list, vars
<1>5. CASE Open
  BY <1>3, <1>5 DEF Open, relay, list
<1>6. CASE Drop \/ Reload \/ Logout
  BY <1>3, <1>6 DEF Drop, Reload, Logout, Fault, Unpage, list
<1>7. CASE Transact
  BY <1>2, <1>7 DEF Transact, relay
<1>8. CASE Receive
  <2>1. down # <<>>
    BY <1>8, ReceiveIs
  <2>2. down' = Tail(down) /\ UNCHANGED <<rows, posted>>
    BY <1>8, ReceiveIs DEF Welcomed, Echoed, Fetched, Synced, relay
  <2>3. shown' \subseteq shown \cup Rows(Head(down))
    BY <1>8, ReceiveIs DEF Welcomed, Echoed, Fetched, Synced, Added, Rows, In
  <2>4. QED BY <1>1, <2>1, <2>2, <2>3, TakeFrame
<1>9. CASE RelayKnows
  <2> DEFINE f == [kind |-> "welcome"]
  <2>1. down' = Append(down, f) /\ UNCHANGED <<posted, rows, shown>>
    BY <1>9 DEF RelayKnows, relay, list
  <2>2. Rows(f) = {} /\ f.kind # "echo"
    BY DEF Rows
  <2>3. \A m \in Message : posted[m] <= posted'[m] /\ posted[m] \in Nat /\ posted'[m] \in Nat
    BY <1>1, <2>1 DEF HistoryTyped
  <2> HIDE DEF f
  <2>4. \A r \in rows' : r[2] <= posted'[r[1]]
    BY <2>1 DEF SeenRows
  <2>5. QED BY <1>1, <2>1, <2>2, <2>3, <2>4, NewFrame
<1>10. CASE RelayReads \/ Refuse
  BY <1>2, <1>10 DEF RelayReads, Refuse, wire, list
<1>11. CASE Inject
  <2>1. PICK m \in Message :
            /\ posting[m] > 0 /\ posting' = [posting EXCEPT ![m] = @ - 1]
            /\ posted' = [posted EXCEPT ![m] = @ + 1] /\ <<m, posted[m] + 1>> \in Row
            /\ down' = down \/ down' = Append(down, Echo(<<m, posted[m] + 1>>))
    BY <1>11, InjectIs
  <2>2. UNCHANGED <<rows, shown>>
    BY <1>11 DEF Inject, list
  <2>3. /\ \A n \in Message : posted[n] <= posted'[n] /\ posted[n] \in Nat /\ posted'[n] \in Nat
        /\ posted'[m] = posted[m] + 1
    BY <1>1, <2>1 DEF HistoryTyped
  <2>4. ASSUME NEW r \in Row, r[2] <= posted[r[1]] PROVE r[2] <= posted'[r[1]]
    BY <2>3, <2>4 DEF Row
  <2>5. \A r \in rows' : r[2] <= posted'[r[1]]
    BY <1>1, <2>2, <2>4 DEF SeenRows
  <2>6. CASE down' = down
    <3>1. ASSUME NEW i \in DOMAIN down', NEW r \in Rows(down'[i]) PROVE r[2] <= posted'[r[1]]
      <4>1. i \in DOMAIN down /\ r \in Rows(down[i]) /\ down[i] \in DownFrame
        BY <1>1, <2>6, <3>1 DEF WireTyped
      <4>2. r \in Row /\ r[2] <= posted[r[1]]
        BY <4>1, FrameKinds DEF SeenRows
      <4>3. QED BY <2>4, <4>2
    <3>2. \A r \in shown' : r[2] <= posted'[r[1]]
      BY <1>1, <2>2, <2>4 DEF SeenRows
    <3>3. SeenRows'
      BY <2>5, <3>1, <3>2 DEF SeenRows, Rows
    <3>4. EchoFirst'
      BY <2>2, <2>6 DEF EchoFirst, Rows
    <3>5. QED BY <3>3, <3>4
  <2>7. ASSUME down' = Append(down, Echo(<<m, posted[m] + 1>>)) PROVE SeenRows' /\ EchoFirst'
    <3> DEFINE r == <<m, posted[m] + 1>>
               f == Echo(r)
    <3>1. Rows(f) = {r} /\ f.row = r /\ f.kind = "echo" /\ r[1] = m /\ r[2] = posted[m] + 1 /\ r \in Row
      BY <2>1 DEF Rows, Echo
    <3>2. down' = Append(down, f)
      BY <2>7
    <3> HIDE DEF f, r
    <3>3. /\ Rows(f) \subseteq Row /\ f.row[2] > posted[f.row[1]]
          /\ \A x \in Rows(f) : x[2] <= posted'[x[1]]
      BY <2>3, <3>1
    <3>4. QED BY <1>1, <2>2, <2>3, <2>5, <3>2, <3>3, NewFrame
  <2>8. QED BY <2>1, <2>6, <2>7
<1>12. CASE Answer
  <2>1. PICK f \in DownFrame : down' = Append(down, f) /\ Rows(f) = rows' /\ f.kind \in {"page", "delta", "snapshot"}
    BY <1>12, AnswerIs
  <2>2. UNCHANGED <<posted, shown>> /\ rows' \subseteq rows \cup History /\ rows' \subseteq Row
    BY <1>12, AnswerIs DEF Answer, list
  <2>3. \A m \in Message : posted[m] <= posted'[m] /\ posted[m] \in Nat /\ posted'[m] \in Nat
    BY <1>1, <2>2 DEF HistoryTyped
  <2>4. \A r \in rows' : r[2] <= posted'[r[1]]
    BY <1>1, <2>2, HistoryRows DEF SeenRows
  <2>5. f.kind # "echo" /\ Rows(f) \subseteq Row /\ \A r \in Rows(f) : r[2] <= posted'[r[1]]
    BY <2>1, <2>2, <2>4
  <2>6. QED BY <1>1, <2>1, <2>2, <2>3, <2>4, <2>5, NewFrame
<1>13. QED BY <1>4, <1>5, <1>6, <1>7, <1>8, <1>9, <1>10, <1>11, <1>12 DEF Next

\* What a message in the queue, in a frame or on the screen tells: it was written.
LEMMA Collapsed == ASSUME NEW f, NEW news, NEW m \in Message
                   PROVE  Collapse(f, news)[m] = (IF m \in Settled(news) THEN None ELSE f[m])
BY DEF Collapse

\* Nothing bears the number of a message that was not written.
LEMMA AppendedOps ==
  ASSUME StoreTyped, NEW x, NEW m, \A i \in DOMAIN ops : ops[i].m # m, x.m # m, ops' = Append(ops, x)
  PROVE  \A i \in DOMAIN ops' : ops'[i].m # m
<1>1. \A i \in DOMAIN ops' : (i \in DOMAIN ops /\ ops'[i] = ops[i]) \/ ops'[i] = x
  BY DEF StoreTyped
<1>2. QED BY <1>1

LEMMA ExtendedOps ==
  ASSUME NEW o \in Seq(Transaction), NEW e \in Seq(Transaction), NEW m,
         \A i \in DOMAIN o : o[i].m # m, \A i \in DOMAIN e : e[i].m # m
  PROVE  \A i \in DOMAIN (o \o e) : (o \o e)[i].m # m
<1> DEFINE p == o \o e
<1>1. Len(p) = Len(o) + Len(e) /\ p \in Seq(Transaction) /\ Len(o) \in Nat /\ Len(e) \in Nat
  OBVIOUS
<1>2. \A i \in 1 .. Len(o) + Len(e) : (i \in DOMAIN o /\ p[i] = o[i]) \/ (i - Len(o) \in DOMAIN e /\ p[i] = e[i - Len(o)])
  OBVIOUS
<1> HIDE DEF p
<1>3. \A i \in DOMAIN p : p[i].m # m
  BY <1>1, <1>2
<1>4. QED BY <1>3 DEF p

LEMMA HandsOverOthers ==
  ASSUME NEW q \in Seq(Message), NEW e, NEW m \in Message, m \notin ToSet(q), HandsOver(q, e)
  PROVE  /\ \A i \in DOMAIN e : e[i].m # m
         /\ m \notin ToSet(queue')
         /\ m \in Posts(up') <=> m \in Posts(up)
<1>1. (\A n \in ToSet(q) : n # m) /\ m # 0
  BY DEF Message
<1>0. ToSet(<<>>) = {}
  BY DEF ToSet
<1>2. \A i \in DOMAIN e : e[i] = Do("read", 0) \/ \E n \in ToSet(q) : e[i] = Do("delete", n)
  BY DEF HandsOver
<1>3. \A i \in DOMAIN e : e[i].m # m
  BY <1>1, <1>2 DEF Do
<1>4. (m \notin ToSet(queue')) /\ (m \in Posts(up') <=> m \in Posts(up))
  BY <1>0 DEF HandsOver
<1>5. QED BY <1>3, <1>4

LEMMA NextUnwritten ==
  ASSUME SendOutboxAssumption, Typed, SeenRows, Unwritten, [Next]_vars PROVE Unwritten'
<1> SUFFICES ASSUME NEW m \in Message, home'[m] = None PROVE Absent(m)'
  BY DEF Unwritten
<1>0. 0 \notin Message /\ m # 0
  BY DEF Message
<1>1. home[m] = None /\ \A k \in Message : home' = [home EXCEPT ![k] = active] /\ active # None => k # m
  <2>1. home \in [Message -> Channel \cup {None}]
    BY DEF Typed, HistoryTyped
  <2>2. UNCHANGED home \/ \E k \in Message : home' = [home EXCEPT ![k] = active] /\ active # None
    BY DEF Next, Send, Retry, Timeout, Select, SelectWorkspace, Clear, Open, Receive, Welcomed, Echoed, Fetched, Synced,
           RelayReads, RelayKnows, Inject, Answer, Refuse, Drop, Transact, Reload, Logout, Fault, vars
  <2>3. QED BY <2>1, <2>2
<1>2. Absent(m)
  BY <1>1 DEF Unwritten
<1>3. /\ local \in [Message -> Status] /\ bubbles \in [Message -> Status] /\ posted \in [Message -> Nat]
      /\ posting \in [Message -> Nat] /\ StoreTyped /\ QueueTyped /\ up \in Seq(UpFrame) /\ ops \in Seq(Transaction) /\ queue \in Seq(Message)
  BY DEF Typed, PageTyped, HistoryTyped, WireTyped, RelayTyped, StoreTyped, QueueTyped
<1>4. ASSUME NEW k \in Message, k # m, Dispatched(k), UNCHANGED <<posted, posting, stored>>
      PROVE  /\ posted'[m] = 0 /\ posting'[m] = 0 /\ m \notin stored' /\ m \notin ToSet(queue') /\ m \notin Posts(up')
             /\ \A i \in DOMAIN ops' : ops'[i].m # m
  <2>1. posted'[m] = 0 /\ posting'[m] = 0 /\ m \notin stored'
    BY <1>2, <1>4 DEF Absent
  <2>2. m \notin Posts(Append(up, Post(k)))
    <3>1. Post(k) \in UpFrame /\ (\A n \in Message : Post(k) = Post(n) => n = k)
      BY <1>4, OtherFrames DEF Post
    <3>2. m \notin Posts(up)
      BY <1>2 DEF Absent
    <3>3. \/ Posts(Append(up, Post(k))) = Posts(up)
          \/ \E n \in Message : Post(k) = Post(n) /\ Posts(Append(up, Post(k))) = Posts(up) \cup {n}
      BY <1>3, <3>1, PostsAre
    <3>4. QED BY <1>4, <3>1, <3>2, <3>3
  <2>3. m \notin ToSet(queue')
    BY <1>2, <1>4 DEF Dispatched, Absent
  <2>4. Do("put", k).m # m
    BY <1>4 DEF Do
  <2>5. \A i \in DOMAIN ops' : ops'[i].m # m
    <3>1. CASE UNCHANGED ops
      BY <1>2, <3>1 DEF Absent
    <3>2. CASE ops' = Append(ops, Do("put", k))
      BY <1>2, <1>3, <2>4, <3>2, AppendedOps DEF Absent
    <3>3. QED BY <1>4, <3>1, <3>2 DEF Dispatched
  <2>6. QED BY <1>2, <1>4, <2>1, <2>2, <2>3, <2>5 DEF Dispatched, Absent
<1>5. CASE Send
  <2>1. PICK k \in Message : /\ home' = [home EXCEPT ![k] = active] /\ local' = [local EXCEPT ![k] = "pending"]
                             /\ Dispatch(k)
    BY <1>5 DEF Send
  <2>2. k # m /\ Dispatched(k)
    BY <1>1, <1>5, <2>1, DispatchIs DEF Send
  <2>3. UNCHANGED <<bubbles, posted, posting, stored>> /\ local'[m] = local[m]
    BY <1>3, <1>5, <2>1, <2>2 DEF Send, relay
  <2>4. QED BY <1>2, <1>4, <2>2, <2>3 DEF Absent
<1>6. CASE Retry
  <2>1. PICK k \in Message : /\ local[k] = "failed" /\ local' = [local EXCEPT ![k] = "pending"]
                             /\ bubbles' = Repending(bubbles, k) /\ Dispatch(k)
    BY <1>6 DEF Retry
  <2>2. k # m /\ Dispatched(k)
    BY <1>2, <2>1, DispatchIs DEF Absent, SendOutboxAssumption
  <2>3. UNCHANGED <<posted, posting, stored>> /\ local'[m] = local[m] /\ bubbles'[m] = bubbles[m]
    BY <1>3, <1>6, <2>1, <2>2 DEF Retry, Repending, relay
  <2>4. QED BY <1>2, <1>4, <2>2, <2>3 DEF Absent
<1>7. CASE Timeout
  <2>1. PICK k \in watch : local' = Failing(local, k) /\ bubbles' = Failing(bubbles, k)
    BY <1>7 DEF Timeout
  <2>2. local'[m] = None /\ bubbles'[m] = None
    BY <1>2, <1>3, <2>1 DEF Failing, Absent
  <2>3. QED BY <1>2, <1>7, <2>2 DEF Timeout, wire, relay, idb, Absent
<1>8. CASE Select \/ SelectWorkspace
  <2>1. local' = NoRows /\ UNCHANGED <<queue, bubbles, idb, posted, posting>>
    BY <1>8 DEF Select, SelectWorkspace, Clear, relay
  <2>2. UNCHANGED up \/ \E c \in Channel, who \in {"selectChannel", "selectWorkspace"} : up' = Append(up, Fetch(c, who))
    BY <1>8, OpenedChannels DEF Select, SelectWorkspace, Typed
  <2>3. Posts(up') = Posts(up)
    <3>1. CASE UNCHANGED up
      BY <3>1
    <3>2. ASSUME NEW f \in UpFrame, \A n \in Message : f # Post(n), up' = Append(up, f) PROVE Posts(up') = Posts(up)
      BY <1>3, <3>2, NoPost
    <3>3. QED BY <2>2, <3>1, <3>2, OtherFrames
  <2>4. QED BY <1>2, <2>1, <2>3 DEF idb, Absent, NoRows
<1>9. CASE Open
  <2>1. Posts(up') = {}
    <3>1. up' = <<[kind |-> "auth"]>>
      BY <1>9 DEF Open
    <3>2. up' = Append(<<>>, [kind |-> "auth"]) /\ <<>> \in Seq(UpFrame)
      BY <3>1
    <3>3. Posts(<<>>) = {}
      BY DEF Posts
    <3>4. QED BY <3>2, <3>3, NoPost, OtherFrames
  <2>2. QED BY <1>2, <1>9, <2>1 DEF Open, relay, list, idb, Absent
<1>10. CASE Receive
  <2>1. CASE Welcomed
    <3>1. PICK e : WelcomedBy(e)
      BY <2>1, WelcomedIs
    <3>2. (\A i \in DOMAIN e : e[i].m # m) /\ m \notin ToSet(queue') /\ m \notin Posts(up')
      <4>1. HandsOver(queue, e) /\ m \notin ToSet(queue) /\ m \notin Posts(up)
        BY <1>2, <3>1 DEF WelcomedBy, Absent
      <4>2. QED BY <1>3, <4>1, HandsOverOthers
    <3>3. \A i \in DOMAIN ops' : ops'[i].m # m
      BY <1>2, <1>3, <3>1, <3>2, ExtendedOps DEF WelcomedBy, Absent
    <3>4. QED BY <1>2, <2>1, <3>2, <3>3 DEF Welcomed, relay, Absent
  <2>2. CASE Head(down).kind = "echo" /\ Echoed(Head(down)) /\ down # <<>>
    <3>1. PICK r \in Row : /\ Head(down) = Echo(r)
                           /\ \/ EchoedHere(r[1])
                                 /\ local' = IF r \in shown THEN local ELSE Collapse(local, {r})
                              \/ UNCHANGED <<local, shown, watch, ops, queue, bubbles>>
      BY <2>2, EchoedIs
    <3>2. r[1] # m /\ r[1] \in Message
      <4>1. Rows(Head(down)) = {r} /\ 1 \in DOMAIN down /\ Head(down) = down[1]
        BY <2>2, <3>1 DEF Rows, Echo, Typed, WireTyped
      <4>2. r[2] <= posted[r[1]] /\ r[2] \in Nat \ {0} /\ r[1] \in Message
        BY <4>1 DEF SeenRows, Row
      <4>3. QED BY <1>2, <4>2 DEF Absent
    <3>3. UNCHANGED <<up, stored, posted, posting>>
      BY <2>2 DEF Echoed, relay
    <3>4. CASE UNCHANGED <<local, shown, watch, ops, queue, bubbles>>
      BY <1>2, <3>3, <3>4 DEF Absent
    <3>5. CASE /\ EchoedHere(r[1]) /\ local' = IF r \in shown THEN local ELSE Collapse(local, {r})
      <4>1. local'[m] = None /\ bubbles'[m] = None /\ m \notin ToSet(queue')
        BY <1>2, <1>3, <3>2, <3>5, Collapsed DEF EchoedHere, Absent
      <4>2. Do("delete", r[1]).m # m
        BY <3>2 DEF Do
      <4>3. \A i \in DOMAIN ops' : ops'[i].m # m
        BY <1>2, <1>3, <3>5, <4>2, AppendedOps DEF EchoedHere, Absent
      <4>4. QED BY <1>2, <3>3, <4>1, <4>3 DEF Absent
    <3>6. QED BY <3>1, <3>4, <3>5
  <2>3. CASE Fetched(Head(down))
    <3>1. local'[m] = None
      BY <1>2, <2>3 DEF Fetched, Reapplied, NoRows, Absent
    <3>2. QED BY <1>2, <2>3, <3>1 DEF Fetched, relay, idb, Absent
  <2>4. CASE Synced(Head(down))
    <3>1. local'[m] = None
      BY <1>2, <2>4, Collapsed DEF Synced, Added, NoRows, Absent
    <3>2. Posts(up') = Posts(up)
      <4>1. up' = Ask(up, active # None /\ shown' = {} /\ local' = NoRows /\ sock = "authed")
        BY <2>4 DEF Synced
      <4>2. QED BY <1>3, <4>1, Asked DEF Typed
    <3>3. QED BY <1>2, <2>4, <3>1, <3>2 DEF Synced, relay, idb, Absent
  <2>5. QED BY <1>10, <2>1, <2>2, <2>3, <2>4, ReceiveIs
<1>11. CASE RelayReads
  <2>1. up # <<>> /\ up' = Tail(up)
    BY <1>11 DEF RelayReads
  <2>2. m \notin Posts(up') /\ Head(up) # Post(m)
    <3>1. Head(up) = Post(m) => m \in Posts(up)
      <4>1. 1 \in 1 .. Len(up) /\ up[1] = Head(up)
        BY <1>3, <2>1
      <4>2. QED BY <1>3, <4>1, PostsAre
    <3>2. QED BY <1>2, <1>3, <2>1, <3>1, PostsOfTail DEF Absent
  <2>3. posting'[m] = 0
    <3>1. Head(up) \in UpFrame
      BY <1>3, <2>1, PostsOfTail
    <3>2. IsPost(Head(up)) => Head(up).m \in Message /\ Head(up).m # m
      BY <2>2, <3>1 DEF UpFrame, Request, Sync, IsPost, Post, Fetch
    <3>3. QED BY <1>2, <1>3, <1>11, <3>2 DEF RelayReads, Absent
  <2>4. QED BY <1>2, <1>11, <2>2, <2>3 DEF RelayReads, list, idb, Absent
<1>12. CASE RelayKnows \/ Answer \/ UNCHANGED vars
  BY <1>2, <1>12 DEF RelayKnows, Answer, vars, wire, relay, list, idb, Absent
<1>16. CASE Inject
  <2>1. PICK k \in Message : /\ posting[k] > 0 /\ posting' = [posting EXCEPT ![k] = @ - 1]
                             /\ posted' = [posted EXCEPT ![k] = @ + 1]
    BY <1>16 DEF Inject
  <2>2. posting'[m] = 0 /\ posted'[m] = 0
    BY <1>2, <1>3, <2>1 DEF Absent
  <2>3. QED BY <1>2, <1>16, <2>2 DEF Inject, list, idb, Absent
<1>17. CASE Refuse
  <2>1. UNCHANGED posting \/ \E k \in Message : posting[k] > 0 /\ posting' = [posting EXCEPT ![k] = @ - 1]
    BY <1>17 DEF Refuse
  <2>2. posting'[m] = 0
    BY <1>2, <1>3, <2>1 DEF Absent
  <2>3. QED BY <1>2, <1>17, <2>2 DEF Refuse, wire, list, idb, Absent
<1>13. CASE Drop \/ Reload \/ Logout
  <2>1. Posts(<<>>) = {} /\ ToSet(<<>>) = {}
    BY DEF Posts, ToSet
  <2>2. up' = <<>> /\ UNCHANGED <<posted, posting>> /\ UNCHANGED stored
    BY <1>13 DEF Drop, Reload, Logout, Fault, idb
  <2>3. CASE Drop
    BY <1>2, <2>1, <2>2, <2>3 DEF Drop, list, idb, Absent
  <2>4. CASE Reload \/ Logout
    <3>1. local'[m] = None /\ bubbles'[m] = None /\ queue' = <<>>
      BY <2>4 DEF Reload, Logout, Unpage, NoRows
    <3>2. \A i \in DOMAIN ops' : ops'[i].m # m
      <4>1. CASE ops' = <<>>
        BY <4>1
      <4>2. CASE ops' = Append(ops, Do("clear", 0))
        <5>1. Do("clear", 0).m # m
          BY <1>0 DEF Do
        <5>2. QED BY <1>2, <1>3, <4>2, <5>1, AppendedOps DEF Absent
      <4>3. QED BY <2>4, <4>1, <4>2 DEF Reload, Logout
    <3>3. QED BY <1>2, <2>1, <2>2, <3>1, <3>2 DEF Absent
  <2>5. QED BY <1>13, <2>3, <2>4
<1>14. CASE Transact
  <2>1. ops # <<>> /\ Tail(ops) \in Seq(Transaction) /\ Head(ops) \in Transaction /\ Head(ops).m # m
        /\ \A i \in DOMAIN Tail(ops) : Tail(ops)[i].m # m
    <3>1. ops # <<>> /\ Tail(ops) \in Seq(Transaction) /\ Head(ops) \in Transaction /\ Head(ops) = ops[1] /\ 1 \in DOMAIN ops
          /\ \A i \in DOMAIN Tail(ops) : Tail(ops)[i] = ops[i+1] /\ i+1 \in DOMAIN ops
      BY <1>3, <1>14 DEF Transact
    <3>2. QED BY <1>2, <3>1 DEF Absent
  <2>2. CASE Head(ops).op = "read"
    <3>1. Rehydrate
      BY <1>14, <2>2 DEF Transact
    <3>2. PICK q, e : RehydratedBy(q, e)
      BY <2>1, <3>1, RehydrateIs
    <3>3. m \notin ToSet(q) /\ q \in Seq(Message) /\ m \notin stored
      BY <1>2, <3>2 DEF RehydratedBy, Absent
    <3>4. (\A i \in DOMAIN e : e[i].m # m) /\ m \notin ToSet(queue') /\ m \notin Posts(up')
      <4>1. HandsOver(q, e) /\ m \notin Posts(up)
        BY <1>2, <3>2 DEF RehydratedBy, Absent
      <4>2. QED BY <3>3, <4>1, HandsOverOthers
    <3>5. \A i \in DOMAIN ops' : ops'[i].m # m
      BY <2>1, <3>2, <3>4, ExtendedOps DEF RehydratedBy
    <3>6. local'[m] = None /\ bubbles'[m] = None
      BY <1>2, <3>1, <3>3 DEF Rehydrate, Absent
    <3>7. QED BY <1>2, <1>14, <3>1, <3>4, <3>5, <3>6 DEF Transact, Rehydrate, relay, Absent
  <2>3. CASE Head(ops).op # "read"
    <3>1. stored' = Commit(stored, Head(ops)) /\ ops' = Tail(ops) /\ UNCHANGED <<up, local, queue, bubbles, posted, posting>>
      BY <1>14, <2>3 DEF Transact, relay
    <3>2. m \notin stored'
      BY <1>2, <2>1, <3>1 DEF Commit, Transaction, Do, Absent
    <3>3. QED BY <1>2, <2>1, <3>1, <3>2 DEF Absent
  <2>4. QED BY <2>2, <2>3
<1>15. QED BY <1>5, <1>6, <1>7, <1>8, <1>9, <1>10, <1>11, <1>12, <1>13, <1>14, <1>16, <1>17 DEF Next

------------------------------------------------------------------------------
(* The page's own bubbles. *)

\* The bubbles of this page's own sends stay right.
LEMMA NextFresh ==
  ASSUME SendOutboxAssumption, Typed, Unwritten, SeenRows, EchoFirst, FreshBubblesAreRight, [Next]_vars
  PROVE  FreshBubblesAreRight'
<1> SUFFICES ASSUME NEW m \in Message, local'[m] # None, bubbles'[m] = None
             PROVE  (local'[m] = "pending" => m \in watch') /\ m \notin Settled(shown')
  BY DEF FreshBubblesAreRight, Settled
<1> DEFINE Right == (local'[m] = "pending" => m \in watch') /\ m \notin Settled(shown')
<1>0. Right => (local'[m] = "pending" => m \in watch') /\ m \notin Settled(shown')
  OBVIOUS
<1>1. /\ local \in [Message -> Status] /\ bubbles \in [Message -> Status] /\ posted \in [Message -> Nat]
      /\ home \in [Message -> Channel \cup {None}] /\ shown \subseteq Row /\ None \notin {"pending", "failed"}
      /\ None \notin Channel /\ active \in Channel \cup {None}
  BY DEF Typed, PageTyped, HistoryTyped, SendOutboxAssumption
<1>2. ASSUME local[m] # None, bubbles[m] = None, local'[m] = "pending" => local[m] = "pending" \/ m \in watch',
             local[m] = "pending" /\ m \in watch => m \in watch', shown' = shown
      PROVE  Right
  <2>1. (local[m] = "pending" => m \in watch) /\ m \notin Settled(shown)
    BY <1>2 DEF FreshBubblesAreRight
  <2>2. Settled(shown') = Settled(shown)
    BY <1>2 DEF Settled
  <2>3. QED BY <1>2, <2>1, <2>2
<1>3. CASE Send
  <2>1. PICK k \in Message : /\ Sent = 1 .. (k - 1)
                             /\ local' = [local EXCEPT ![k] = "pending"] /\ Dispatch(k)
    BY <1>3 DEF Send
  <2>2. Dispatched(k) /\ UNCHANGED <<bubbles, shown>>
    BY <1>3, <2>1, DispatchIs DEF Send
  <2>3. CASE m = k
    <3>1. home[k] = None
      BY <2>1 DEF Sent, Message
    <3>2. posted[k] = 0
      BY <3>1 DEF Unwritten, Absent
    <3>3. k \notin Settled(shown)
      BY <1>1, <3>2 DEF SeenRows, Settled, Row
    <3>4. m \in watch' /\ m \notin Settled(shown')
      BY <2>2, <2>3, <3>3 DEF Dispatched, Settled
    <3>5. QED BY <3>4
  <2>4. CASE m # k
    <3>2. local'[m] = local[m] /\ (m \in watch => m \in watch')
      BY <1>1, <2>1, <2>2, <2>4 DEF Dispatched
    <3>3. QED BY <1>2, <2>2, <3>2
  <2>5. QED BY <2>3, <2>4
<1>4. CASE Retry
  <2>1. PICK k \in Message : /\ local[k] = "failed" /\ local' = [local EXCEPT ![k] = "pending"]
                             /\ bubbles' = Repending(bubbles, k) /\ Dispatch(k)
    BY <1>4 DEF Retry
  <2>2. Dispatched(k) /\ UNCHANGED shown
    BY <1>4, <2>1, DispatchIs DEF Retry
  <2>3. bubbles[m] = None
    BY <1>1, <2>1 DEF Repending
  <2>4. (m = k => m \in watch') /\ (m # k => local'[m] = local[m]) /\ (m \in watch => m \in watch') /\ local[m] # None
    BY <1>1, <2>1, <2>2 DEF Dispatched
  <2>5. QED BY <1>2, <2>2, <2>3, <2>4
<1>5. CASE Timeout
  <2>1. PICK k \in watch : /\ watch' = watch \ {k} /\ local' = Failing(local, k) /\ bubbles' = Failing(bubbles, k)
    BY <1>5 DEF Timeout
  <2>2. shown' = shown /\ k \in Message
    BY <1>5 DEF Timeout, Typed, PageTyped
  <2>3. /\ m = k => local'[m] = (IF local[m] = None THEN None ELSE "failed")
                    /\ bubbles'[m] = (IF bubbles[m] = None THEN None ELSE "failed")
        /\ m # k => local'[m] = local[m] /\ bubbles'[m] = bubbles[m] /\ (m \in watch => m \in watch')
    BY <1>1, <2>1, <2>2 DEF Failing
  <2>4. CASE m = k
    <3>1. local[m] # None /\ bubbles[m] = None /\ local'[m] # "pending"
      BY <1>1, <2>3, <2>4
    <3>2. m \notin Settled(shown)
      BY <3>1 DEF FreshBubblesAreRight
    <3>3. QED BY <2>2, <3>1, <3>2 DEF Settled
  <2>5. CASE m # k
    BY <1>2, <2>2, <2>3, <2>5
  <2>6. QED BY <2>4, <2>5
<1>6. CASE Select \/ SelectWorkspace \/ Reload \/ Logout
  <2>1. local'[m] = None
    BY <1>6 DEF Select, SelectWorkspace, Clear, Reload, Logout, Unpage, NoRows
  <2>2. QED BY <2>1
<1>7. CASE Open \/ RelayReads \/ RelayKnows \/ Inject \/ Answer \/ Refuse \/ Drop \/ UNCHANGED vars
  <2>1. UNCHANGED <<local, shown, bubbles, watch>>
    BY <1>7 DEF Open, RelayReads, RelayKnows, Inject, Answer, Refuse, Drop, list, vars
  <2>2. QED BY <1>2, <2>1
<1>8. CASE Receive
  <2>1. CASE Welcomed
    <3>1. UNCHANGED <<local, shown, bubbles, watch>>
      BY <2>1 DEF Welcomed
    <3>2. QED BY <1>2, <3>1
  <2>2. CASE Head(down).kind = "echo" /\ Echoed(Head(down)) /\ down # <<>>
    <3>1. PICK r \in Row : /\ Head(down) = Echo(r)
                           /\ \/ home[r[1]] = active /\ EchoedHere(r[1]) /\ blank' = FALSE
                                 /\ shown' = shown \cup {r} /\ watch' = Sweep(local')
                                 /\ local' = IF r \in shown THEN local ELSE Collapse(local, {r})
                              \/ UNCHANGED <<local, shown, watch, ops, queue, bubbles>>
      BY <2>2, EchoedIs
    <3>2. CASE UNCHANGED <<local, shown, watch, ops, queue, bubbles>>
      BY <1>2, <3>2
    <3>3. CASE /\ EchoedHere(r[1]) /\ shown' = shown \cup {r} /\ watch' = Sweep(local')
               /\ local' = IF r \in shown THEN local ELSE Collapse(local, {r})
      <4>1. r \notin shown
        <5>1. Head(down) = down[1] /\ 1 \in DOMAIN down /\ down[1].kind = "echo" /\ down[1].row = r
          BY <2>2, <3>1 DEF Typed, WireTyped, Echo
        <5>2. QED BY <5>1 DEF EchoFirst
      <4>2. local' = Collapse(local, {r})
        BY <3>3, <4>1
      <4>3. Settled({r}) = {r[1]}
        BY DEF Settled
      <4>4. m # r[1] /\ local'[m] = local[m]
        BY <4>2, <4>3, Collapsed
      <4>5. bubbles[m] = None
        BY <1>1, <3>3, <4>4 DEF EchoedHere
      <4>6. (local[m] = "pending" => m \in watch) /\ m \notin Settled(shown)
        BY <4>4, <4>5 DEF FreshBubblesAreRight
      <4>7. m \notin Settled(shown')
        BY <3>3, <4>4, <4>6 DEF Settled
      <4>8. m \in watch => m \in watch'
        BY <3>3, <4>4 DEF Sweep
      <4>9. QED BY <4>4, <4>6, <4>7, <4>8
    <3>4. QED BY <3>1, <3>2, <3>3
  <2>3. CASE Fetched(Head(down))
    <3>1. UNCHANGED <<bubbles, watch>>
      BY <2>3 DEF Fetched
    <3>2. local' = local /\ shown' = shown
      <4>1. ~(local' = Reapplied)
        BY <3>1 DEF Reapplied
      <4>2. ~(local' = NoRows)
        BY DEF NoRows
      <4>3. QED BY <2>3, <4>1, <4>2 DEF Fetched
    <3>3. QED BY <1>2, <3>1, <3>2
  <2>4. CASE Synced(Head(down))
    <3> DEFINE news == In(active, Head(down).rows) \ shown
    <3>0. ~(local' = NoRows)
      BY DEF NoRows
    <3>1. shown' = shown \cup news /\ local' = Collapse(local, news) /\ UNCHANGED <<bubbles, watch>>
      BY <2>4, <3>0 DEF Synced, Added
    <3> HIDE DEF news
    <3>2. m \notin Settled(news) /\ local'[m] = local[m]
      BY <3>1, Collapsed
    <3>3. (local[m] = "pending" => m \in watch) /\ m \notin Settled(shown)
      BY <3>1, <3>2 DEF FreshBubblesAreRight
    <3>4. m \notin Settled(shown')
      BY <3>1, <3>2, <3>3 DEF Settled
    <3>5. QED BY <3>1, <3>2, <3>3, <3>4
  <2>5. QED BY <1>8, <2>1, <2>2, <2>3, <2>4, ReceiveIs
<1>9. CASE Transact
  <2>1. shown' = shown
    BY <1>9 DEF Transact
  <2>2. CASE Head(ops).op = "read"
    <3>1. Rehydrate
      BY <1>9, <2>2 DEF Transact
    <3>2. m \notin stored /\ bubbles[m] = None
      BY <1>1, <3>1 DEF Rehydrate
    <3>3. local'[m] = local[m] /\ (m \in watch => m \in watch')
      BY <3>1, <3>2 DEF Rehydrate
    <3>4. QED BY <1>2, <2>1, <3>2, <3>3
  <2>3. CASE Head(ops).op # "read"
    <3>1. UNCHANGED <<local, bubbles, watch>>
      BY <1>9, <2>3 DEF Transact
    <3>2. QED BY <1>2, <2>1, <3>1
  <2>4. QED BY <2>2, <2>3
<1>10. Right
  BY <1>3, <1>4, <1>5, <1>6, <1>7, <1>8, <1>9 DEF Next
<1>11. QED BY <1>0, <1>10

------------------------------------------------------------------------------
(* Reads that are due, when transactions begin and end. *)

\* What transactions that begin, or the first one's end, do to what is due.
LEMMA Begun ==
  ASSUME NEW s, NEW o \in Seq(Transaction), NEW e \in Seq(Transaction), NEW m \in Message, NEW first \in BOOLEAN
  PROVE  /\ (\A i \in DOMAIN e : e[i] # Do("read", 0) /\ (first => e[i] # Do("put", m))) /\ DueIn(s, o \o e, first, m)
            => DueIn(s, o, first, m)
         /\ (\A i \in DOMAIN e : ~Removes(e[i], m)) /\ DueIn(s, o, first, m) => DueIn(s, o \o e, first, m)
<1> DEFINE p == o \o e
<1>1. /\ Len(p) = Len(o) + Len(e) /\ Len(o) \in Nat /\ Len(e) \in Nat
      /\ \A i \in 1 .. Len(o) : p[i] = o[i] /\ i \in 1 .. Len(p)
      /\ \A i \in 1 .. Len(p) : i > Len(o) => p[i] = e[i - Len(o)] /\ i - Len(o) \in 1 .. Len(e)
      /\ \A i \in 1 .. Len(e) : e[i] \in Transaction
  OBVIOUS
<1>2. /\ \A n \in 1 .. Len(o) : RecordsOf(s, p, n) = RecordsOf(s, o, n)
      /\ m \in RecordsOf(s, o, Len(o)) /\ (\A i \in DOMAIN e : ~Removes(e[i], m)) => m \in RecordsOf(s, p, Len(p))
      /\ m \in RecordsOf(s, p, Len(p)) /\ (\A i \in DOMAIN e : e[i] # Do("put", m)) => m \in RecordsOf(s, o, Len(o))
  <2>1. \A n \in 0 .. Len(o) : RecordsOf(s, o \o e, n) = RecordsOf(s, o, n)
    BY ExtendOps
  <2>2. m \in RecordsOf(s, o, Len(o)) /\ (\A i \in DOMAIN e : ~Removes(e[i], m)) => m \in RecordsOf(s, p, Len(p))
    BY ExtendOps, Zenon
  <2>3. m \in RecordsOf(s, p, Len(p)) /\ (\A i \in DOMAIN e : e[i] # Do("put", m)) => m \in RecordsOf(s, o, Len(o))
    BY ExtendOps, Zenon
  <2> HIDE DEF p
  <2>4. \A n \in 1 .. Len(o) : n \in 0 .. Len(o)
    BY <1>1
  <2>5. \A n \in 1 .. Len(o) : RecordsOf(s, p, n) = RecordsOf(s, o, n)
    BY <2>1, <2>4 DEF p
  <2>6. QED BY <2>2, <2>3, <2>5
<1> HIDE DEF p
<1>3. ASSUME \A i \in DOMAIN e : e[i] # Do("read", 0) /\ (first => e[i] # Do("put", m)), DueIn(s, p, first, m)
      PROVE  DueIn(s, o, first, m)
  <2>1. \A i \in 1 .. Len(e) : e[i].op # "read"
    BY <1>1, <1>3 DEF Transaction, Do
  <2>2. CASE first /\ m \in RecordsOf(s, p, Len(p))
    BY <1>2, <1>3, <2>2 DEF DueIn
  <2>3. ASSUME NEW i \in 1 .. Len(p), p[i].op = "read", m \in RecordsOf(s, p, i) PROVE DueIn(s, o, first, m)
    <3>1. i \in 1 .. Len(o)
      <4>1. i > Len(o) => p[i] = e[i - Len(o)] /\ i - Len(o) \in 1 .. Len(e)
        BY <1>1
      <4>2. ~(i > Len(o))
        BY <2>1, <2>3, <4>1
      <4>3. QED BY <1>1, <4>2
    <3>2. o[i].op = "read" /\ m \in RecordsOf(s, o, i)
      BY <1>1, <1>2, <2>3, <3>1
    <3>3. QED BY <3>1, <3>2 DEF DueIn
  <2>4. QED BY <1>3, <2>2, <2>3 DEF DueIn
<1>4. ASSUME \A i \in DOMAIN e : ~Removes(e[i], m), DueIn(s, o, first, m) PROVE DueIn(s, p, first, m)
  BY <1>1, <1>2, <1>4 DEF DueIn
<1>5. QED BY <1>3, <1>4 DEF p

\* A page that has just begun starts to read.
LEMMA ReadBegun ==
  ASSUME NEW s, NEW o \in Seq(Transaction), NEW e \in Seq(Transaction), NEW m \in Message,
         Len(e) > 0, e[Len(e)] = Do("read", 0), \A i \in 1 .. Len(e) - 1 : e[i] # Do("read", 0)
  PROVE  /\ (\A i \in DOMAIN e : e[i] # Do("put", m)) /\ DueIn(s, o \o e, FALSE, m) => DueIn(s, o, TRUE, m)
         /\ (\A i \in DOMAIN e : ~Removes(e[i], m)) /\ DueIn(s, o, TRUE, m) => DueIn(s, o \o e, FALSE, m)
<1> DEFINE p == o \o e
<1>1. /\ Len(p) = Len(o) + Len(e) /\ Len(o) \in Nat /\ Len(e) \in Nat /\ Len(p) \in 1 .. Len(p)
      /\ \A i \in 1 .. Len(o) : p[i] = o[i] /\ i \in 1 .. Len(p)
      /\ \A i \in 1 .. Len(p) : i > Len(o) => p[i] = e[i - Len(o)] /\ i - Len(o) \in 1 .. Len(e)
      /\ \A i \in 1 .. Len(e) : e[i] \in Transaction
      /\ p[Len(p)] = e[Len(e)]
  OBVIOUS
<1>2. /\ \A n \in 1 .. Len(o) : RecordsOf(s, p, n) = RecordsOf(s, o, n)
      /\ m \in RecordsOf(s, o, Len(o)) /\ (\A i \in DOMAIN e : ~Removes(e[i], m)) => m \in RecordsOf(s, p, Len(p))
      /\ m \in RecordsOf(s, p, Len(p)) /\ (\A i \in DOMAIN e : e[i] # Do("put", m)) => m \in RecordsOf(s, o, Len(o))
  <2>1. \A n \in 0 .. Len(o) : RecordsOf(s, o \o e, n) = RecordsOf(s, o, n)
    BY ExtendOps
  <2>2. m \in RecordsOf(s, o, Len(o)) /\ (\A i \in DOMAIN e : ~Removes(e[i], m)) => m \in RecordsOf(s, p, Len(p))
    BY ExtendOps, Zenon
  <2>3. m \in RecordsOf(s, p, Len(p)) /\ (\A i \in DOMAIN e : e[i] # Do("put", m)) => m \in RecordsOf(s, o, Len(o))
    BY ExtendOps, Zenon
  <2> HIDE DEF p
  <2>4. \A n \in 1 .. Len(o) : n \in 0 .. Len(o)
    BY <1>1
  <2>5. \A n \in 1 .. Len(o) : RecordsOf(s, p, n) = RecordsOf(s, o, n)
    BY <2>1, <2>4 DEF p
  <2>6. QED BY <2>2, <2>3, <2>5
<1>0. Len(p) = Len(o) + Len(e) /\ Len(o) \in Nat /\ Len(e) \in Nat
  OBVIOUS
<1> HIDE DEF p
<1>3. p[Len(p)].op = "read" /\ \A i \in 1 .. Len(e) - 1 : e[i].op # "read"
  BY <1>1 DEF Transaction, Do
<1>4. ASSUME \A i \in DOMAIN e : e[i] # Do("put", m), DueIn(s, p, FALSE, m) PROVE DueIn(s, o, TRUE, m)
  <2>1. PICK i \in 1 .. Len(p) : p[i].op = "read" /\ m \in RecordsOf(s, p, i)
    BY <1>4 DEF DueIn
  <2>2. i \in 1 .. Len(o) \/ i = Len(p)
    <3>1. ASSUME i > Len(o), i # Len(p) PROVE FALSE
      <4>1. PICK k \in 1 .. Len(e) : k = i - Len(o) /\ p[i] = e[k]
        BY <1>1, <3>1
      <4>2. k # Len(e)
        BY <1>0, <3>1, <4>1
      <4>3. k \in 1 .. Len(e) - 1
        BY <1>0, <4>2
      <4>4. QED BY <1>3, <2>1, <4>1, <4>3
    <3>2. QED BY <1>1, <3>1
  <2>3. CASE i \in 1 .. Len(o)
    BY <1>1, <1>2, <2>1, <2>3 DEF DueIn
  <2>4. CASE i = Len(p)
    BY <1>2, <1>4, <2>1, <2>4 DEF DueIn
  <2>5. QED BY <2>2, <2>3, <2>4
<1>5. ASSUME \A i \in DOMAIN e : ~Removes(e[i], m), DueIn(s, o, TRUE, m) PROVE DueIn(s, p, FALSE, m)
  <2>1. CASE m \in RecordsOf(s, o, Len(o))
    BY <1>1, <1>2, <1>3, <1>5, <2>1 DEF DueIn
  <2>2. ASSUME NEW i \in 1 .. Len(o), o[i].op = "read", m \in RecordsOf(s, o, i) PROVE DueIn(s, p, FALSE, m)
    BY <1>1, <1>2, <2>2 DEF DueIn
  <2>3. QED BY <1>5, <2>1, <2>2 DEF DueIn
<1>6. QED BY <1>4, <1>5 DEF p

\* A transaction that is no read of m ends.
LEMMA Ended ==
  ASSUME NEW s \in SUBSET Message, NEW o \in Seq(Transaction), o # <<>>, NEW m \in Message, NEW first \in BOOLEAN
  PROVE  LET c == Commit(s, Head(o))
         IN  /\ m \in RecordsOf(c, Tail(o), Len(Tail(o))) <=> m \in RecordsOf(s, o, Len(o))
             /\ DueIn(c, Tail(o), first, m) => DueIn(s, o, first, m)
             /\ DueIn(s, o, first, m) /\ Head(o).op # "read" => DueIn(c, Tail(o), first, m)
<1> DEFINE c == Commit(s, Head(o))
           t == Tail(o)
<1>1. /\ Len(t) = Len(o) - 1 /\ Len(o) \in Nat \ {0} /\ Head(o) = o[1]
      /\ \A i \in 1 .. Len(t) : t[i] = o[i+1] /\ i+1 \in 1 .. Len(o) /\ (i+1)-1 = i
      /\ \A i \in 2 .. Len(o) : o[i] = t[i-1] /\ i-1 \in 1 .. Len(t)
      /\ Len(o) \in 1 .. Len(o)
  OBVIOUS
<1>2. \A n \in 1 .. Len(o) : RecordsOf(c, t, n - 1) = RecordsOf(s, o, n)
  BY EndOp
<1> HIDE DEF c, t
<1>3. RecordsOf(c, t, Len(t)) = RecordsOf(s, o, Len(o))
  BY <1>1, <1>2
<1>4. \A i \in 1 .. Len(t) : RecordsOf(c, t, i) = RecordsOf(s, o, i+1)
  BY <1>1, <1>2
<1>5. \A i \in 2 .. Len(o) : RecordsOf(c, t, i-1) = RecordsOf(s, o, i)
  BY <1>1, <1>2
<1>6. DueIn(c, t, first, m) => DueIn(s, o, first, m)
  BY <1>1, <1>3, <1>4 DEF DueIn
<1>7. ASSUME DueIn(s, o, first, m), Head(o).op # "read" PROVE DueIn(c, t, first, m)
  <2>1. CASE first /\ m \in RecordsOf(s, o, Len(o))
    BY <1>3, <2>1 DEF DueIn
  <2>2. ASSUME NEW i \in 1 .. Len(o), o[i].op = "read", m \in RecordsOf(s, o, i) PROVE DueIn(c, t, first, m)
    <3>1. i \in 2 .. Len(o)
      BY <1>1, <1>7, <2>2
    <3>2. t[i-1].op = "read" /\ m \in RecordsOf(c, t, i-1) /\ i-1 \in 1 .. Len(t)
      BY <1>1, <1>5, <2>2, <3>1
    <3>3. QED BY <3>2 DEF DueIn
  <2>3. QED BY <1>7, <2>1, <2>2 DEF DueIn
<1>8. QED BY <1>3, <1>6, <1>7 DEF c, t

\* A message that no transaction concerns keeps its record, unless a clear comes.
LEMMA Unmentioned ==
  ASSUME NEW s, NEW o \in Seq(Transaction), NEW m \in Message, \A i \in DOMAIN o : o[i].m # m
  PROVE  /\ \A n \in 0 .. Len(o) : m \in RecordsOf(s, o, n) <=> m \in s /\ \A i \in 1 .. n : o[i].op # "clear"
         /\ KeptIn(s, o, m) <=> m \in s
<1>1. \A i \in 1 .. Len(o) : o[i] # Do("put", m) /\ o[i] # Do("delete", m)
  BY DEF Do
<1>2. ASSUME NEW n \in 0 .. Len(o)
      PROVE m \in RecordsOf(s, o, n) <=> m \in s /\ \A i \in 1 .. n : o[i].op # "clear"
  <2>1. \A i \in 1 .. n : i \in 1 .. Len(o)
    OBVIOUS
  <2>2. QED BY <1>1, <2>1 DEF RecordsOf, Removes
<1>3. KeptIn(s, o, m) <=> m \in s
  BY <1>1 DEF KeptIn
<1>4. QED BY <1>2, <1>3

LEMMA SeparatedBegins ==
  ASSUME NEW o \in Seq(Transaction), NEW e \in Seq(Transaction), NEW a \in BOOLEAN, NEW b \in BOOLEAN,
         SeparatedIn(o, a), b => a, \A i \in DOMAIN e : e[i] # Do("read", 0)
  PROVE  SeparatedIn(o \o e, b)
<1> DEFINE p == o \o e
<1>1. /\ Len(p) = Len(o) + Len(e) /\ Len(o) \in Nat /\ Len(e) \in Nat
      /\ \A i \in 1 .. Len(o) : p[i] = o[i] /\ i \in 1 .. Len(p)
      /\ \A i \in 1 .. Len(p) : i > Len(o) => p[i] = e[i - Len(o)] /\ i - Len(o) \in 1 .. Len(e)
      /\ \A i \in 1 .. Len(e) : e[i] \in Transaction
  OBVIOUS
<1> HIDE DEF p
<1>2. \A i \in 1 .. Len(e) : e[i].op # "read"
  BY <1>1 DEF Transaction, Do
<1>3. \A i \in 1 .. Len(p) : p[i].op = "read" => i \in 1 .. Len(o) /\ o[i].op = "read"
  BY <1>1, <1>2
<1>4. ASSUME NEW i \in 1 .. Len(p), p[i].op = "read"
      PROVE  /\ b => \E k \in i+1 .. Len(p) : p[k].op = "clear"
             /\ \A j \in i+1 .. Len(p) : p[j].op = "read" => \E k \in i+1 .. j : p[k].op = "clear"
  <2>1. i \in 1 .. Len(o) /\ o[i].op = "read"
    BY <1>3, <1>4
  <2>2. ASSUME b PROVE \E k \in i+1 .. Len(p) : p[k].op = "clear"
    <3>1. PICK k \in i+1 .. Len(o) : o[k].op = "clear"
      BY <2>1, <2>2 DEF SeparatedIn
    <3>2. k \in i+1 .. Len(p) /\ p[k].op = "clear"
      BY <1>1, <2>1, <3>1
    <3>3. QED BY <3>2
  <2>3. ASSUME NEW j \in i+1 .. Len(p), p[j].op = "read" PROVE \E k \in i+1 .. j : p[k].op = "clear"
    <3>1. j \in i+1 .. Len(o) /\ o[j].op = "read"
      BY <1>3, <2>1, <2>3
    <3>2. PICK k \in i+1 .. j : o[k].op = "clear"
      BY <2>1, <3>1 DEF SeparatedIn
    <3>3. k \in 1 .. Len(o)
      BY <1>1, <2>1, <3>1, <3>2
    <3>4. p[k].op = "clear"
      BY <1>1, <3>2, <3>3
    <3>5. QED BY <3>4
  <2>4. QED BY <2>2, <2>3
<1>5. QED BY <1>4 DEF SeparatedIn, p

LEMMA SeparatedReads ==
  ASSUME NEW o \in Seq(Transaction), NEW e \in Seq(Transaction), SeparatedIn(o, TRUE),
         Len(e) > 0, e[Len(e)] = Do("read", 0), \A i \in 1 .. Len(e) - 1 : e[i] # Do("read", 0)
  PROVE  SeparatedIn(o \o e, FALSE)
<1> DEFINE p == o \o e
<1>1. /\ Len(p) = Len(o) + Len(e) /\ Len(o) \in Nat /\ Len(e) \in Nat
      /\ \A i \in 1 .. Len(o) : p[i] = o[i] /\ i \in 1 .. Len(p)
      /\ \A i \in 1 .. Len(p) : i > Len(o) => p[i] = e[i - Len(o)] /\ i - Len(o) \in 1 .. Len(e)
      /\ \A i \in 1 .. Len(e) : e[i] \in Transaction
  OBVIOUS
<1>0. Len(p) = Len(o) + Len(e) /\ Len(o) \in Nat /\ Len(e) \in Nat
  OBVIOUS
<1> HIDE DEF p
<1>2. ASSUME NEW i \in 1 .. Len(e) - 1 PROVE e[i].op # "read"
  <2>1. i \in 1 .. Len(e) /\ e[i] # Do("read", 0)
    BY <1>0
  <2>2. e[i] \in Transaction
    BY <1>1, <2>1
  <2>3. QED BY <2>1, <2>2 DEF Transaction, Do
<1>3. ASSUME NEW i \in 1 .. Len(p), p[i].op = "read" PROVE i = Len(p) \/ (i \in 1 .. Len(o) /\ o[i].op = "read")
  <2>1. ASSUME i > Len(o), i # Len(p) PROVE FALSE
    <3>1. PICK k \in 1 .. Len(e) : k = i - Len(o) /\ p[i] = e[k]
      BY <1>1, <2>1
    <3>2. k # Len(e)
      BY <1>0, <2>1, <3>1
    <3>3. k \in 1 .. Len(e) - 1
      BY <1>0, <3>2
    <3>4. QED BY <1>2, <1>3, <3>1, <3>3
  <2>2. CASE i \in 1 .. Len(o)
    BY <1>1, <1>3, <2>2
  <2>3. QED BY <1>1, <2>1, <2>2
<1>4. ASSUME NEW i \in 1 .. Len(p), p[i].op = "read", NEW j \in i+1 .. Len(p), p[j].op = "read"
      PROVE  \E k \in i+1 .. j : p[k].op = "clear"
  <2>1. i \in 1 .. Len(o) /\ o[i].op = "read"
    BY <1>1, <1>3, <1>4
  <2>2. CASE j = Len(p)
    <3>1. PICK k \in i+1 .. Len(o) : o[k].op = "clear"
      BY <2>1 DEF SeparatedIn
    <3>2. k \in i+1 .. j /\ p[k].op = "clear"
      BY <1>1, <2>1, <2>2, <3>1
    <3>3. QED BY <3>2
  <2>3. CASE j # Len(p)
    <3>1. j \in i+1 .. Len(o) /\ o[j].op = "read"
      BY <1>3, <1>4, <2>1, <2>3
    <3>2. PICK k \in i+1 .. j : o[k].op = "clear"
      BY <2>1, <3>1 DEF SeparatedIn
    <3>3. k \in 1 .. Len(o)
      BY <1>0, <2>1, <3>1, <3>2
    <3>4. p[k].op = "clear"
      BY <1>1, <3>2, <3>3
    <3>5. QED BY <3>4
  <2>4. QED BY <2>2, <2>3
<1>5. QED BY <1>4 DEF SeparatedIn, p

LEMMA SeparatedEnds ==
  ASSUME NEW o \in Seq(Transaction), o # <<>>, NEW a \in BOOLEAN, SeparatedIn(o, a)
  PROVE  SeparatedIn(Tail(o), a)
<1> DEFINE t == Tail(o)
<1>1. /\ Len(t) = Len(o) - 1 /\ Len(o) \in Nat \ {0}
      /\ \A i \in 1 .. Len(t) : t[i] = o[i+1] /\ i+1 \in 1 .. Len(o)
      /\ \A i \in 2 .. Len(o) : o[i] = t[i-1] /\ i-1 \in 1 .. Len(t)
  OBVIOUS
<1> HIDE DEF t
<1>2. ASSUME NEW i \in 1 .. Len(t), t[i].op = "read"
      PROVE  /\ a => \E k \in i+1 .. Len(t) : t[k].op = "clear"
             /\ \A j \in i+1 .. Len(t) : t[j].op = "read" => \E k \in i+1 .. j : t[k].op = "clear"
  <2>1. i+1 \in 1 .. Len(o) /\ o[i+1].op = "read"
    BY <1>1, <1>2
  <2>2. ASSUME a PROVE \E k \in i+1 .. Len(t) : t[k].op = "clear"
    <3>1. PICK k \in (i+1)+1 .. Len(o) : o[k].op = "clear"
      BY <2>1, <2>2 DEF SeparatedIn
    <3>2. k-1 \in i+1 .. Len(t) /\ t[k-1].op = "clear"
      BY <1>1, <2>1, <3>1
    <3>3. QED BY <3>2
  <2>3. ASSUME NEW j \in i+1 .. Len(t), t[j].op = "read" PROVE \E k \in i+1 .. j : t[k].op = "clear"
    <3>1. j+1 \in (i+1)+1 .. Len(o) /\ o[j+1].op = "read"
      BY <1>1, <2>1, <2>3
    <3>2. PICK k \in (i+1)+1 .. j+1 : o[k].op = "clear"
      BY <2>1, <3>1 DEF SeparatedIn
    <3>3. k-1 \in i+1 .. j /\ t[k-1].op = "clear"
      BY <1>1, <2>1, <3>1, <3>2
    <3>4. QED BY <3>3
  <2>4. QED BY <2>2, <2>3
<1>3. QED BY <1>2 DEF SeparatedIn, t

------------------------------------------------------------------------------
(* The records that are still to be read. *)

\* The steps that leave the messages where they are.
Calm == /\ UNCHANGED <<restoring, queue, stored, ops, home, posted, posting, again, lost, refused, dropped>>
        /\ up' \in Seq(UpFrame) /\ Posts(up') = Posts(up) /\ \A m \in Message : Copies(up', m) = Copies(up, m)

LEMMA CalmIs ==
  ASSUME Typed, \/ Timeout \/ Select \/ SelectWorkspace \/ RelayKnows \/ Answer \/ UNCHANGED vars
                \/ Fetched(Head(down)) \/ Synced(Head(down))
  PROVE  Calm
<1>1. UNCHANGED <<restoring, queue, stored, ops, home, posted, posting, again, lost, refused, dropped>>
  BY DEF Timeout, Select, SelectWorkspace, Clear, RelayKnows, Answer, Fetched, Synced, vars, relay, idb, history
<1>2. up \in Seq(UpFrame) /\ PageTyped
  BY DEF Typed, WireTyped
<1>3. \/ UNCHANGED up
      \/ \E f \in UpFrame : up' = Append(up, f) /\ \A m \in Message : f # Post(m)
      \/ \E b \in BOOLEAN : up' = Ask(up, b)
  <2>1. CASE Select \/ SelectWorkspace
    <3>1. \/ UNCHANGED up
          \/ \E c \in may.channels, who \in {"selectChannel", "selectWorkspace"} : up' = Append(up, Fetch(c, who))
      BY <2>1 DEF Select, SelectWorkspace
    <3>2. may.channels \subseteq Channel
      BY OpenedChannels DEF Typed
    <3>3. \A c \in Channel, who \in {"selectChannel", "selectWorkspace"} :
             Fetch(c, who) \in UpFrame /\ \A m \in Message : Fetch(c, who) # Post(m)
      BY OtherFrames
    <3>4. QED BY <3>1, <3>2, <3>3
  <2>2. CASE Synced(Head(down))
    <3>1. up' = Ask(up, active # None /\ shown' = {} /\ local' = NoRows /\ sock = "authed")
      BY <2>2 DEF Synced
    <3>2. QED BY <3>1
  <2>3. CASE Timeout \/ RelayKnows \/ Answer \/ UNCHANGED vars \/ Fetched(Head(down))
    BY <2>3 DEF Timeout, RelayKnows, Answer, Fetched, wire, vars
  <2>4. QED BY <2>1, <2>2, <2>3
<1>4. CASE UNCHANGED up
  BY <1>1, <1>2, <1>4 DEF Calm
<1>5. ASSUME NEW f \in UpFrame, up' = Append(up, f), \A m \in Message : f # Post(m) PROVE Calm
  BY <1>1, <1>2, <1>5, NoPost DEF Calm
<1>6. ASSUME NEW b \in BOOLEAN, up' = Ask(up, b) PROVE Calm
  BY <1>1, <1>2, <1>6, Asked DEF Calm
<1>7. QED BY <1>3, <1>4, <1>5, <1>6

LEMMA NextSilent == ASSUME Typed, Silent, [Next]_vars PROVE Silent'
<1>1. CASE Send \/ Retry \/ Timeout \/ Select \/ SelectWorkspace
  BY <1>1 DEF Send, Retry, Timeout, Select, SelectWorkspace, Clear, Dispatch, wire, relay, Silent
<1>2. CASE Open \/ RelayKnows \/ Inject \/ UNCHANGED vars
  BY <1>2 DEF Open, RelayKnows, Inject, Silent, vars, wire, relay
<1>3. CASE Receive \/ RelayReads
  <2>1. sock # "closed"
    BY <1>3 DEF Receive, RelayReads, Silent
  <2>2. sock' # "closed"
    BY <1>3, <2>1, ReceiveIs DEF RelayReads, Welcomed, Echoed, Fetched, Synced
  <2>3. QED BY <2>2 DEF Silent
<1>4. CASE Drop \/ Reload \/ Logout
  BY <1>4 DEF Drop, Reload, Logout, Fault, Silent
<1>5. CASE Answer \/ Refuse
  <2>1. sock = "closed" => DOMAIN asking = {}
    BY DEF Silent
  <2>2. sock' = "closed" => UNCHANGED <<wire, asking>>
    BY <1>5, <2>1 DEF Answer, Refuse, wire
  <2>3. QED BY <2>2 DEF Silent, wire
<1>6. CASE Transact
  <2>1. sock = "closed" => up' = up
    <3>1. \A q : sock = "closed" => Flush(q).up = <<>>
      BY DEF Flush, Kept
    <3>2. up \o <<>> = up
      BY DEF Typed, WireTyped
    <3>3. QED BY <1>6, <3>1, <3>2 DEF Transact, Rehydrate, Rehydrated
  <2>2. QED BY <1>6, <2>1 DEF Transact, relay, Silent
<1>7. QED BY <1>1, <1>2, <1>3, <1>4, <1>5, <1>6 DEF Next

\* A single transaction that begins.
LEMMA OneOp == ASSUME StoreTyped PROVE \A x \in Transaction : <<x>> \in Seq(Transaction) /\ ops \o <<x>> = Append(ops, x)
               /\ Len(<<x>>) = 1 /\ DOMAIN <<x>> = {1} /\ <<x>>[1] = x
BY DEF StoreTyped

\* Two reads have a clear between them.
LEMMA NextSeparated == ASSUME SendOutboxAssumption, Typed, Separated, [Next]_vars PROVE Separated'
<1>1. /\ StoreTyped /\ ops \in Seq(Transaction) /\ restoring \in BOOLEAN /\ restoring' \in BOOLEAN
      /\ SeparatedIn(ops, restoring)
  BY NextTyped DEF Typed, StoreTyped, PageTyped, Separated
<1>2. ASSUME NEW x \in Transaction, x # Do("read", 0), ops' = Append(ops, x), restoring' => restoring
      PROVE  Separated'
  <2>0. <<x>> \in Seq(Transaction) /\ ops \o <<x>> = Append(ops, x) /\ DOMAIN <<x>> = {1} /\ <<x>>[1] = x
    BY <1>1, OneOp
  <2>1. <<x>> \in Seq(Transaction) /\ ops' = ops \o <<x>> /\ \A i \in DOMAIN <<x>> : <<x>>[i] # Do("read", 0)
    BY <1>2, <2>0
  <2>2. SeparatedIn(ops \o <<x>>, restoring')
    BY <1>1, <1>2, <2>1, SeparatedBegins
  <2>3. QED BY <2>1, <2>2 DEF Separated
<1>3. ASSUME UNCHANGED ops, restoring' => restoring PROVE Separated'
  BY <1>1, <1>3 DEF Separated, SeparatedIn
<1>4. CASE Send \/ Retry
  <2>1. PICK k \in Message : Dispatch(k)
    BY <1>4 DEF Send, Retry
  <2>2. Dispatched(k) /\ UNCHANGED restoring
    BY <1>4, <2>1, DispatchIs DEF Send, Retry
  <2>3. Do("put", k) \in Transaction /\ Do("put", k) # Do("read", 0)
    BY NotRead DEF Transaction
  <2>4. QED BY <1>2, <1>3, <2>2, <2>3 DEF Dispatched
<1>5. CASE Timeout \/ Select \/ SelectWorkspace \/ RelayKnows \/ Answer \/ UNCHANGED vars
  BY <1>3, <1>5, CalmIs DEF Calm
<1>6. CASE Open \/ RelayReads \/ Inject \/ Refuse \/ Drop
  BY <1>3, <1>6 DEF Open, RelayReads, Inject, Refuse, Drop, idb
<1>7. CASE Receive
  <2>1. CASE Welcomed
    <3>1. PICK e : WelcomedBy(e)
      BY <2>1, WelcomedIs
    <3>2. restoring' = FALSE /\ e \in Seq(Transaction) /\ ops' = ops \o e
      BY <2>1, <3>1 DEF Welcomed, WelcomedBy
    <3>3. CASE restoring
      <4>1. Len(e) > 0 /\ e[Len(e)] = Do("read", 0) /\ \A i \in 1 .. Len(e) - 1 : e[i] # Do("read", 0)
        BY <3>1, <3>3 DEF WelcomedBy
      <4>2. SeparatedIn(ops, TRUE)
        BY <1>1, <3>3
      <4>3. SeparatedIn(ops \o e, FALSE)
        BY <1>1, <3>2, <4>1, <4>2, SeparatedReads
      <4>4. QED BY <3>2, <4>3 DEF Separated
    <3>4. CASE ~restoring
      <4>1. \A i \in DOMAIN e : e[i] # Do("read", 0)
        BY <3>1, <3>4 DEF WelcomedBy
      <4>2. SeparatedIn(ops \o e, restoring')
        BY <1>1, <3>2, <4>1, SeparatedBegins
      <4>3. QED BY <3>2, <4>2 DEF Separated
    <3>5. QED BY <3>3, <3>4
  <2>2. CASE Head(down).kind = "echo" /\ Echoed(Head(down)) /\ down # <<>>
    <3>1. PICK r \in Row : EchoedHere(r[1]) \/ UNCHANGED ops
      BY <2>2, EchoedIs
    <3>2. UNCHANGED restoring
      BY <2>2 DEF Echoed
    <3>3. Do("delete", r[1]) \in Transaction /\ Do("delete", r[1]) # Do("read", 0)
      BY NotRead DEF Transaction, Row
    <3>4. QED BY <1>2, <1>3, <3>1, <3>2, <3>3 DEF EchoedHere
  <2>3. CASE Fetched(Head(down)) \/ Synced(Head(down))
    BY <1>3, <2>3, CalmIs DEF Calm
  <2>4. QED BY <1>7, <2>1, <2>2, <2>3, ReceiveIs
<1>8. CASE Reload
  <2>1. ops' = <<>>
    BY <1>8 DEF Reload
  <2>2. QED BY <2>1 DEF Separated, SeparatedIn
<1>9. CASE Logout
  <2> DEFINE x == Do("clear", 0)
  <2>1. ops' = Append(ops, x)
    BY <1>9 DEF Logout
  <2>2. x.op = "clear" /\ x \in Transaction /\ x # Do("read", 0)
    BY NotRead DEF Do, Transaction
  <2> HIDE DEF x
  <2>3. SeparatedIn(ops', FALSE)
    <3>1. <<x>> \in Seq(Transaction) /\ ops' = ops \o <<x>> /\ \A i \in DOMAIN <<x>> : <<x>>[i] # Do("read", 0)
      BY <1>1, <2>1, <2>2, OneOp
    <3>2. QED BY <1>1, <3>1, SeparatedBegins
  <2>4. ASSUME NEW i \in 1 .. Len(ops'), ops'[i].op = "read" PROVE \E k \in i+1 .. Len(ops') : ops'[k].op = "clear"
    <3>1. Len(ops') = Len(ops) + 1 /\ ops'[Len(ops')] = x /\ Len(ops) \in Nat
      BY <1>1, <2>1
    <3>2. i # Len(ops')
      BY <2>2, <2>4, <3>1
    <3>3. Len(ops') \in i+1 .. Len(ops')
      BY <3>1, <3>2
    <3>4. QED BY <2>2, <3>1, <3>3
  <2>5. QED BY <2>3, <2>4 DEF Separated, SeparatedIn
<1>10. CASE Transact
  <2>1. ops # <<>> /\ UNCHANGED restoring /\ Tail(ops) \in Seq(Transaction)
    BY <1>1, <1>10 DEF Transact
  <2>2. SeparatedIn(Tail(ops), restoring)
    BY <1>1, <2>1, SeparatedEnds
  <2>3. CASE Head(ops).op = "read"
    <3>1. Rehydrate
      BY <1>10, <2>3 DEF Transact
    <3>2. PICK q, e : RehydratedBy(q, e)
      BY <2>1, <3>1, RehydrateIs
    <3>3. SeparatedIn(Tail(ops) \o e, restoring)
      BY <1>1, <2>1, <2>2, <3>2, SeparatedBegins DEF RehydratedBy
    <3>4. QED BY <2>1, <3>2, <3>3 DEF RehydratedBy, Separated
  <2>4. CASE Head(ops).op # "read"
    <3>1. ops' = Tail(ops)
      BY <1>10, <2>4 DEF Transact
    <3>2. QED BY <2>1, <2>2, <3>1 DEF Separated
  <2>5. QED BY <2>3, <2>4
<1>11. QED BY <1>4, <1>5, <1>6, <1>7, <1>8, <1>9, <1>10 DEF Next

\* The only transactions that concern m delete it.
OnlyDeleted(o, m) == \A i \in DOMAIN o : o[i].m = m => o[i] = Do("delete", m)

LEMMA OnlyDeletions ==
  ASSUME NEW s, NEW o \in Seq(Transaction), NEW m \in Message, OnlyDeleted(o, m)
  PROVE  /\ \A n \in 0 .. Len(o) : m \in RecordsOf(s, o, n) <=> m \in s /\ \A i \in 1 .. n : ~Removes(o[i], m)
         /\ KeptIn(s, o, m) <=> m \in s /\ \A i \in 1 .. Len(o) : o[i] # Do("delete", m)
<1>1. \A i \in 1 .. Len(o) : o[i] # Do("put", m)
  <2>1. Do("put", m).m = m /\ Do("put", m) # Do("delete", m)
    BY NotRead DEF Do
  <2>2. QED BY <2>1 DEF OnlyDeleted
<1>2. \A n \in 0 .. Len(o) : \A i \in 1 .. n : i \in 1 .. Len(o)
  OBVIOUS
<1>3. QED BY <1>1, <1>2 DEF RecordsOf, KeptIn

LEMMA MoreDeletions ==
  ASSUME NEW o \in Seq(Transaction), NEW m \in Message, OnlyDeleted(o, m)
  PROVE  /\ \A x \in Transaction : (x.m = m => x = Do("delete", m)) => OnlyDeleted(Append(o, x), m)
         /\ \A e \in Seq(Transaction) : (\A i \in DOMAIN e : e[i].m # m) => OnlyDeleted(o \o e, m)
         /\ o # <<>> => OnlyDeleted(Tail(o), m)
<1>1. ASSUME NEW x \in Transaction, x.m = m => x = Do("delete", m) PROVE OnlyDeleted(Append(o, x), m)
  <2>1. \A i \in DOMAIN Append(o, x) : (i \in DOMAIN o /\ Append(o, x)[i] = o[i]) \/ Append(o, x)[i] = x
    OBVIOUS
  <2>2. QED BY <1>1, <2>1 DEF OnlyDeleted
<1>2. ASSUME NEW e \in Seq(Transaction), \A i \in DOMAIN e : e[i].m # m PROVE OnlyDeleted(o \o e, m)
  <2> DEFINE p == o \o e
  <2>1. \A i \in DOMAIN p : (i \in DOMAIN o /\ p[i] = o[i]) \/ (i - Len(o) \in DOMAIN e /\ p[i] = e[i - Len(o)])
    OBVIOUS
  <2> HIDE DEF p
  <2>2. OnlyDeleted(p, m)
    BY <1>2, <2>1 DEF OnlyDeleted
  <2>3. QED BY <2>2 DEF p
<1>3. ASSUME o # <<>> PROVE OnlyDeleted(Tail(o), m)
  <2>1. \A i \in DOMAIN Tail(o) : Tail(o)[i] = o[i+1] /\ i+1 \in DOMAIN o
    BY <1>3
  <2>2. QED BY <2>1 DEF OnlyDeleted
<1>4. QED BY <1>1, <1>2, <1>3

\* What a read finds has no other read before it: a logout lies between two.
LEMMA ReadEnds ==
  ASSUME StoreTyped, restoring \in BOOLEAN, ToBeRead, Separated, ops # <<>>, Head(ops).op = "read", NEW m \in Message
  PROVE  ~DueIn(stored, Tail(ops), restoring, m)
<1> SUFFICES ASSUME DueIn(stored, Tail(ops), restoring, m) PROVE FALSE
  OBVIOUS
<1>1. ops \in Seq(Transaction) /\ stored \in SUBSET Message /\ Commit(stored, Head(ops)) = stored
  BY DEF StoreTyped, Commit
<1>2. /\ Len(ops) \in Nat \ {0} /\ Len(ops) \in 1 .. Len(ops) /\ ops[1].op = "read" /\ Tail(ops) \in Seq(Transaction)
      /\ Len(Tail(ops)) = Len(ops) - 1
      /\ \A i \in 1 .. Len(Tail(ops)) : i+1 \in 2 .. Len(ops) /\ Tail(ops)[i] = ops[i+1] /\ (i+1)-1 = i
  BY <1>1
<1>3. DueIn(Commit(stored, Head(ops)), Tail(ops), restoring, m) => DueIn(stored, ops, restoring, m)
  BY <1>1, Ended
<1>4. OnlyDeleted(ops, m)
  BY <1>1, <1>3 DEF Due, ToBeRead, Untouched, OnlyDeleted
<1>5. \A n \in 0 .. Len(ops) : m \in RecordsOf(stored, ops, n) => \A i \in 1 .. n : ops[i].op # "clear"
  BY <1>1, <1>4, OnlyDeletions DEF Removes
<1>6. ~(restoring /\ m \in RecordsOf(stored, ops, Len(ops)))
  <2> SUFFICES ASSUME restoring, m \in RecordsOf(stored, ops, Len(ops)) PROVE FALSE
    OBVIOUS
  <2>1. PICK k \in 2 .. Len(ops) : ops[k].op = "clear"
    BY <1>2 DEF Separated, SeparatedIn
  <2>2. Len(ops) \in 0 .. Len(ops) /\ k \in 1 .. Len(ops)
    BY <1>2
  <2>3. QED BY <1>5, <2>1, <2>2
<1>7. \A i \in 2 .. Len(ops) : ~(ops[i].op = "read" /\ m \in RecordsOf(stored, ops, i))
  <2> SUFFICES ASSUME NEW i \in 2 .. Len(ops), ops[i].op = "read", m \in RecordsOf(stored, ops, i) PROVE FALSE
    OBVIOUS
  <2>1. PICK k \in 2 .. i : ops[k].op = "clear"
    BY <1>2 DEF Separated, SeparatedIn
  <2>2. i \in 0 .. Len(ops) /\ k \in 1 .. i
    BY <1>2
  <2>3. QED BY <1>5, <2>1, <2>2
<1>8. \A n \in 1 .. Len(ops) : RecordsOf(stored, Tail(ops), n - 1) = RecordsOf(stored, ops, n)
  <2>1. \A n \in 1 .. Len(ops) : RecordsOf(Commit(stored, Head(ops)), Tail(ops), n - 1) = RecordsOf(stored, ops, n)
    BY <1>1, EndOp
  <2>2. QED BY <1>1, <2>1
<1>9. RecordsOf(stored, Tail(ops), Len(Tail(ops))) = RecordsOf(stored, ops, Len(ops))
  BY <1>2, <1>8
<1>10. \A i \in 1 .. Len(Tail(ops)) : RecordsOf(stored, Tail(ops), i) = RecordsOf(stored, ops, i+1)
  BY <1>2, <1>8
<1>11. QED BY <1>2, <1>6, <1>7, <1>9, <1>10 DEF DueIn

\* And so nothing that it found is due any more.
LEMMA RehydratedLast ==
  ASSUME SendOutboxAssumption, Typed, ToBeRead, Separated, Rehydrate, ops # <<>>, Head(ops).op = "read",
         UNCHANGED restoring, NEW m \in Message
  PROVE  ~Due(m)'
<1> SUFFICES ASSUME Due(m)' PROVE FALSE
  OBVIOUS
<1>1. PICK q, e : RehydratedBy(q, e)
  BY RehydrateIs
<1>2. /\ e \in Seq(Transaction) /\ ops' = Tail(ops) \o e /\ HandsOver(q, e) /\ q \in Seq(Message)
      /\ \A i \in DOMAIN e : e[i] # Do("read", 0)
  BY <1>1 DEF RehydratedBy
<1>3. \A i \in DOMAIN e : e[i] # Do("put", m)
  BY <1>2, NotRead DEF HandsOver, ToSet
<1>4. StoreTyped /\ restoring \in BOOLEAN /\ Tail(ops) \in Seq(Transaction) /\ UNCHANGED stored
  BY DEF Typed, StoreTyped, PageTyped, Rehydrate
<1> DEFINE t == Tail(ops)
<1> HIDE DEF t
<1>5. DueIn(stored, t \o e, restoring, m) /\ t \in Seq(Transaction)
  BY <1>2, <1>4 DEF Due, t
<1>6. \A i \in DOMAIN e : e[i] # Do("read", 0) /\ (restoring => e[i] # Do("put", m))
  BY <1>2, <1>3
<1>7. DueIn(stored, t, restoring, m)
  BY <1>2, <1>4, <1>5, <1>6, Begun
<1>8. QED BY <1>4, <1>7, ReadEnds DEF t

\* Only a reload makes a read due.
LEMMA DueBefore ==
  ASSUME SendOutboxAssumption, Typed, ToBeRead, Separated, [Next]_vars, ~Reload, NEW m \in Message, Due(m)'
  PROVE  Due(m)
<1>1. /\ StoreTyped /\ ops \in Seq(Transaction) /\ stored \in SUBSET Message
      /\ restoring \in BOOLEAN /\ restoring' \in BOOLEAN
  BY NextTyped DEF Typed, StoreTyped, PageTyped
<1>2. ASSUME NEW e \in Seq(Transaction), ops' = ops \o e, UNCHANGED stored, restoring' => restoring,
             \A i \in DOMAIN e : e[i] # Do("read", 0) /\ (restoring' => e[i] # Do("put", m))
      PROVE  Due(m)
  <2>1. DueIn(stored, ops \o e, restoring', m)
    BY <1>2 DEF Due
  <2>2. DueIn(stored, ops, restoring', m)
    BY <1>1, <1>2, <2>1, Begun
  <2>3. QED BY <1>2, <2>2 DEF Due, DueIn
<1>3. ASSUME NEW x \in Transaction, ops' = Append(ops, x), UNCHANGED stored, restoring' => restoring,
             x # Do("read", 0), restoring' => x # Do("put", m)
      PROVE  Due(m)
  <2>1. <<x>> \in Seq(Transaction) /\ ops' = ops \o <<x>> /\ \A i \in DOMAIN <<x>> : <<x>>[i] = x
    BY <1>1, <1>3, OneOp
  <2>2. QED BY <1>2, <1>3, <2>1
<1>4. ASSUME UNCHANGED <<ops, stored>>, restoring' => restoring PROVE Due(m)
  BY <1>4 DEF Due, DueIn
<1>5. CASE Send \/ Retry
  <2>1. PICK k \in Message : Dispatch(k)
    BY <1>5 DEF Send, Retry
  <2>2. Dispatched(k) /\ UNCHANGED <<stored, restoring>> /\ ~restoring
    BY <1>5, <2>1, DispatchIs DEF Send, Retry
  <2>3. Do("put", k) \in Transaction /\ Do("put", k) # Do("read", 0)
    BY NotRead DEF Transaction
  <2>4. QED BY <1>3, <1>4, <2>2, <2>3 DEF Dispatched
<1>6. CASE Timeout \/ Select \/ SelectWorkspace \/ RelayKnows \/ Answer \/ UNCHANGED vars
  BY <1>4, <1>6, CalmIs DEF Calm
<1>7. CASE Open \/ RelayReads \/ Inject \/ Refuse \/ Drop
  BY <1>4, <1>7 DEF Open, RelayReads, Inject, Refuse, Drop, idb
<1>8. CASE Receive
  <2>1. CASE Welcomed
    <3>1. PICK e : WelcomedBy(e)
      BY <2>1, WelcomedIs
    <3>2. /\ e \in Seq(Transaction) /\ ops' = ops \o e /\ HandsOver(queue, e) /\ restoring' = FALSE
          /\ UNCHANGED stored
      BY <2>1, <3>1 DEF Welcomed, WelcomedBy
    <3>3. \A i \in DOMAIN e : e[i] # Do("put", m)
      BY <3>2, NotRead DEF HandsOver, ToSet
    <3>4. CASE restoring
      <4>1. Len(e) > 0 /\ e[Len(e)] = Do("read", 0) /\ \A i \in 1 .. Len(e) - 1 : e[i] # Do("read", 0)
        BY <3>1, <3>4 DEF WelcomedBy
      <4>2. DueIn(stored, ops \o e, FALSE, m)
        BY <3>2 DEF Due
      <4>3. DueIn(stored, ops, TRUE, m)
        BY <1>1, <3>2, <3>3, <4>1, <4>2, ReadBegun
      <4>4. QED BY <3>4, <4>3 DEF Due
    <3>5. CASE ~restoring
      <4>1. \A i \in DOMAIN e : e[i] # Do("read", 0)
        BY <3>1, <3>5 DEF WelcomedBy
      <4>2. QED BY <1>2, <3>2, <3>3, <4>1
    <3>6. QED BY <1>1, <3>4, <3>5
  <2>2. CASE Head(down).kind = "echo" /\ Echoed(Head(down)) /\ down # <<>>
    <3>1. PICK r \in Row : EchoedHere(r[1]) \/ UNCHANGED ops
      BY <2>2, EchoedIs
    <3>2. UNCHANGED <<restoring, stored>>
      BY <2>2 DEF Echoed
    <3>3. /\ Do("delete", r[1]) \in Transaction /\ Do("delete", r[1]) # Do("read", 0)
          /\ Do("delete", r[1]) # Do("put", m)
      BY NotRead DEF Transaction, Row
    <3>4. QED BY <1>3, <1>4, <3>1, <3>2, <3>3 DEF EchoedHere
  <2>3. CASE Fetched(Head(down)) \/ Synced(Head(down))
    BY <1>4, <2>3, CalmIs DEF Calm
  <2>4. QED BY <1>8, <2>1, <2>2, <2>3, ReceiveIs
<1>9. CASE Logout
  <2> DEFINE x == Do("clear", 0)
  <2>1. ops' = Append(ops, x) /\ UNCHANGED stored
    BY <1>9 DEF Logout
  <2>2. x \in Transaction /\ x.op = "clear" /\ x # Do("read", 0) /\ x # Do("put", m)
    BY NotRead DEF Transaction, Do
  <2> HIDE DEF x
  <2>3. Len(ops') = Len(ops) + 1 /\ ops'[Len(ops')] = x /\ Len(ops) \in Nat
    BY <1>1, <2>1
  <2>4. m \notin RecordsOf(stored', ops', Len(ops'))
    BY <2>2, <2>3 DEF RecordsOf, Removes
  <2>5. DueIn(stored', ops', FALSE, m)
    BY <2>4 DEF Due, DueIn
  <2>6. <<x>> \in Seq(Transaction) /\ ops' = ops \o <<x>> /\ \A i \in DOMAIN <<x>> : <<x>>[i] = x
    BY <1>1, <2>1, <2>2, OneOp
  <2>7. DueIn(stored, ops \o <<x>>, FALSE, m)
    BY <2>1, <2>5, <2>6
  <2>8. DueIn(stored, ops, FALSE, m)
    BY <1>1, <2>2, <2>6, <2>7, Begun
  <2>9. QED BY <2>8 DEF Due, DueIn
<1>10. CASE Transact
  <2>1. ops # <<>> /\ UNCHANGED restoring
    BY <1>10 DEF Transact
  <2>2. CASE Head(ops).op # "read"
    <3>1. stored' = Commit(stored, Head(ops)) /\ ops' = Tail(ops)
      BY <1>10, <2>2 DEF Transact
    <3>2. DueIn(Commit(stored, Head(ops)), Tail(ops), restoring, m) => DueIn(stored, ops, restoring, m)
      BY <1>1, <2>1, Ended
    <3>3. QED BY <2>1, <3>1, <3>2 DEF Due
  <2>3. CASE Head(ops).op = "read"
    <3>1. Rehydrate
      BY <1>10, <2>3 DEF Transact
    <3>2. QED BY <2>1, <2>3, <3>1, RehydratedLast
  <2>4. QED BY <2>2, <2>3
<1>11. QED BY <1>5, <1>6, <1>7, <1>8, <1>9, <1>10 DEF Next

\* A record that is still to be read stays untouched.
LEMMA NextToBeRead ==
  ASSUME SendOutboxAssumption, Typed, Unwritten, ToBeRead, Separated, [Next]_vars PROVE ToBeRead'
<1> SUFFICES ASSUME NEW m \in Message, Due(m)' PROVE Untouched(m)'
  BY DEF ToBeRead
<1>0. m # 0
  BY DEF Message
<1>1. /\ StoreTyped /\ ops \in Seq(Transaction) /\ stored \in SUBSET Message
      /\ restoring \in BOOLEAN /\ StoreTyped'
      /\ local \in [Message -> Status] /\ bubbles \in [Message -> Status]
      /\ queue \in Seq(Message) /\ up \in Seq(UpFrame)
  BY NextTyped DEF Typed, StoreTyped, PageTyped, WireTyped, QueueTyped
<1>2. ASSUME m \in stored', m \notin ToSet(queue'), m \notin Posts(up'), local'[m] = None, bubbles'[m] = None,
             OnlyDeleted(ops', m)
      PROVE  Untouched(m)'
  BY <1>2 DEF Untouched, OnlyDeleted
<1>3. CASE Reload
  <2>1. /\ up' = <<>> /\ ops' = <<>> /\ queue' = <<>> /\ local'[m] = None /\ bubbles'[m] = None /\ UNCHANGED stored
        /\ Posts(<<>>) = {} /\ ToSet(<<>>) = {}
    BY <1>3 DEF Reload, Fault, Unpage, NoRows, Posts, ToSet
  <2>2. OnlyDeleted(ops', m)
    BY <2>1 DEF OnlyDeleted
  <2>3. m \in stored'
    BY <2>1 DEF Due, DueIn, RecordsOf
  <2>4. QED BY <1>2, <2>1, <2>2, <2>3
<1>4. SUFFICES ASSUME ~Reload PROVE Untouched(m)'
  BY <1>3
<1>5. Due(m)
  BY <1>4, DueBefore
<1>6. m \in stored /\ m \notin ToSet(queue) /\ m \notin Posts(up) /\ local[m] = None /\ bubbles[m] = None /\ OnlyDeleted(ops, m)
  BY <1>5 DEF ToBeRead, Untouched, OnlyDeleted
<1>7. ASSUME NEW k \in Message, Dispatched(k), UNCHANGED <<stored, restoring>>, k \notin stored \/ local[k] # None,
             \A n \in Message : n # k => local'[n] = local[n] /\ bubbles'[n] = bubbles[n]
      PROVE  Untouched(m)'
  <2>1. Do("put", k) \in Transaction /\ Do("put", k).m = k
    BY DEF Transaction, Do
  <2>2. k # m
    BY <1>6, <1>7
  <2>3. OnlyDeleted(ops', m)
    <3>1. OnlyDeleted(Append(ops, Do("put", k)), m)
      BY <1>1, <1>6, <2>1, <2>2, MoreDeletions
    <3>2. QED BY <1>6, <1>7, <3>1 DEF Dispatched
  <2>4. m \notin Posts(up') /\ m \notin ToSet(queue')
    <3>1. Post(k) \in UpFrame /\ \A n \in Message : Post(k) = Post(n) => n = k
      BY OtherFrames DEF Post
    <3>2. \/ Posts(Append(up, Post(k))) = Posts(up)
          \/ \E n \in Message : Post(k) = Post(n) /\ Posts(Append(up, Post(k))) = Posts(up) \cup {n}
      BY <1>1, <3>1, PostsAre
    <3>3. m \notin Posts(Append(up, Post(k)))
      BY <1>6, <2>2, <3>1, <3>2
    <3>4. QED BY <1>6, <1>7, <2>2, <3>3 DEF Dispatched
  <2>5. QED BY <1>2, <1>6, <1>7, <2>2, <2>3, <2>4
<1>8. CASE Send
  <2>1. PICK k \in Message : /\ Sent = 1 .. (k - 1) /\ local' = [local EXCEPT ![k] = "pending"] /\ Dispatch(k)
    BY <1>8 DEF Send
  <2>2. k \notin stored
    <3>1. home[k] = None
      BY <2>1 DEF Sent, Message
    <3>2. QED BY <3>1 DEF Unwritten, Absent
  <2>3. Dispatched(k) /\ UNCHANGED <<stored, restoring, bubbles>>
    BY <1>8, <2>1, DispatchIs DEF Send
  <2>4. \A n \in Message : n # k => local'[n] = local[n]
    BY <1>1, <2>1
  <2>5. QED BY <1>7, <2>2, <2>3, <2>4
<1>9. CASE Retry
  <2>1. PICK k \in Message : /\ local[k] = "failed" /\ local' = [local EXCEPT ![k] = "pending"]
                             /\ bubbles' = Repending(bubbles, k) /\ Dispatch(k)
    BY <1>9 DEF Retry
  <2>2. local[k] # None
    BY <2>1 DEF SendOutboxAssumption
  <2>3. Dispatched(k) /\ UNCHANGED <<stored, restoring>>
    BY <1>9, <2>1, DispatchIs DEF Retry
  <2>4. \A n \in Message : n # k => local'[n] = local[n] /\ bubbles'[n] = bubbles[n]
    BY <1>1, <2>1 DEF Repending
  <2>5. QED BY <1>7, <2>2, <2>3, <2>4
<1>10. ASSUME Calm, bubbles'[m] = None, local'[m] = None PROVE Untouched(m)'
  BY <1>2, <1>6, <1>10 DEF Calm
<1>11. CASE Timeout \/ Select \/ SelectWorkspace \/ RelayKnows \/ Answer \/ UNCHANGED vars
  <2>1. Calm
    BY <1>11, CalmIs
  <2>2. CASE Timeout
    BY <1>1, <1>6, <1>10, <2>1, <2>2 DEF Timeout, Failing
  <2>3. CASE Select \/ SelectWorkspace \/ RelayKnows \/ Answer \/ UNCHANGED vars
    BY <1>6, <1>10, <2>1, <2>3 DEF Select, SelectWorkspace, Clear, RelayKnows, Answer, NoRows, list, vars
  <2>4. QED BY <1>11, <2>2, <2>3
<1>12. CASE Open
  <2>1. Posts(up') = {}
    <3>1. up' = Append(<<>>, [kind |-> "auth"]) /\ <<>> \in Seq(UpFrame)
      BY <1>12 DEF Open
    <3>2. Posts(<<>>) = {}
      BY DEF Posts
    <3>3. QED BY <3>1, <3>2, NoPost, OtherFrames
  <2>2. UNCHANGED <<ops, stored, queue, local, bubbles>>
    BY <1>12 DEF Open, list, idb
  <2>3. QED BY <1>2, <1>6, <2>1, <2>2
<1>13. CASE Receive
  <2>1. CASE Welcomed
    <3>1. PICK e : WelcomedBy(e)
      BY <2>1, WelcomedIs
    <3>2. e \in Seq(Transaction) /\ ops' = ops \o e /\ HandsOver(queue, e) /\ UNCHANGED <<stored, local, bubbles>>
      BY <2>1, <3>1 DEF Welcomed, WelcomedBy
    <3>3. (\A i \in DOMAIN e : e[i].m # m) /\ m \notin ToSet(queue') /\ m \notin Posts(up')
      BY <1>1, <1>6, <3>2, HandsOverOthers
    <3>4. OnlyDeleted(ops', m)
      BY <1>1, <1>6, <3>2, <3>3, MoreDeletions
    <3>5. QED BY <1>2, <1>6, <3>2, <3>3, <3>4
  <2>2. CASE Head(down).kind = "echo" /\ Echoed(Head(down)) /\ down # <<>>
    <3>1. PICK r \in Row : \/ EchoedHere(r[1]) /\ local' = IF r \in shown THEN local ELSE Collapse(local, {r})
                           \/ UNCHANGED <<local, ops, queue, bubbles>>
      BY <2>2, EchoedIs
    <3>2. UNCHANGED <<stored, up>> /\ r[1] \in Message
      BY <2>2 DEF Echoed, Row
    <3>3. Do("delete", r[1]) \in Transaction /\ Do("delete", r[1]).m = r[1]
      BY <3>2 DEF Transaction, Do
    <3>4. OnlyDeleted(ops', m)
      <4>1. OnlyDeleted(Append(ops, Do("delete", r[1])), m)
        BY <1>1, <1>6, <3>3, MoreDeletions
      <4>2. QED BY <1>6, <3>1, <4>1 DEF EchoedHere
    <3>5. local'[m] = None /\ bubbles'[m] = None /\ m \notin ToSet(queue')
      BY <1>1, <1>6, <3>1, Collapsed DEF EchoedHere
    <3>6. QED BY <1>2, <1>6, <3>2, <3>4, <3>5
  <2>3. CASE Fetched(Head(down)) \/ Synced(Head(down))
    <3>1. Calm /\ UNCHANGED bubbles
      BY <2>3, CalmIs DEF Fetched, Synced
    <3>2. local'[m] = None
      <4>1. CASE Fetched(Head(down))
        BY <1>6, <4>1 DEF Fetched, Reapplied, NoRows
      <4>2. CASE Synced(Head(down))
        BY <1>6, <4>2, Collapsed DEF Synced, Added, NoRows
      <4>3. QED BY <2>3, <4>1, <4>2
    <3>3. QED BY <1>6, <1>10, <3>1, <3>2
  <2>4. QED BY <1>13, <2>1, <2>2, <2>3, ReceiveIs
<1>14. CASE RelayReads
  <2>1. up # <<>> /\ up' = Tail(up) /\ UNCHANGED <<ops, stored, queue, local, bubbles>>
    BY <1>14 DEF RelayReads, list, idb
  <2>2. m \notin Posts(up')
    BY <1>1, <1>6, <2>1, PostsOfTail
  <2>3. QED BY <1>2, <1>6, <2>1, <2>2
<1>15. CASE Inject \/ Refuse
  BY <1>2, <1>6, <1>15 DEF Inject, Refuse, wire, list, idb
<1>16. CASE Drop \/ Logout
  <2>1. up' = <<>> /\ Posts(<<>>) = {} /\ ToSet(<<>>) = {} /\ UNCHANGED stored
    BY <1>16 DEF Drop, Logout, Fault, Posts, ToSet, idb
  <2>2. CASE Drop
    BY <1>2, <1>6, <2>1, <2>2 DEF Drop, list, idb
  <2>3. CASE Logout
    <3>1. ops' = Append(ops, Do("clear", 0)) /\ queue' = <<>> /\ local'[m] = None /\ bubbles'[m] = None
      BY <2>3 DEF Logout, Unpage, NoRows
    <3>2. Do("clear", 0) \in Transaction /\ Do("clear", 0).m # m
      BY <1>0 DEF Transaction, Do
    <3>3. OnlyDeleted(ops', m)
      BY <1>1, <1>6, <3>1, <3>2, MoreDeletions
    <3>4. QED BY <1>2, <1>6, <2>1, <3>1, <3>3
  <2>4. QED BY <1>16, <2>2, <2>3
<1>17. CASE Transact
  <2>1. ops # <<>> /\ UNCHANGED restoring
    BY <1>17 DEF Transact
  <2>2. CASE Head(ops).op # "read"
    <3>1. stored' = Commit(stored, Head(ops)) /\ ops' = Tail(ops) /\ UNCHANGED <<up, local, queue, bubbles>>
      BY <1>17, <2>2 DEF Transact
    <3>2. OnlyDeleted(ops', m)
      <4>1. OnlyDeleted(Tail(ops), m)
        BY <1>1, <1>6, <2>1, MoreDeletions
      <4>2. QED BY <3>1, <4>1
    <3>3. Len(ops) \in Nat \ {0} /\ Head(ops) = ops[1] /\ ops[1] \in Transaction /\ Len(ops) \in 1 .. Len(ops)
      BY <1>1, <2>1
    <3>4. PICK n \in 1 .. Len(ops) : m \in RecordsOf(stored, ops, n)
      BY <1>5, <3>3 DEF Due, DueIn
    <3>5. ~Removes(ops[1], m)
      <4>1. n \in 0 .. Len(ops) /\ 1 \in 1 .. n
        BY <3>3
      <4>2. QED BY <1>1, <1>6, <3>4, <4>1, OnlyDeletions
    <3>6. m \in stored'
      <4>1. ops[1] # Do("put", m) /\ ops[1].op # "clear" /\ ops[1] # Do("delete", m)
        BY <1>6, <3>3, <3>5, NotRead DEF OnlyDeleted, Removes, Do
      <4>2. QED BY <1>6, <2>2, <3>1, <3>3, <4>1 DEF Commit, Transaction, Do
    <3>7. QED BY <1>2, <1>6, <3>1, <3>2, <3>6
  <2>3. CASE Head(ops).op = "read"
    <3>1. Rehydrate
      BY <1>17, <2>3 DEF Transact
    <3>2. QED BY <2>1, <2>3, <3>1, RehydratedLast
  <2>4. QED BY <2>2, <2>3
<1>18. QED BY <1>4, <1>8, <1>9, <1>11, <1>12, <1>13, <1>14, <1>15, <1>16, <1>17 DEF Next

------------------------------------------------------------------------------
(* No message is lost out of sight. *)

Tracked(m) == \/ posted[m] + posting[m] > 0
              \/ m \in Posts(up)
              \/ m \in RecordsOf(stored, ops, Len(ops)) /\ (m \in ToSet(queue) \/ Due(m))

\* A transaction that begins and removes no record of m.
LEMMA TrackedOps ==
  ASSUME StoreTyped, restoring \in BOOLEAN, NEW m \in Message, NEW e \in Seq(Transaction),
         \A i \in DOMAIN e : ~Removes(e[i], m), ops' = ops \o e, UNCHANGED <<stored, restoring>>
  PROVE  /\ m \in RecordsOf(stored, ops, Len(ops)) => m \in RecordsOf(stored', ops', Len(ops'))
         /\ Due(m) => Due(m)'
<1>1. ops \in Seq(Transaction)
  BY DEF StoreTyped
<1>2. m \in RecordsOf(stored, ops, Len(ops)) => m \in RecordsOf(stored, ops \o e, Len(ops \o e))
  BY <1>1, ExtendOps, Zenon
<1>3. DueIn(stored, ops, restoring, m) => DueIn(stored, ops \o e, restoring, m)
  BY <1>1, Begun
<1>4. QED BY <1>2, <1>3 DEF Due

\* What was written is posted, on its way, or recorded and known.
LEMMA NextTraced ==
  ASSUME SendOutboxAssumption, Typed, SeenRows, Silent, ToBeRead, Traced, [Next]_vars PROVE Traced'
<1> SUFFICES ASSUME NEW m \in Sent', m \notin lost' \cup refused' \cup dropped' PROVE Tracked(m)'
  BY DEF Traced, Tracked
<1>0. m \in Message /\ m # 0
  BY DEF Message, Sent
<1>1. /\ StoreTyped /\ ops \in Seq(Transaction) /\ stored \in SUBSET Message
      /\ restoring \in BOOLEAN /\ restoring' \in BOOLEAN /\ queue \in Seq(Message)
      /\ up \in Seq(UpFrame) /\ posted \in [Message -> Nat] /\ posting \in [Message -> Nat]
      /\ home \in [Message -> Channel \cup {None}]
  BY NextTyped DEF Typed, StoreTyped, PageTyped, WireTyped, RelayTyped, HistoryTyped, QueueTyped
<1>2. m \in Sent /\ m \notin lost \cup refused \cup dropped => Tracked(m)
  BY DEF Traced, Tracked
<1>3. Due(m) => m \in stored /\ m \notin ToSet(queue)
  BY <1>0 DEF ToBeRead, Untouched
<1>4. ASSUME UNCHANGED <<home, lost, refused, dropped>> PROVE Tracked(m)
  BY <1>2, <1>4 DEF Sent
<1>5. CASE Send \/ Retry
  <2>1. PICK k \in Message : Dispatch(k) /\ (UNCHANGED home \/ home' = [home EXCEPT ![k] = active])
    BY <1>5 DEF Send, Retry
  <2>2. Dispatched(k) /\ UNCHANGED <<stored, restoring, posted, posting, lost, refused, dropped>>
    BY <1>5, <2>1, DispatchIs DEF Send, Retry, relay, history
  <2>3. m # k => Tracked(m)
    BY <1>0, <1>1, <1>2, <2>1, <2>2 DEF Sent
  <2>4. Post(k) \in UpFrame /\ (m # k => Post(k) # Post(m)) /\ \A n \in Message : Post(k) = Post(n) => n = k
    BY <1>0, OtherFrames DEF Post
  <2>5. CASE up' = Append(up, Post(k)) /\ UNCHANGED <<queue, ops>>
    <3>1. Posts(up') = Posts(up) \cup {k}
      <4>1. \/ Posts(Append(up, Post(k))) = Posts(up) /\ \A n \in Message : Post(k) # Post(n)
            \/ \E n \in Message : Post(k) = Post(n) /\ Posts(Append(up, Post(k))) = Posts(up) \cup {n}
        <5>1. up \in Seq(UpFrame) /\ Post(k) \in UpFrame
          BY <1>1, <2>4
        <5>2. QED BY <5>1, PostsAre
      <4>2. QED BY <2>4, <2>5, <4>1
    <3>2. QED BY <2>2, <2>3, <2>5, <3>1 DEF Tracked, Due
  <2>6. CASE ops' = Append(ops, Do("put", k)) /\ UNCHANGED up /\ ToSet(queue') = ToSet(queue) \cup {k}
    <3> DEFINE x == Do("put", k)
    <3>1. x \in Transaction /\ ~Removes(x, m)
      BY DEF Transaction, Do, Removes
    <3>2. ops' = Append(ops, x)
      BY <2>6
    <3> HIDE DEF x
    <3>3. <<x>> \in Seq(Transaction) /\ ops' = ops \o <<x>> /\ \A i \in DOMAIN <<x>> : ~Removes(<<x>>[i], m)
      <4>1. <<x>> \in Seq(Transaction) /\ ops' = ops \o <<x>> /\ \A i \in DOMAIN <<x>> : <<x>>[i] = x
        BY <1>1, <3>1, <3>2, OneOp
      <4>2. QED BY <3>1, <4>1
    <3>4. /\ m \in RecordsOf(stored, ops, Len(ops)) => m \in RecordsOf(stored', ops', Len(ops'))
          /\ Due(m) => Due(m)'
      BY <1>0, <1>1, <2>2, <3>3, TrackedOps
    <3>5. m # k => Tracked(m)'
      BY <2>2, <2>3, <2>6, <3>4 DEF Tracked
    <3>6. k \in RecordsOf(stored', ops', Len(ops'))
      <4>1. Len(ops') = Len(ops) + 1 /\ Len(ops) \in Nat /\ ops'[Len(ops')] = Do("put", k)
        BY <1>1, <3>2 DEF x
      <4>2. Len(ops') \in 1 .. Len(ops') /\ \A j \in Len(ops')+1 .. Len(ops') : ~Removes(ops'[j], k)
        BY <4>1
      <4>3. QED BY <4>1, <4>2 DEF RecordsOf
    <3>7. QED BY <2>6, <3>5, <3>6 DEF Tracked
  <2>7. QED BY <2>2, <2>5, <2>6 DEF Dispatched
<1>6. ASSUME Calm PROVE Tracked(m)'
  BY <1>4, <1>6 DEF Calm, Tracked, Due
<1>7. CASE Timeout \/ Select \/ SelectWorkspace \/ RelayKnows \/ Answer \/ UNCHANGED vars
  BY <1>6, <1>7, CalmIs
<1>8. CASE Open
  <2>1. UNCHANGED <<home, lost, refused, dropped, posted, posting, stored, ops, queue, restoring>> /\ up = <<>>
    BY <1>8 DEF Open, Silent, relay, idb, history
  <2>2. Posts(up) = {}
    BY <2>1 DEF Posts
  <2>3. QED BY <1>4, <2>1, <2>2 DEF Tracked, Due
<1>9. CASE Receive
  <2>1. CASE Welcomed
    <3>1. PICK e : WelcomedBy(e)
      BY <2>1, WelcomedIs
    <3>2. /\ e \in Seq(Transaction) /\ ops' = ops \o e /\ HandsOver(queue, e) /\ restoring' = FALSE
          /\ UNCHANGED <<stored, home, lost, refused, dropped, posted, posting>>
      BY <2>1, <3>1 DEF Welcomed, WelcomedBy, relay, history
    <3>3. Tracked(m)
      BY <1>4, <3>2
    <3>4. Posts(up) \subseteq Posts(up') /\ (m \in ToSet(queue) => m \in Posts(up') \/ (queue' = queue /\ \A i \in DOMAIN e : e[i] = Do("read", 0)))
      BY <3>2 DEF HandsOver
    <3>5. ~Removes(Do("read", 0), m)
      BY DEF Removes, Do
    <3>6. ASSUME m \in RecordsOf(stored, ops, Len(ops)), \A i \in DOMAIN e : ~Removes(e[i], m)
          PROVE  m \in RecordsOf(stored', ops', Len(ops'))
      BY <1>0, <1>1, <3>2, <3>6, ExtendOps, Zenon
    <3>7. ASSUME m \in RecordsOf(stored, ops, Len(ops)), m \in ToSet(queue) PROVE Tracked(m)'
      BY <3>4, <3>5, <3>6, <3>7 DEF Tracked
    <3>8. ASSUME m \in RecordsOf(stored, ops, Len(ops)), Due(m) PROVE Tracked(m)'
      <4>1. \A i \in DOMAIN e : ~Removes(e[i], m)
        <5>1. \A i \in DOMAIN e : e[i] = Do("read", 0) \/ \E n \in ToSet(queue) : e[i] = Do("delete", n)
          BY <3>2 DEF HandsOver
        <5>2. \A n : n # m => ~Removes(Do("delete", n), m)
          BY DEF Removes, Do
        <5>3. QED BY <1>3, <3>5, <3>8, <5>1, <5>2
      <4>2. Due(m)'
        <5>1. CASE restoring
          <6>1. Len(e) > 0 /\ e[Len(e)] = Do("read", 0) /\ \A i \in 1 .. Len(e) - 1 : e[i] # Do("read", 0)
            BY <3>1, <5>1 DEF WelcomedBy
          <6>2. DueIn(stored, ops, TRUE, m)
            BY <3>8, <5>1 DEF Due
          <6>3. DueIn(stored, ops \o e, FALSE, m)
            BY <1>0, <1>1, <3>2, <4>1, <6>1, <6>2, ReadBegun
          <6>4. QED BY <3>2, <6>3 DEF Due
        <5>2. CASE ~restoring
          BY <1>0, <1>1, <3>2, <3>8, <4>1, <5>2, TrackedOps
        <5>3. QED BY <1>1, <5>1, <5>2
      <4>3. QED BY <3>6, <3>8, <4>1, <4>2 DEF Tracked
    <3>9. QED BY <3>2, <3>3, <3>4, <3>7, <3>8 DEF Tracked
  <2>2. CASE Head(down).kind = "echo" /\ Echoed(Head(down)) /\ down # <<>>
    <3>1. PICK r \in Row : /\ Head(down) = Echo(r)
                           /\ EchoedHere(r[1]) \/ UNCHANGED <<ops, queue>>
      BY <2>2, EchoedIs
    <3>2. UNCHANGED <<restoring, stored, up, home, posted, posting, lost, refused, dropped>> /\ Tracked(m)
      BY <1>4, <2>2 DEF Echoed, relay, history
    <3>3. r[1] \in Message
      BY DEF Row
    <3>4. r[1] = m => posted[m] > 0
      <4>1. Rows(Head(down)) = {r} /\ 1 \in DOMAIN down /\ Head(down) = down[1]
        BY <2>2, <3>1 DEF Rows, Echo, Typed, WireTyped
      <4>2. r[2] <= posted[r[1]] /\ r[2] \in Nat \ {0}
        BY <4>1 DEF SeenRows, Row
      <4>3. QED BY <1>0, <1>1, <4>2
    <3>5. CASE posted[m] > 0 \/ UNCHANGED <<ops, queue>>
      BY <1>0, <1>1, <3>2, <3>5 DEF Tracked, Due
    <3>6. CASE r[1] # m /\ EchoedHere(r[1])
      <4> DEFINE x == Do("delete", r[1])
      <4>1. x \in Transaction /\ ~Removes(x, m)
        BY <3>3, <3>6 DEF Transaction, Do, Removes
      <4>2. ops' = Append(ops, x) /\ ToSet(queue') = ToSet(queue) \ {r[1]}
        BY <3>6 DEF EchoedHere
      <4> HIDE DEF x
      <4>3. <<x>> \in Seq(Transaction) /\ ops' = ops \o <<x>> /\ \A i \in DOMAIN <<x>> : ~Removes(<<x>>[i], m)
        <5>1. <<x>> \in Seq(Transaction) /\ ops' = ops \o <<x>> /\ \A i \in DOMAIN <<x>> : <<x>>[i] = x
          BY <1>1, <4>1, <4>2, OneOp
        <5>2. QED BY <4>1, <5>1
      <4>4. /\ m \in RecordsOf(stored, ops, Len(ops)) => m \in RecordsOf(stored', ops', Len(ops'))
            /\ Due(m) => Due(m)'
        BY <1>0, <1>1, <3>2, <4>3, TrackedOps
      <4>5. QED BY <3>2, <3>6, <4>2, <4>4 DEF Tracked
    <3>7. QED BY <3>1, <3>4, <3>5, <3>6
  <2>3. CASE Fetched(Head(down)) \/ Synced(Head(down))
    BY <1>6, <2>3, CalmIs
  <2>4. QED BY <1>9, <2>1, <2>2, <2>3, ReceiveIs
<1>10. CASE RelayReads
  <2>1. /\ up # <<>> /\ up' = Tail(up) /\ UNCHANGED <<home, posted, refused, dropped, ops, stored, restoring, queue>>
        /\ Head(up) \in UpFrame
    BY <1>1, <1>10, PostsOfTail DEF RelayReads, list, idb
  <2>2. lost \subseteq lost'
    BY <1>10 DEF RelayReads
  <2>3. Tracked(m)
    BY <1>2, <2>1, <2>2 DEF Sent
  <2>4. posting[m] <= posting'[m]
    <3>1. IsPost(Head(up)) => Head(up).m \in Message
      BY <2>1 DEF UpFrame, Request, Sync, IsPost, Post, Fetch
    <3>2. posting' = posting \/ (IsPost(Head(up)) /\ posting' = [posting EXCEPT ![Head(up).m] = @ + 1])
      BY <1>10 DEF RelayReads
    <3>3. QED BY <1>0, <1>1, <3>1, <3>2
  <2>5. ASSUME m \in Posts(up) PROVE Tracked(m)'
    <3>1. Head(up) = Post(m) \/ m \in Posts(up')
      BY <1>1, <2>1, <2>5, PostsOfTail
    <3>2. ASSUME Head(up) = Post(m) PROVE posted'[m] + posting'[m] > 0
      <4>1. IsPost(Head(up)) /\ Head(up).m = m /\ Head(up).kind = "post"
        BY <3>2 DEF IsPost, Post
      <4>2. posting' = [posting EXCEPT ![m] = @ + 1]
        BY <1>10, <4>1 DEF RelayReads
      <4>3. QED BY <1>0, <1>1, <2>1, <4>2
    <3>3. QED BY <3>1, <3>2 DEF Tracked
  <2>6. posted[m] + posting[m] > 0 => posted'[m] + posting'[m] > 0
    <3>1. posting'[m] \in Nat
      BY <1>0, NextTyped DEF Typed, RelayTyped
    <3>2. QED BY <1>0, <1>1, <2>1, <2>4, <3>1
  <2>7. QED BY <2>1, <2>3, <2>5, <2>6 DEF Tracked, Due
<1>11. CASE Inject
  <2>1. UNCHANGED <<home, up, lost, refused, dropped, ops, stored, restoring, queue>>
    BY <1>11 DEF Inject, idb, history
  <2>2. posted'[m] + posting'[m] = posted[m] + posting[m]
    <3>1. PICK k \in Message : /\ posting[k] > 0 /\ posting' = [posting EXCEPT ![k] = @ - 1]
                               /\ posted' = [posted EXCEPT ![k] = @ + 1]
      BY <1>11, InjectIs
    <3>2. QED BY <1>0, <1>1, <3>1
  <2>3. QED BY <1>4, <2>1, <2>2 DEF Tracked, Due
<1>12. CASE Refuse
  <2>1. UNCHANGED <<home, up, posted, lost, dropped, ops, stored, restoring, queue>> /\ refused \subseteq refused'
    BY <1>12 DEF Refuse, wire, idb
  <2>2. Tracked(m)
    BY <1>2, <2>1 DEF Sent
  <2>3. posting'[m] = posting[m]
    <3>1. \/ UNCHANGED posting
          \/ \E k \in Message : posting' = [posting EXCEPT ![k] = @ - 1] /\ refused' = refused \cup {k}
      BY <1>12 DEF Refuse
    <3>2. QED BY <1>0, <1>1, <3>1
  <2>4. QED BY <2>1, <2>2, <2>3 DEF Tracked, Due
<1>13. CASE Drop \/ Reload \/ Logout
  <2>1. UNCHANGED <<home, posted, posting, refused>> /\ lost' = lost \cup Posts(up) /\ dropped \subseteq dropped'
    BY <1>13 DEF Drop, Reload, Logout, Fault
  <2>2. Tracked(m) /\ m \notin Posts(up) /\ m \in Sent
    BY <1>2, <2>1 DEF Sent
  <2>3. CASE Drop
    BY <2>1, <2>2, <2>3 DEF Drop, idb, Tracked, Due
  <2>4. CASE Reload
    <3>1. ops' = <<>> /\ UNCHANGED stored /\ restoring' = TRUE /\ dropped' = dropped \cup (ToSet(queue) \ stored)
      BY <2>4 DEF Reload, Unpage
    <3>2. m \in stored => Tracked(m)'
      BY <1>0, <3>1 DEF Tracked, Due, DueIn, RecordsOf
    <3>3. QED BY <1>3, <2>1, <2>2, <3>1, <3>2 DEF Tracked
  <2>5. CASE Logout
    BY <2>2, <2>5 DEF Logout
  <2>6. QED BY <1>13, <2>3, <2>4, <2>5
<1>14. CASE Transact
  <2> DEFINE c == Commit(stored, Head(ops))
  <2>1. /\ ops # <<>> /\ UNCHANGED <<restoring, home, posted, posting, lost, refused, dropped>>
        /\ Tail(ops) \in Seq(Transaction) /\ Tracked(m)
    BY <1>1, <1>4, <1>14 DEF Transact, relay, history
  <2>2. /\ m \in RecordsOf(c, Tail(ops), Len(Tail(ops))) <=> m \in RecordsOf(stored, ops, Len(ops))
        /\ Due(m) /\ Head(ops).op # "read" => DueIn(c, Tail(ops), restoring, m)
    <3>1. \A first \in BOOLEAN : DueIn(stored, ops, first, m) /\ Head(ops).op # "read" => DueIn(c, Tail(ops), first, m)
      BY <1>0, <1>1, <2>1, Ended
    <3>2. m \in RecordsOf(c, Tail(ops), Len(Tail(ops))) <=> m \in RecordsOf(stored, ops, Len(ops))
      BY <1>0, <1>1, <2>1, Ended
    <3> HIDE DEF c
    <3>3. QED BY <1>1, <3>1, <3>2 DEF Due
  <2>3. CASE Head(ops).op # "read"
    <3>1. stored' = c /\ ops' = Tail(ops) /\ UNCHANGED <<up, queue>>
      BY <1>14, <2>3 DEF Transact
    <3>2. Due(m) => Due(m)'
      BY <2>1, <2>2, <2>3, <3>1 DEF Due
    <3>3. m \in RecordsOf(stored, ops, Len(ops)) => m \in RecordsOf(stored', ops', Len(ops'))
      BY <2>2, <3>1
    <3>4. QED BY <2>1, <3>1, <3>2, <3>3 DEF Tracked
  <2>4. CASE Head(ops).op = "read"
    <3>1. Rehydrate
      BY <1>14, <2>4 DEF Transact
    <3>2. PICK q, e : RehydratedBy(q, e)
      BY <2>1, <3>1, RehydrateIs
    <3>3. c = stored /\ UNCHANGED stored
      BY <2>4, <3>1 DEF Commit, Rehydrate
    <3>4. /\ e \in Seq(Transaction) /\ ops' = Tail(ops) \o e /\ HandsOver(q, e) /\ ToSet(q) = ToSet(queue) \cup stored
      BY <3>2 DEF RehydratedBy
    <3>5. Posts(up) \subseteq Posts(up')
      BY <3>4 DEF HandsOver
    <3>6. ASSUME m \in RecordsOf(stored, ops, Len(ops)), m \in ToSet(q) PROVE Tracked(m)'
      <4>1. CASE m \in Posts(up')
        BY <4>1 DEF Tracked
      <4>2. CASE queue' = q /\ \A i \in DOMAIN e : e[i] = Do("read", 0)
        <5>1. \A i \in DOMAIN e : ~Removes(e[i], m)
          BY <4>2 DEF Removes, Do
        <5>2. m \in RecordsOf(stored, Tail(ops), Len(Tail(ops)))
          BY <2>2, <3>3, <3>6
        <5>3. m \in RecordsOf(stored, Tail(ops) \o e, Len(Tail(ops) \o e))
          BY <1>0, <2>1, <3>4, <5>1, <5>2, ExtendOps, Zenon
        <5>4. QED BY <3>3, <3>4, <3>6, <4>2, <5>3 DEF Tracked
      <4>3. QED BY <3>4, <3>6, <4>1, <4>2 DEF HandsOver
    <3>7. QED BY <1>3, <2>1, <3>4, <3>5, <3>6 DEF Tracked
  <2>5. QED BY <2>3, <2>4
<1>15. QED BY <1>5, <1>7, <1>8, <1>9, <1>10, <1>11, <1>12, <1>13, <1>14 DEF Next

------------------------------------------------------------------------------
(* No message is posted twice but by a retry. *)

Weight(m) == posted[m] + posting[m] + Copies(up, m) + (IF Live(m) THEN 1 ELSE 0)

\* A step that makes no copy of m and does not bring its record back.
LEMMA NoHeavier ==
  ASSUME NEW m \in Message, posted[m] \in Nat, posted'[m] \in Nat, posting[m] \in Nat, posting'[m] \in Nat,
         again[m] \in Nat, again'[m] \in Nat,
         Copies(up, m) \in Nat, Copies(up', m) \in Nat, Weight(m) <= 1 + again[m], again[m] <= again'[m],
         posted'[m] + posting'[m] + Copies(up', m) <= posted[m] + posting[m] + Copies(up, m), Live(m)' => Live(m)
  PROVE  Weight(m)' <= 1 + again'[m]
BY DEF Weight

\* No action makes a post or a record without a token for it.
LEMMA NextTokens ==
  ASSUME SendOutboxAssumption, Typed, Unwritten, ToBeRead, Separated, Tokens, [Next]_vars PROVE Tokens'
<1> SUFFICES ASSUME NEW m \in Message PROVE Weight(m)' <= 1 + again'[m]
  BY DEF Tokens, Weight
<1>1. /\ StoreTyped /\ ops \in Seq(Transaction) /\ stored \in SUBSET Message /\ queue \in Seq(Message)
      /\ up \in Seq(UpFrame) /\ up' \in Seq(UpFrame) /\ posted \in [Message -> Nat] /\ posted' \in [Message -> Nat]
      /\ posting \in [Message -> Nat] /\ posting' \in [Message -> Nat]
      /\ again \in [Message -> Nat] /\ again' \in [Message -> Nat]
  BY NextTyped DEF Typed, StoreTyped, WireTyped, RelayTyped, QueueTyped, HistoryTyped
<1>2. /\ posted[m] \in Nat /\ posted'[m] \in Nat /\ posting[m] \in Nat /\ posting'[m] \in Nat /\ again[m] \in Nat /\ again'[m] \in Nat
      /\ Copies(up, m) \in Nat /\ Copies(up', m) \in Nat /\ Weight(m) <= 1 + again[m]
  BY <1>1, CopiesAre DEF Tokens, Weight
<1>3. again[m] <= again'[m]
  <2>1. \/ UNCHANGED again
        \/ \E k \in Message : again' = [again EXCEPT ![k] = @ + 1]
        \/ again' = [n \in Message |-> IF n \in stored /\ Deleting(n) THEN again[n] + 1 ELSE again[n]]
    BY DEF Next, Send, Retry, Timeout, Select, SelectWorkspace, Clear, Open, Receive, Welcomed, Echoed, Fetched, Synced,
           RelayReads, RelayKnows, Inject, Answer, Refuse, Drop, Transact, Reload, Logout, history, vars
  <2>2. ASSUME NEW k \in Message, again' = [again EXCEPT ![k] = @ + 1] PROVE again[m] <= again'[m]
    <3>1. again'[m] = IF k = m THEN again[m] + 1 ELSE again[m]
      BY <1>1, <2>2
    <3>2. QED BY <1>2, <3>1
  <2>3. ASSUME again' = [n \in Message |-> IF n \in stored /\ Deleting(n) THEN again[n] + 1 ELSE again[n]]
        PROVE  again[m] <= again'[m]
    <3>1. again'[m] \in {again[m], again[m] + 1}
      BY <2>3
    <3>2. QED BY <1>2, <3>1
  <2>4. QED BY <1>2, <2>1, <2>2, <2>3
<1>4. ASSUME posted'[m] + posting'[m] + Copies(up', m) <= posted[m] + posting[m] + Copies(up, m), Live(m)' => Live(m)
      PROVE  Weight(m)' <= 1 + again'[m]
  BY <1>2, <1>3, <1>4, NoHeavier
<1>5. /\ Copies(<<>>, m) = 0
      /\ up' = <<[kind |-> "auth"]>> => Copies(up', m) = 0
  <2>1. <<>> \in Seq(UpFrame) /\ Posts(<<>>) = {}
    BY DEF Posts
  <2>2. Copies(<<>>, m) = 0
    BY <2>1, CopiesAre
  <2>3. <<[kind |-> "auth"]>> = Append(<<>>, [kind |-> "auth"])
    OBVIOUS
  <2>4. Copies(Append(<<>>, [kind |-> "auth"]), m) = 0
    BY <2>1, <2>2, NoPost, OtherFrames
  <2>5. QED BY <2>2, <2>3, <2>4
<1>6. CASE Reload
  <2>1. UNCHANGED <<posted, posting, stored>> /\ up' = <<>> /\ ops' = <<>> /\ queue' = <<>> /\ ToSet(<<>>) = {}
    BY <1>6 DEF Reload, Fault, Unpage, ToSet
  <2>2. Live(m)' => m \in stored
    BY <2>1 DEF Live, KeptIn, Due, DueIn, RecordsOf
  <2>3. CASE m \in stored /\ Deleting(m)
    <3>1. again'[m] = again[m] + 1
      BY <1>6, <2>3 DEF Reload
    <3>2. QED BY <1>2, <1>5, <2>1, <3>1 DEF Weight
  <2>4. CASE ~(m \in stored /\ Deleting(m))
    <3>1. ops \in Seq(Transaction) /\ DOMAIN ops = 1 .. Len(ops)
      BY <1>1 DEF Typed, StoreTyped
    <3>2. m \in stored => \A i \in 1 .. Len(ops) : ops[i] # Do("delete", m)
      BY <2>4, <3>1 DEF Deleting
    <3>3. m \in stored => KeptIn(stored, ops, m)
      BY <3>2 DEF KeptIn
    <3>4. Live(m)' => Live(m)
      BY <2>2, <3>3, Zenon DEF Live
    <3>5. QED BY <1>2, <1>4, <1>5, <2>1, <3>4
  <2>5. QED BY <2>3, <2>4
<1> SUFFICES ASSUME ~Reload PROVE Weight(m)' <= 1 + again'[m]
  BY <1>6
<1>7. (Due(m)' => Due(m)) /\ (Due(m) => m \notin ToSet(queue))
  BY DueBefore DEF ToBeRead, Untouched
<1>8. ASSUME NEW e \in Seq(Transaction), ops' = ops \o e, UNCHANGED stored, \A i \in DOMAIN e : e[i] # Do("put", m)
      PROVE  /\ KeptIn(stored', ops', m) => KeptIn(stored, ops, m)
             /\ (\E i \in DOMAIN e : e[i] = Do("delete", m)) => ~KeptIn(stored', ops', m)
  BY <1>1, <1>8, ExtendKept
<1>9. ASSUME NEW x \in Transaction, ops' = Append(ops, x), UNCHANGED stored, x # Do("put", m)
      PROVE  KeptIn(stored', ops', m) => KeptIn(stored, ops, m)
  <2>1. <<x>> \in Seq(Transaction) /\ ops' = ops \o <<x>> /\ \A i \in DOMAIN <<x>> : <<x>>[i] = x
    BY <1>1, <1>9, OneOp
  <2>2. \A i \in DOMAIN <<x>> : <<x>>[i] # Do("put", m)
    BY <1>9, <2>1
  <2>3. QED BY <1>8, <1>9, <2>1, <2>2
<1>10. ASSUME NEW k \in Message, k # m, Dispatched(k), UNCHANGED <<stored, posted, posting>>
      PROVE  Weight(m)' <= 1 + again'[m]
  <2>1. Post(k) \in UpFrame /\ Post(k) # Post(m) /\ Do("put", k) \in Transaction /\ Do("put", k) # Do("put", m)
    BY <1>10, OtherFrames DEF Post, Transaction, Do
  <2>2. Copies(up', m) = Copies(up, m)
    <3>1. CASE up' = Append(up, Post(k))
      <4>1. Copies(Append(up, Post(k)), m) = Copies(up, m) + 0
        BY <1>1, <2>1, CopiesAre
      <4>2. QED BY <1>2, <3>1, <4>1
    <3>2. CASE UNCHANGED up
      BY <3>2
    <3>3. QED BY <1>10, <3>1, <3>2 DEF Dispatched
  <2>3. KeptIn(stored', ops', m) => KeptIn(stored, ops, m)
    BY <1>9, <1>10, <2>1 DEF Dispatched
  <2>4. m \in ToSet(queue') => m \in ToSet(queue)
    BY <1>10 DEF Dispatched
  <2>5. Live(m)' => Live(m)
    BY <1>7, <1>10, <2>3, <2>4 DEF Live
  <2>6. QED BY <1>2, <1>4, <1>10, <2>2, <2>5
\* Sending or retrying m itself makes one more copy at most.
<1>11. ASSUME Dispatched(m), UNCHANGED <<stored, posted, posting>> PROVE
        \/ Copies(up', m) = Copies(up, m) + 1 /\ (Live(m)' => Live(m))
        \/ Copies(up', m) = Copies(up, m)
  <2>1. Post(m) \in UpFrame
    BY OtherFrames
  <2>2. CASE up' = Append(up, Post(m)) /\ UNCHANGED <<queue, ops>>
    BY <1>7, <1>1, <1>11, <2>1, <2>2, CopiesAre DEF Live
  <2>3. CASE UNCHANGED up
    BY <2>3
  <2>4. QED BY <1>11, <2>2, <2>3 DEF Dispatched
<1>12. CASE Send
  <2>1. PICK k \in Message : Sent = 1 .. (k - 1) /\ Dispatch(k)
    BY <1>12 DEF Send
  <2>2. Dispatched(k) /\ UNCHANGED <<stored, posted, posting, again>>
    BY <1>12, <2>1, DispatchIs DEF Send, relay, history
  <2>3. CASE k = m
    <3>1. Absent(m)
      BY <2>1, <2>3 DEF Sent, Message, Unwritten
    <3>2. posted[m] = 0 /\ posting[m] = 0 /\ Copies(up, m) = 0
      BY <1>1, <3>1, CopiesAre DEF Absent
    <3>3. ~Live(m)
      <4>1. ~KeptIn(stored, ops, m) /\ \A n \in 0 .. Len(ops) : m \notin RecordsOf(stored, ops, n)
        BY <1>1, <3>1, Unmentioned DEF Absent
      <4>2. Len(ops) \in 0 .. Len(ops) /\ \A i \in 1 .. Len(ops) : i \in 0 .. Len(ops)
        BY <1>1
      <4>3. QED BY <3>1, <4>1, <4>2 DEF Absent, Live, Due, DueIn
    <3>4. QED BY <1>2, <1>11, <2>2, <2>3, <3>2, <3>3 DEF Weight
  <2>4. QED BY <1>10, <2>2, <2>3
<1>13. CASE Retry
  <2>1. PICK k \in Message : again' = [again EXCEPT ![k] = @ + 1] /\ Dispatch(k)
    BY <1>13 DEF Retry
  <2>2. Dispatched(k) /\ UNCHANGED <<stored, posted, posting>>
    BY <1>13, <2>1, DispatchIs DEF Retry, relay
  <2>3. CASE k = m
    <3>1. again'[m] = again[m] + 1
      BY <1>1, <2>1, <2>3
    <3>2. QED BY <1>2, <1>11, <2>2, <2>3, <3>1 DEF Weight
  <2>4. QED BY <1>10, <2>2, <2>3
<1>14. ASSUME Calm PROVE Weight(m)' <= 1 + again'[m]
  <2>1. Copies(up', m) = Copies(up, m) /\ UNCHANGED <<posted, posting>> /\ (Live(m)' => Live(m))
    BY <1>7, <1>14 DEF Calm, Live
  <2>2. QED BY <1>2, <1>4, <2>1
<1>15. CASE Timeout \/ Select \/ SelectWorkspace \/ RelayKnows \/ Answer \/ UNCHANGED vars
  BY <1>14, <1>15, CalmIs
<1>16. CASE Open
  <2>1. UNCHANGED <<posted, posting, stored, ops, queue>> /\ Copies(up', m) = 0
    BY <1>5, <1>16 DEF Open, relay, idb
  <2>2. Live(m)' => Live(m)
    BY <1>7, <2>1 DEF Live
  <2>3. QED BY <1>2, <1>4, <2>1, <2>2
<1>17. CASE Receive
  <2>1. CASE Welcomed
    <3>1. PICK e : WelcomedBy(e)
      BY <2>1, WelcomedIs
    <3>2. e \in Seq(Transaction) /\ ops' = ops \o e /\ HandsOver(queue, e) /\ UNCHANGED <<stored, posted, posting>>
      BY <2>1, <3>1 DEF Welcomed, WelcomedBy, relay
    <3>3. \A i \in DOMAIN e : e[i] # Do("put", m)
      BY <3>2, NotRead DEF HandsOver, ToSet
    <3>4. /\ KeptIn(stored', ops', m) => KeptIn(stored, ops, m)
          /\ (\E i \in DOMAIN e : e[i] = Do("delete", m)) => ~KeptIn(stored', ops', m)
      BY <1>8, <3>2, <3>3
    <3>5. CASE queue' = queue /\ Copies(up', m) = Copies(up, m)
      <4>1. Live(m)' => Live(m)
        BY <1>7, <3>4, <3>5 DEF Live
      <4>2. QED BY <1>2, <1>4, <3>2, <3>5, <4>1
    <3>6. CASE /\ queue' = <<>> /\ Copies(up', m) = Copies(up, m) + (IF m \in ToSet(queue) THEN 1 ELSE 0)
               /\ \A n \in ToSet(queue) : \E i \in DOMAIN e : e[i] = Do("delete", n)
      <4>1. m \notin ToSet(queue')
        BY <3>6 DEF ToSet
      <4>2. CASE m \in ToSet(queue)
        <5>1. Live(m) /\ ~(Live(m)') /\ Copies(up', m) = Copies(up, m) + 1 /\ posted'[m] = posted[m] /\ posting'[m] = posting[m]
          BY <1>7, <3>2, <3>4, <3>6, <4>1, <4>2 DEF Live
        <5>2. QED BY <1>2, <1>3, <5>1 DEF Weight
      <4>3. CASE m \notin ToSet(queue)
        <5>1. (Live(m)' => Live(m)) /\ Copies(up', m) = Copies(up, m) + 0 /\ posted'[m] = posted[m] /\ posting'[m] = posting[m]
          BY <1>7, <3>2, <3>4, <3>6, <4>1, <4>3 DEF Live
        <5>2. QED BY <1>2, <1>4, <5>1
      <4>4. QED BY <4>2, <4>3
    <3>7. QED BY <3>2, <3>5, <3>6 DEF HandsOver
  <2>2. CASE Head(down).kind = "echo" /\ Echoed(Head(down)) /\ down # <<>>
    <3>1. PICK r \in Row : EchoedHere(r[1]) \/ UNCHANGED <<ops, queue>>
      BY <2>2, EchoedIs
    <3>2. UNCHANGED <<stored, up, posted, posting>>
      BY <2>2 DEF Echoed, relay
    <3>3. Do("delete", r[1]) \in Transaction /\ Do("delete", r[1]) # Do("put", m)
      BY NotRead DEF Transaction, Row
    <3>4. Live(m)' => Live(m)
      BY <1>7, <1>9, <3>1, <3>2, <3>3 DEF EchoedHere, Live
    <3>5. QED BY <1>2, <1>4, <3>2, <3>4
  <2>3. CASE Fetched(Head(down)) \/ Synced(Head(down))
    BY <1>14, <2>3, CalmIs
  <2>4. QED BY <1>17, <2>1, <2>2, <2>3, ReceiveIs
<1>18. CASE RelayReads
  <2>1. /\ up # <<>> /\ up' = Tail(up) /\ UNCHANGED <<stored, ops, queue, posted>> /\ Head(up) \in UpFrame
    BY <1>1, <1>18, PostsOfTail DEF RelayReads, list, idb
  <2>2. Live(m)' => Live(m)
    BY <1>7, <2>1 DEF Live
  <2>3. Copies(up', m) + (IF Head(up) = Post(m) THEN 1 ELSE 0) = Copies(up, m)
    BY <1>1, <2>1, CopiesOfTail
  <2>4. IsPost(Head(up)) => Head(up).m \in Message /\ Head(up) = Post(Head(up).m)
    BY <2>1 DEF UpFrame, Request, Sync, IsPost, Post, Fetch
  <2>5. posting'[m] <= posting[m] + (IF Head(up) = Post(m) THEN 1 ELSE 0)
    <3>1. posting' = posting \/ (IsPost(Head(up)) /\ posting' = [posting EXCEPT ![Head(up).m] = @ + 1])
      BY <1>18 DEF RelayReads
    <3>2. ASSUME IsPost(Head(up)), posting' = [posting EXCEPT ![Head(up).m] = @ + 1]
          PROVE  posting'[m] <= posting[m] + (IF Head(up) = Post(m) THEN 1 ELSE 0)
      <4>1. CASE Head(up).m = m
        <5>1. Head(up) = Post(m)
          BY <2>4, <3>2, <4>1
        <5>2. posting'[m] = posting[m] + 1
          BY <1>1, <3>2, <4>1
        <5>3. QED BY <1>2, <5>1, <5>2
      <4>2. CASE Head(up).m # m
        <5>1. posting'[m] = posting[m]
          BY <1>1, <3>2, <4>2
        <5>2. QED BY <1>2, <5>1
      <4>3. QED BY <4>1, <4>2
    <3>3. CASE posting' = posting
      BY <1>2, <3>3
    <3>4. QED BY <3>1, <3>2, <3>3
  <2>6. posted'[m] + posting'[m] + Copies(up', m) <= posted[m] + posting[m] + Copies(up, m)
    BY <1>2, <2>1, <2>3, <2>5
  <2>7. QED BY <1>4, <2>2, <2>6
<1>19. CASE Inject \/ Refuse
  <2>1. UNCHANGED <<stored, ops, queue, up>>
    BY <1>19 DEF Inject, Refuse, wire, idb
  <2>2. Live(m)' => Live(m)
    BY <1>7, <2>1 DEF Live
  <2>3. posted'[m] + posting'[m] <= posted[m] + posting[m]
    <3>1. CASE Inject
      <4>1. PICK k \in Message : /\ posting[k] > 0 /\ posting' = [posting EXCEPT ![k] = @ - 1]
                                 /\ posted' = [posted EXCEPT ![k] = @ + 1]
        BY <3>1, InjectIs
      <4>2. posting'[m] = IF m = k THEN posting[m] - 1 ELSE posting[m]
        BY <1>1, <4>1
      <4>3. posted'[m] = IF m = k THEN posted[m] + 1 ELSE posted[m]
        BY <1>1, <4>1
      <4>4. QED BY <1>2, <4>2, <4>3
    <3>2. CASE Refuse
      <4>1. UNCHANGED posting \/ \E k \in Message : posting' = [posting EXCEPT ![k] = @ - 1]
        BY <3>2 DEF Refuse
      <4>2. UNCHANGED posted
        BY <3>2 DEF Refuse
      <4>3. posting'[m] <= posting[m]
        <5>1. CASE UNCHANGED posting
          BY <1>2, <5>1
        <5>2. ASSUME NEW k \in Message, posting' = [posting EXCEPT ![k] = @ - 1] PROVE posting'[m] <= posting[m]
          <6>1. posting'[m] = IF m = k THEN posting[m] - 1 ELSE posting[m]
            BY <1>1, <5>2
          <6>2. QED BY <1>2, <6>1
        <5>3. QED BY <4>1, <5>1, <5>2
      <4>4. QED BY <1>2, <4>2, <4>3
    <3>3. QED BY <1>19, <3>1, <3>2
  <2>4. QED BY <1>2, <1>4, <2>1, <2>2, <2>3
<1>20. CASE Drop \/ Logout
  <2>1. UNCHANGED <<posted, posting, stored>> /\ Copies(up', m) = 0 /\ ToSet(<<>>) = {}
    BY <1>5, <1>20 DEF Drop, Logout, Fault, idb, ToSet
  <2>2. CASE Drop
    <3>1. Live(m)' => Live(m)
      BY <1>7, <2>2 DEF Drop, Live, idb
    <3>2. QED BY <1>2, <1>4, <2>1, <3>1
  <2>3. CASE Logout
    <3>1. ops' = Append(ops, Do("clear", 0)) /\ queue' = <<>> /\ Do("clear", 0) \in Transaction /\ Do("clear", 0) # Do("put", m)
      BY <2>3, NotRead DEF Logout, Unpage, Transaction
    <3>2. Live(m)' => Live(m)
      BY <1>7, <1>9, <2>1, <3>1 DEF Live
    <3>3. QED BY <1>2, <1>4, <2>1, <3>2
  <2>4. QED BY <1>20, <2>2, <2>3
<1>21. CASE Transact
  <2>1. ops # <<>> /\ UNCHANGED <<restoring, posted, posting>> /\ Tail(ops) \in Seq(Transaction)
    BY <1>1, <1>21 DEF Transact, relay
  <2>2. KeptIn(Commit(stored, Head(ops)), Tail(ops), m) => KeptIn(stored, ops, m)
    BY <1>1, <2>1, EndKept
  <2>3. CASE Head(ops).op # "read"
    <3>1. stored' = Commit(stored, Head(ops)) /\ ops' = Tail(ops) /\ UNCHANGED <<up, queue>>
      BY <1>21, <2>3 DEF Transact
    <3>2. Live(m)' => Live(m)
      BY <1>7, <2>2, <3>1 DEF Live
    <3>3. QED BY <1>2, <1>4, <2>1, <3>1, <3>2
  <2>4. CASE Head(ops).op = "read"
    <3>1. Rehydrate
      BY <1>21, <2>4 DEF Transact
    <3>2. PICK q, e : RehydratedBy(q, e)
      BY <2>1, <3>1, RehydrateIs
    <3>3. Commit(stored, Head(ops)) = stored /\ UNCHANGED stored
      BY <2>4, <3>1 DEF Commit, Rehydrate
    <3>4. /\ e \in Seq(Transaction) /\ ops' = Tail(ops) \o e /\ HandsOver(q, e) /\ ToSet(q) = ToSet(queue) \cup stored
          /\ q \in Seq(Message)
      BY <3>2 DEF RehydratedBy
    <3>5. \A i \in DOMAIN e : e[i] # Do("put", m)
      BY <3>4, NotRead DEF HandsOver, ToSet
    <3>6. /\ KeptIn(stored', ops', m) => KeptIn(stored, ops, m)
          /\ (\E i \in DOMAIN e : e[i] = Do("delete", m)) => ~KeptIn(stored', ops', m)
      <4>1. /\ KeptIn(stored, Tail(ops) \o e, m) => KeptIn(stored, Tail(ops), m)
            /\ (\E i \in DOMAIN e : e[i] = Do("delete", m)) => ~KeptIn(stored, Tail(ops) \o e, m)
        BY <2>1, <3>4, <3>5, ExtendKept
      <4>2. QED BY <2>2, <3>3, <3>4, <4>1
    <3>7. m \in ToSet(q) => Live(m)
      <4>1. ASSUME m \in stored PROVE Due(m)
        <5>1. Len(ops) \in Nat \ {0} /\ Head(ops) = ops[1] /\ 1 \in 1 .. Len(ops)
          BY <1>1, <2>1
        <5>2. ~Removes(ops[1], m)
          BY <2>4, <5>1 DEF Removes, Do
        <5>3. m \in RecordsOf(stored, ops, 1)
          BY <4>1, <5>2 DEF RecordsOf
        <5>4. QED BY <2>4, <5>1, <5>3 DEF Due, DueIn
      <4>2. QED BY <3>4, <4>1 DEF Live
    <3>11. ~(Due(m)')
      BY <2>1, <2>4, <3>1, RehydratedLast
    <3>8. CASE queue' = q /\ Copies(up', m) = Copies(up, m)
      <4>1. Live(m)' => Live(m)
        BY <3>6, <3>7, <3>8, <3>11 DEF Live
      <4>2. QED BY <1>2, <1>4, <2>1, <3>8, <4>1
    <3>9. CASE /\ queue' = <<>> /\ Copies(up', m) = Copies(up, m) + (IF m \in ToSet(q) THEN 1 ELSE 0)
               /\ \A n \in ToSet(q) : \E i \in DOMAIN e : e[i] = Do("delete", n)
      <4>1. m \notin ToSet(queue')
        BY <3>9 DEF ToSet
      <4>2. CASE m \in ToSet(q)
        <5>1. Live(m) /\ ~(Live(m)') /\ Copies(up', m) = Copies(up, m) + 1 /\ posted'[m] = posted[m] /\ posting'[m] = posting[m]
          BY <2>1, <3>6, <3>7, <3>9, <3>11, <4>1, <4>2 DEF Live
        <5>2. QED BY <1>2, <1>3, <5>1 DEF Weight
      <4>3. CASE m \notin ToSet(q)
        <5>1. (Live(m)' => Live(m)) /\ Copies(up', m) = Copies(up, m) + 0 /\ posted'[m] = posted[m] /\ posting'[m] = posting[m]
          BY <2>1, <3>6, <3>9, <3>11, <4>1, <4>3 DEF Live
        <5>2. QED BY <1>2, <1>4, <5>1
      <4>4. QED BY <4>2, <4>3
    <3>10. QED BY <3>4, <3>8, <3>9 DEF HandsOver
  <2>5. QED BY <2>3, <2>4
<1>22. QED BY <1>12, <1>13, <1>15, <1>16, <1>17, <1>18, <1>20, <1>19, <1>21 DEF Next

------------------------------------------------------------------------------
(* The theorems. *)

\* The inductive invariant, at first and after every step.
LEMMA InitInv == ASSUME SendOutboxAssumption, Init PROVE OutboxInv
<1>1. Typed
  BY InitTyped
<1>2. /\ local = NoRows /\ bubbles = NoRows /\ home = NoRows /\ shown = {} /\ down = <<>> /\ up = <<>>
      /\ queue = <<>> /\ ops = <<>> /\ stored = {} /\ posted = [m \in Message |-> 0]
      /\ again = [m \in Message |-> 0] /\ known = "no"
      /\ posting = [m \in Message |-> 0] /\ asking = <<>> /\ rows = {}
  BY DEF Init
<1>3. Posts(<<>>) = {} /\ ToSet(<<>>) = {}
  BY DEF Posts, ToSet
<1>4. Unwritten
  BY <1>2, <1>3 DEF Unwritten, Absent, NoRows
<1>5. SeenRows /\ EchoFirst /\ Silent
  BY <1>2 DEF SeenRows, EchoFirst, Silent
<1>6. FreshBubblesAreRight
  BY <1>2 DEF FreshBubblesAreRight, NoRows
<1>7. ToBeRead /\ Separated
  BY <1>2 DEF ToBeRead, Due, DueIn, RecordsOf, Separated, SeparatedIn
<1>8. Traced
  BY <1>2 DEF Traced, Sent, NoRows
<1>9. Tokens
  <2> SUFFICES ASSUME NEW m \in Message PROVE posted[m] + posting[m] + Copies(up, m) + (IF Live(m) THEN 1 ELSE 0) <= 1 + again[m]
    BY DEF Tokens
  <2>1. ~Live(m)
    BY <1>2, <1>3 DEF Live, KeptIn, Due, DueIn, RecordsOf
  <2>2. Copies(up, m) = 0
    <3>1. <<>> \in Seq(UpFrame)
      OBVIOUS
    <3>2. QED BY <1>2, <1>3, <3>1, CopiesAre
  <2>3. QED BY <1>2, <2>1, <2>2
<1>10. QED BY <1>1, <1>4, <1>5, <1>6, <1>7, <1>8, <1>9 DEF OutboxInv

LEMMA NextInv == ASSUME SendOutboxAssumption, OutboxInv, [Next]_vars PROVE OutboxInv'
BY NextTyped, NextUnwritten, NextRows, NextFresh, NextSilent, NextToBeRead, NextSeparated, NextTraced, NextTokens
   DEF OutboxInv

LEMMA OutboxIsInductive == Spec => []OutboxInv
<1>1. Init => OutboxInv
  BY InitInv, SendOutboxAssumption
<1>2. OutboxInv /\ [Next]_vars => OutboxInv'
  BY NextInv, SendOutboxAssumption
<1>3. QED BY <1>1, <1>2, PTL DEF Spec

\* The types of the page, the socket, the store and the history hold, and the
\* replay queue (sendOutbox, outbox.ts) holds a message once.
THEOREM OutboxTypes == Spec => []TypeOK
<1>1. OutboxInv => TypeOK
  BY TypesSuffice DEF OutboxInv
<1>2. QED BY <1>1, OutboxIsInductive, PTL

\* enqueueOutbox, flushSendOutbox, rehydrateOutbox: a message that was written is
\* posted, on its way to the relay or in it, or will be sent again by this page or the
\* next, unless its socket died, the relay took it and did not post it, the page went
\* before its record was written, or the user logged out.
THEOREM EveryMessageAccounted == Spec => []Accounted
<1>1. ASSUME OutboxInv PROVE Accounted
  <2> SUFFICES ASSUME NEW m \in Sent \ (lost \cup refused \cup dropped)
               PROVE  \/ posted[m] > 0
                      \/ m \in Posts(up) \/ posting[m] > 0
                      \/ m \in Records /\ (Contains(queue, m) \/ restoring \/ Reading)
    BY DEF Accounted
  <2>1. \/ posted[m] > 0 \/ posting[m] > 0
        \/ m \in Posts(up)
        \/ m \in RecordsOf(stored, ops, Len(ops)) /\ (m \in ToSet(queue) \/ Due(m))
    <3>1. \/ posted[m] + posting[m] > 0
          \/ m \in Posts(up)
          \/ m \in RecordsOf(stored, ops, Len(ops)) /\ (m \in ToSet(queue) \/ Due(m))
      BY <1>1 DEF OutboxInv, Traced
    <3>2. posted[m] \in Nat /\ posting[m] \in Nat
      BY <1>1 DEF OutboxInv, Typed, HistoryTyped, RelayTyped, Sent
    <3>3. QED BY <3>1, <3>2
  <2>2. m \in ToSet(queue) => Contains(queue, m)
    BY <1>1 DEF OutboxInv, Typed, QueueTyped, ToSet, Contains
  <2>3. Due(m) => restoring \/ Reading
    BY <1>1 DEF OutboxInv, Typed, StoreTyped, Due, DueIn, Reading
  <2>4. QED BY <2>1, <2>2, <2>3, RecordsAre
<1>2. QED BY <1>1, OutboxIsInductive, PTL

\* sendMessage, retrySendMessage, flushSendOutbox, rehydrateOutbox: the relay posts a
\* message once, and once more for each tap on Retry and each reload that came before
\* its record was deleted, whatever drops, reloads and logouts come between.
THEOREM PostedTwiceOnlyByRetry == Spec => []TwiceOnlyByRetry
<1>1. ASSUME OutboxInv PROVE TwiceOnlyByRetry
  <2> SUFFICES ASSUME NEW m \in Message PROVE posted[m] <= 1 + again[m]
    BY DEF TwiceOnlyByRetry
  <2>1. posted[m] \in Nat /\ posting[m] \in Nat /\ again[m] \in Nat /\ up \in Seq(UpFrame)
    BY <1>1 DEF OutboxInv, Typed, WireTyped, RelayTyped, HistoryTyped
  <2>2. Copies(up, m) \in Nat
    BY <2>1, CopiesAre
  <2>3. posted[m] + posting[m] + Copies(up, m) + (IF Live(m) THEN 1 ELSE 0) <= 1 + again[m]
    BY <1>1 DEF OutboxInv, Tokens
  <2>4. QED BY <2>1, <2>2, <2>3
<1>2. QED BY <1>1, OutboxIsInductive, PTL

\* armSendWatchdog, the echo handler and drainSync: a pending bubble of this page has
\* its watchdog, and a bubble never stands beside the delivered message.
THEOREM FreshBubblesStayRight == Spec => []FreshBubblesAreRight
<1>1. OutboxInv => FreshBubblesAreRight
  BY DEF OutboxInv
<1>2. QED BY <1>1, OutboxIsInductive, PTL
===============================================================================
