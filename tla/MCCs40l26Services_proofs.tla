----------------------- MODULE MCCs40l26Services_proofs -----------------------
(***************************************************************************)
(* Proofs about the services of the CS40L26 driver: its calibrations, the  *)
(* streams that effects interrupt, the mailbox queue, the hibernation      *)
(* handshake and the write sequence, which share nothing.  Each has a      *)
(* section of its own, with an inductive invariant, its initial states and *)
(* its steps; the last section has the invariant of the whole and the      *)
(* theorems.  What the chip replays, and what a scan of its list finds,    *)
(* recurses from an operation to a later one: the first section has the    *)
(* induction this takes, from the well-founded order of the natural        *)
(* numbers.                                                                *)
(***************************************************************************)
EXTENDS MCCs40l26Services, Sequences, FiniteSets, NaturalsInduction, WellFoundedInduction,
        SequenceTheorems, TLAPS

--------------------------------------------------------------------------------
(* Induction and recursion over numbers, of sets and functions *)

LEMMA LeastNatural ==
    ASSUME NEW S, S \subseteq Nat, S # {}
    PROVE  \E n \in S : \A m \in S : n <= m
  <1>1. \E n \in S : \A m \in S : ~ (<<m, n>> \in OpToRel(<, Nat))
    BY NatLessThanWellFounded, WFMin
  <1>2. ASSUME NEW m \in Nat, NEW n \in Nat, ~ (<<m, n>> \in OpToRel(<, Nat))
        PROVE  n <= m
    BY <1>2 DEF OpToRel
  <1> QED BY <1>1, <1>2

(* What holds of 0, and of a number up to n if it holds of the one before, holds of n. *)
LEMMA Induction ==
    ASSUME NEW n \in Nat, NEW S, 0 \in S,
           \A m \in Nat : m < n /\ m \in S => m + 1 \in S
    PROVE  \A m \in 0..n : m \in S
  <1> SUFFICES ASSUME {m \in 0..n : m \notin S} # {} PROVE FALSE
    OBVIOUS
  <1>1. PICK m \in {k \in 0..n : k \notin S} : \A k \in {k \in 0..n : k \notin S} : m <= k
    <2>1. {k \in 0..n : k \notin S} \subseteq Nat
      OBVIOUS
    <2> QED BY <2>1, LeastNatural
  <1>2. m \in Nat /\ m # 0 /\ m <= n /\ m \notin S
    BY <1>1
  <1>3. m - 1 \in Nat /\ m - 1 < n /\ m - 1 \in 0..n /\ (m - 1) + 1 = m /\ ~(m <= m - 1)
    BY <1>2
  <1>4. m - 1 \in S
    BY <1>1, <1>3
  <1> QED BY <1>2, <1>3, <1>4

(* A function that each argument takes from a later one, up to the last, exists. *)
Descends(f, T, n, stop, own, later, built) ==
    /\ f \in [0..n -> T]
    /\ \A p \in 0..n : f[p] = IF stop[p] THEN own[p] ELSE built[p][f[later[p]]]

LaterAt(n, stop, later) ==
    \A p \in 0..n : ~stop[p] => later[p] \in 0..n /\ p < later[p]

LEMMA Descent ==
    ASSUME NEW T, NEW n \in Nat, NEW stop, NEW own \in [0..n -> T], NEW later,
           NEW built \in [0..n -> [T -> T]], LaterAt(n, stop, later)
    PROVE  \E f : Descends(f, T, n, stop, own, later, built)
  <1> DEFINE From(f, p) == f[p] = IF stop[p] THEN own[p] ELSE built[p][f[later[p]]]
             Down(m) == \E f \in [0..n -> T] : \A p \in 0..n : p + m >= n => From(f, p)
             Good == {m \in Nat : Down(m)}
  <1>1. Down(0)
    <2> DEFINE f == [p \in 0..n |-> own[p]]
    <2>1. f \in [0..n -> T]
      OBVIOUS
    <2>2. ASSUME NEW p \in 0..n, p + 0 >= n PROVE From(f, p)
      <3>1. p = n /\ stop[p]
        BY <2>2 DEF LaterAt
      <3> QED BY <3>1
    <2> HIDE DEF f, From
    <2> QED BY <2>1, <2>2
  <1>2. ASSUME NEW m \in Nat, m < n, Down(m) PROVE Down(m + 1)
    <2>1. PICK g \in [0..n -> T] : \A p \in 0..n : p + m >= n => From(g, p)
      BY <1>2
    <2> DEFINE q == n - (m + 1)
               v == IF stop[q] THEN own[q] ELSE built[q][g[later[q]]]
               f == [p \in 0..n |-> IF p = q THEN v ELSE g[p]]
    <2>2. q \in 0..n
      BY <1>2
    <2>3. v \in T
      <3>1. CASE stop[q]
        BY <3>1, <2>2
      <3>2. CASE ~stop[q]
        <4>1. later[q] \in 0..n
          BY <3>2, <2>2 DEF LaterAt
        <4>2. g[later[q]] \in T /\ built[q] \in [T -> T]
          BY <4>1, <2>2, <2>1
        <4> QED BY <3>2, <4>2
      <3> QED BY <3>1, <3>2
    <2>4. f \in [0..n -> T]
      <3> HIDE DEF v, q
      <3> QED BY <2>3
    <2>5. \A p \in 0..n : p # q => f[p] = g[p]
      OBVIOUS
    <2>6. f[q] = v
      BY <2>2
    <2>7. ASSUME NEW p \in 0..n, p + (m + 1) >= n PROVE From(f, p)
      <3>1. ~stop[p] => later[p] \in 0..n /\ p < later[p]
        BY DEF LaterAt
      <3>2. ~stop[p] => later[p] # q /\ f[later[p]] = g[later[p]]
        <4> HIDE DEF f
        <4> QED BY <3>1, <2>7, <2>5, <2>2, <1>2
      <3>3. CASE p = q
        <4>1. f[p] = IF stop[p] THEN own[p] ELSE built[p][g[later[p]]]
          BY <3>3, <2>6
        <4> HIDE DEF f, q, v
        <4> QED BY <4>1, <3>2
      <3>4. CASE p # q
        <4>1. p + m >= n
          BY <3>4, <2>7, <1>2
        <4>2. From(g, p) /\ f[p] = g[p]
          BY <4>1, <2>1, <2>5, <3>4
        <4> HIDE DEF f, q, v
        <4> QED BY <4>2, <3>2
      <3> QED BY <3>3, <3>4
    <2> HIDE DEF f, From
    <2> QED BY <2>4, <2>7
  <1> HIDE DEF Down
  <1>3. 0 \in Good /\ \A m \in Nat : m < n /\ m \in Good => m + 1 \in Good
    BY <1>1, <1>2
  <1>4. n \in Good
    <2> HIDE DEF Good
    <2>1. \A m \in 0..n : m \in Good
      BY <1>3, Induction
    <2> QED BY <2>1
  <1>5. Down(n)
    BY <1>4
  <1>6. PICK f \in [0..n -> T] : \A p \in 0..n : p + n >= n => From(f, p)
    BY <1>5 DEF Down
  <1>7. \A p \in 0..n : From(f, p)
    <2> HIDE DEF From
    <2> QED BY <1>6
  <1> QED BY <1>7 DEF Descends

(* What holds of a number up to n if it holds of all later ones, holds of all. *)
LEMMA Downward ==
    ASSUME NEW n \in Nat, NEW S,
           \A p \in 0..n : (\A q \in 0..n : p < q => q \in S) => p \in S
    PROVE  \A p \in 0..n : p \in S
  <1> DEFINE Out == {m \in 0..n : n - m \notin S}
  <1> SUFFICES ASSUME Out # {} PROVE FALSE
    <2>1. ASSUME Out = {}, NEW p \in 0..n PROVE p \in S
      <3>1. n - p \in 0..n /\ n - (n - p) = p
        OBVIOUS
      <3>2. n - p \notin Out
        BY <2>1
      <3>3. n - (n - p) \in S
        BY <3>1, <3>2
      <3> QED BY <3>1, <3>3
    <2> QED BY <2>1
  <1>1. PICK m \in Out : \A k \in Out : m <= k
    <2>1. Out \subseteq Nat
      OBVIOUS
    <2> HIDE DEF Out
    <2> QED BY <2>1, LeastNatural
  <1>2. n - m \in 0..n /\ n - m \notin S
    BY <1>1
  <1>3. ASSUME NEW q \in 0..n, n - m < q PROVE q \in S
    <2>1. n - q \in 0..n /\ n - (n - q) = q /\ ~(m <= n - q)
      BY <1>1, <1>3
    <2> QED BY <2>1, <1>1
  <1> QED BY <1>2, <1>3

--------------------------------------------------------------------------------
(* Cs40l26Calib *)

LEMMA CalibConstants == MaxJobs \in Nat /\ "nobody" \notin Users
  BY ServicesAssumption DEF ServicesAssumption, Calib!CalibAssumption

(* What the DSP has to do or has done, *)
Entries(list) == {list[i] : i \in 1..Len(list)}

Known == Entries(jobs) \cup Entries(done_queue)

LEMMA Appended ==
    ASSUME NEW S, NEW s \in Seq(S), NEW x \in S
    PROVE  /\ Append(s, x) \in Seq(S) /\ Len(Append(s, x)) = Len(s) + 1
           /\ Entries(Append(s, x)) \subseteq Entries(s) \cup {x}
  BY DEF Entries

LEMMA Without ==
    ASSUME NEW S, NEW s \in Seq(S), NEW i \in 1..Len(s)
    PROVE  /\ SubSeq(s, 1, i - 1) \o SubSeq(s, i + 1, Len(s)) \in Seq(S)
           /\ Len(SubSeq(s, 1, i - 1) \o SubSeq(s, i + 1, Len(s))) = Len(s) - 1
           /\ Entries(SubSeq(s, 1, i - 1) \o SubSeq(s, i + 1, Len(s))) \subseteq Entries(s)
  <1> DEFINE a == SubSeq(s, 1, i - 1)
             b == SubSeq(s, i + 1, Len(s))
  <1>1. a \in Seq(S) /\ Len(a) = i - 1 /\ \A j \in 1..(i - 1) : a[j] = s[j]
    OBVIOUS
  <1>2. b \in Seq(S) /\ Len(b) = Len(s) - i /\ \A j \in 1..(Len(s) - i) : b[j] = s[i + j]
    OBVIOUS
  <1> HIDE DEF a, b
  <1>3. /\ a \o b \in Seq(S) /\ Len(a \o b) = Len(s) - 1
        /\ \A j \in 1..(Len(s) - 1) : (a \o b)[j] = IF j <= i - 1 THEN a[j] ELSE b[j - (i - 1)]
    <2>1. /\ a \o b \in Seq(S) /\ Len(a \o b) = Len(a) + Len(b)
          /\ \A j \in 1 .. Len(a) + Len(b) : (a \o b)[j] = IF j <= Len(a) THEN a[j] ELSE b[j - Len(a)]
      BY <1>1, <1>2, ConcatProperties, Zenon
    <2>2. Len(a) + Len(b) = Len(s) - 1 /\ Len(a) = i - 1
      BY <1>1, <1>2
    <2> QED BY <2>1, <2>2
  <1>4. ASSUME NEW j \in 1..(Len(s) - 1) PROVE (a \o b)[j] \in Entries(s)
    <2>1. CASE j < i
      <3>1. (a \o b)[j] = s[j] /\ j \in 1..Len(s)
        BY <1>1, <1>3, <2>1
      <3> QED BY <3>1, Zenon DEF Entries
    <2>2. CASE j >= i
      <3>1. j - (i - 1) \in 1..(Len(s) - i) /\ i + (j - (i - 1)) = j + 1
        BY <2>2
      <3>2. (a \o b)[j] = s[j + 1] /\ j + 1 \in 1..Len(s)
        BY <1>2, <1>3, <2>2, <3>1
      <3>3. PICK k \in 1..Len(s) : (a \o b)[j] = s[k]
        BY <3>2
      <3> QED BY <3>3, Zenon DEF Entries
    <2>3. j < i \/ j >= i
      OBVIOUS
    <2> QED BY <2>1, <2>2, <2>3, Zenon
  <1>5. Entries(a \o b) \subseteq Entries(s)
    BY <1>3, <1>4 DEF Entries
  <1> QED BY <1>3, <1>5 DEF a, b

LEMMA Headed ==
    ASSUME NEW S, NEW s \in Seq(S), s # <<>>
    PROVE  /\ Head(s) \in Entries(s) /\ Head(s) \in S
           /\ Tail(s) \in Seq(S) /\ Len(Tail(s)) = Len(s) - 1
           /\ Entries(Tail(s)) \subseteq Entries(s)
  BY DEF Entries

LEMMA AbandonedTyped ==
    ASSUME NEW list \in Seq(Calib!Job), NEW u
    PROVE  /\ Calib!Abandoned(list, u) \in Seq(Calib!Job) /\ Len(Calib!Abandoned(list, u)) = Len(list)
           /\ \A e \in Entries(Calib!Abandoned(list, u)) :
                \E d \in Entries(list) : /\ e.kind = d.kind
                                         /\ e.user = IF d.user = u THEN "nobody" ELSE d.user
  <1> DEFINE a == Calib!Abandoned(list, u)
  <1>1. \A d \in Calib!Job : [d EXCEPT !.user = "nobody"] \in Calib!Job
    BY DEF Calib!Job
  <1>2. \A i \in 1..Len(list) : a[i] = IF list[i].user = u THEN [list[i] EXCEPT !.user = "nobody"] ELSE list[i]
    BY DEF Calib!Abandoned
  <1>3. a = [i \in 1..Len(list) |-> IF list[i].user = u THEN [list[i] EXCEPT !.user = "nobody"] ELSE list[i]]
    BY DEF Calib!Abandoned
  <1>4. \A i \in 1..Len(list) : list[i] \in Calib!Job
    OBVIOUS
  <1>5. \A i \in 1..Len(list) : a[i] \in Calib!Job
    BY <1>1, <1>2, <1>4
  <1>6. a \in Seq(Calib!Job) /\ Len(a) = Len(list)
    <2>1. a \in [1..Len(list) -> Calib!Job]
      BY <1>3, <1>5
    <2> HIDE DEF a
    <2> QED BY <2>1
  <1>7. \A i \in 1..Len(list) :
          /\ a[i].kind = list[i].kind
          /\ a[i].user = IF list[i].user = u THEN "nobody" ELSE list[i].user
    BY <1>2, <1>4 DEF Calib!Job
  <1> HIDE DEF a
  <1> QED BY <1>6, <1>7 DEF Entries, a

(* and what it and the driver know of a request: a measurement is made for somebody only
   while he waits, and of the kind he asked for; one that no other of its kind met has
   been reported if its completion is set. *)
ForWaiting ==
    \A e \in Known : e.user # "nobody" => Calib!Waiting(e.user) /\ e.kind = kind[e.user]

AloneWaits(u) ==
    Calib!Waiting(u) /\ alone[u] =>
        /\ \A e \in Known : e.kind = kind[u] => e.user = u
        /\ \A v \in Users : v # u /\ Calib!Waiting(v) => kind[v] # kind[u]
        /\ reported[u] <=> cont[kind[u]] > 0

CalibInv ==
    /\ Calib!TypeOK /\ ForWaiting
    /\ \A u \in Users : AloneWaits(u)
    /\ Calib!Truthful /\ Calib!Heard

LEMMA CalibInit ==
    ASSUME Calib!Init
    PROVE  CalibInv
  <1>1. Known = {}
    BY DEF Calib!Init, Known, Entries
  <1>2. Calib!TypeOK
    BY CalibConstants DEF Calib!Init, Calib!TypeOK
  <1> QED BY <1>1, <1>2 DEF Calib!Init, CalibInv, ForWaiting, AloneWaits, Calib!Waiting,
       Calib!Truthful, Calib!Heard

(* What other requests and the DSP do leaves what is known of a request. *)
LEMMA FewerKnown ==
    ASSUME CalibInv, Known' \subseteq Known,
           UNCHANGED <<at, kind, cont, alone, reported>>
    PROVE  ForWaiting' /\ (\A u \in Users : AloneWaits(u)') /\ Calib!Truthful' /\ Calib!Heard'
  <1>1. ForWaiting'
    BY DEF CalibInv, ForWaiting, Calib!Waiting
  <1>2. ASSUME NEW u \in Users PROVE AloneWaits(u)'
    BY DEF CalibInv, AloneWaits, Calib!Waiting
  <1> QED BY <1>1, <1>2 DEF CalibInv, Calib!Truthful, Calib!Heard

LEMMA CalibStore ==
    ASSUME CalibInv, NEW u \in Users, Calib!Store(u)
    PROVE  CalibInv'
  <1>1. PICK k \in Kinds : kind' = [kind EXCEPT ![u] = k]
    BY DEF Calib!Store
  <1>2. /\ at' = [at EXCEPT ![u] = "checked"] /\ at[u] \notin {"checked", "waiting", "copy"}
        /\ UNCHANGED <<calib_fw, cont, jobs, done_queue, alone, reported>>
    BY DEF Calib!Store, Calib!Goes
  <1>3. Calib!TypeOK'
    BY <1>1, <1>2 DEF CalibInv, Calib!TypeOK
  <1>4. \A v \in Users : /\ at'[v] = IF v = u THEN "checked" ELSE at[v]
                        /\ v # u => kind'[v] = kind[v]
    BY <1>1, <1>2 DEF CalibInv, Calib!TypeOK
  <1>5. Known' = Known
    BY <1>2 DEF Known, Entries
  <1>6. \A e \in Known : e.user # "nobody" => e.user \in Users
    <2>1. \A e \in Known : e \in Calib!Job
      BY DEF CalibInv, Calib!TypeOK, Known, Entries
    <2> QED BY <2>1 DEF Calib!Job
  <1>7. ForWaiting'
    BY <1>2, <1>4, <1>5, <1>6 DEF CalibInv, ForWaiting, Calib!Waiting
  <1>8. ASSUME NEW v \in Users PROVE AloneWaits(v)'
    BY <1>2, <1>4, <1>5 DEF CalibInv, AloneWaits, Calib!Waiting
  <1>9. Calib!Truthful' /\ Calib!Heard'
    BY <1>2, <1>4 DEF CalibInv, Calib!Truthful, Calib!Heard
  <1> QED BY <1>3, <1>7, <1>8, <1>9 DEF CalibInv

LEMMA KnownJobs ==
    ASSUME Calib!TypeOK
    PROVE  \A e \in Known : /\ e.kind \in Kinds
                            /\ e.user \in Users \cup {"nobody"}
  <1>1. /\ \A i \in 1..Len(jobs) : jobs[i] \in Calib!Job
        /\ \A i \in 1..Len(done_queue) : done_queue[i] \in Calib!Job
    BY DEF Calib!TypeOK
  <1>2. \A e \in Known : e \in Calib!Job
    BY <1>1, Zenon DEF Known, Entries
  <1> QED BY <1>2 DEF Calib!Job

LEMMA CalibSend ==
    ASSUME CalibInv, NEW u \in Users, Calib!Send(u)
    PROVE  CalibInv'
  <1>k. kind[u] \in Kinds /\ at[u] = "checked" /\ kind' = kind /\ calib_fw' = calib_fw /\ done_queue' = done_queue
    BY DEF CalibInv, Calib!TypeOK, Calib!Send
  <1>c. /\ cont' \in [Kinds -> Nat] /\ cont'[kind[u]] = 0
        /\ \A k \in Kinds : k # kind[u] => cont'[k] = cont[k]
    BY <1>k DEF Calib!Send, Calib!Reinit, CalibInv, Calib!TypeOK
  <1>r. /\ reported' \in [Users -> BOOLEAN] /\ reported'[u] = FALSE
        /\ \A v \in Users : v # u => reported'[v] = reported[v]
    BY DEF Calib!Send, CalibInv, Calib!TypeOK
  <1>j. /\ jobs' \in Seq(Calib!Job) /\ Len(jobs') + Len(done_queue') <= MaxJobs
        /\ \A e \in Known' : \/ e \in Known
                             \/ /\ e.kind = kind[u] /\ e.user \in {u, "nobody"}
                                /\ e.user = u => at' = [at EXCEPT ![u] = "waiting"]
    <2>1. [kind |-> kind[u], user |-> u] \in Calib!Job /\ [kind |-> kind[u], user |-> "nobody"] \in Calib!Job
      BY <1>k DEF Calib!Job
    <2>2. Len(jobs) + Len(done_queue) < MaxJobs /\ jobs \in Seq(Calib!Job) /\ done_queue \in Seq(Calib!Job)
      BY DEF Calib!Send, CalibInv, Calib!TypeOK
    <2>3. \/ jobs' = jobs
          \/ jobs' = Append(jobs, [kind |-> kind[u], user |-> u]) /\ at' = [at EXCEPT ![u] = "waiting"]
          \/ jobs' = Append(jobs, [kind |-> kind[u], user |-> "nobody"])
      BY DEF Calib!Send, Calib!Goes
    <2>4. CASE jobs' = jobs
      BY <1>k, <2>2, <2>4, CalibConstants DEF Known, Entries
    <2>5. CASE jobs' = Append(jobs, [kind |-> kind[u], user |-> u]) /\ at' = [at EXCEPT ![u] = "waiting"]
      <3>1. /\ jobs' \in Seq(Calib!Job) /\ Len(jobs') = Len(jobs) + 1
            /\ Entries(jobs') \subseteq Entries(jobs) \cup {[kind |-> kind[u], user |-> u]}
        BY <2>1, <2>2, <2>5, Appended
      <3>2. Entries(done_queue)' = Entries(done_queue) /\ Entries(jobs)' = Entries(jobs')
        BY <1>k DEF Entries
      <3> QED BY <1>k, <2>2, <2>5, <3>1, <3>2, CalibConstants DEF Known
    <2>6. CASE jobs' = Append(jobs, [kind |-> kind[u], user |-> "nobody"])
      <3>1. /\ jobs' \in Seq(Calib!Job) /\ Len(jobs') = Len(jobs) + 1
            /\ Entries(jobs') \subseteq Entries(jobs) \cup {[kind |-> kind[u], user |-> "nobody"]}
        BY <2>1, <2>2, <2>6, Appended
      <3>2. Entries(done_queue)' = Entries(done_queue) /\ Entries(jobs)' = Entries(jobs')
        BY <1>k DEF Entries
      <3> QED BY <1>k, <2>2, <2>6, <3>1, <3>2, CalibConstants DEF Known
    <2> QED BY <2>3, <2>4, <2>5, <2>6
  <1>a. /\ at' \in [Users -> {"idle", "checked", "waiting", "done", "copy", "ok", "etime", "error"}]
        /\ at'[u] \in {"waiting", "error"}
        /\ \A v \in Users : v # u => at'[v] = at[v]
    BY DEF Calib!Send, Calib!Goes, CalibInv, Calib!TypeOK
  <1>l. /\ alone' \in [Users -> BOOLEAN]
        /\ \A v \in Users : v # u /\ alone'[v] => alone[v] /\ kind[v] # kind[u]
        /\ alone'[u] => /\ Calib!Outstanding(kind[u]) \cup Calib!Unread(kind[u]) = {}
                        /\ \A v \in Users : Calib!Waiting(v) => kind[v] # kind[u]
    <2>1. CASE alone' = [v \in Users |-> v # u /\ alone[v] /\ kind[v] # kind[u]]
      <3>1. \A v \in Users : alone'[v] = (v # u /\ alone[v] /\ kind[v] # kind[u])
        BY <2>1, Zenon
      <3>2. \A v \in Users : (v # u /\ alone[v] /\ kind[v] # kind[u]) \in BOOLEAN
        BY Zenon
      <3>3. alone' \in [Users -> BOOLEAN]
        BY <2>1, <3>2, Zenon
      <3> QED BY <3>1, <3>3, Zenon
    <2>2. CASE alone' = [v \in Users |-> IF v = u THEN /\ Calib!Outstanding(kind[u]) \cup Calib!Unread(kind[u]) = {}
                                                      /\ \A w \in Users : Calib!Waiting(w) => kind[w] # kind[u]
                                         ELSE alone[v] /\ kind[v] # kind[u]]
      <3>1. \A v \in Users : v # u => alone'[v] = (alone[v] /\ kind[v] # kind[u])
        BY <2>2, Zenon
      <3>2. alone'[u] = (/\ Calib!Outstanding(kind[u]) \cup Calib!Unread(kind[u]) = {}
                         /\ \A w \in Users : Calib!Waiting(w) => kind[w] # kind[u])
        BY <2>2, Zenon
      <3>3. ASSUME NEW v \in Users PROVE alone'[v] \in BOOLEAN
        BY <3>1, <3>2, Zenon
      <3>4. alone' \in [Users -> BOOLEAN]
        BY <2>2, <3>3, Zenon
      <3> QED BY <3>1, <3>2, <3>4, Zenon
    <2> QED BY <2>1, <2>2, Zenon DEF Calib!Send
  <1>1. Calib!TypeOK'
    BY <1>k, <1>c, <1>r, <1>j, <1>a, <1>l DEF CalibInv, Calib!TypeOK
  <1>2. ForWaiting'
    <2> SUFFICES ASSUME NEW e \in Known', e.user # "nobody"
                 PROVE  Calib!Waiting(e.user)' /\ e.kind = kind[e.user]
      BY <1>k DEF ForWaiting
    <2>1. CASE e \in Known
      <3>1. Calib!Waiting(e.user) /\ e.kind = kind[e.user] /\ e.user \in Users
        BY <2>1, KnownJobs DEF CalibInv, ForWaiting
      <3>2. e.user # u
        BY <1>k, <3>1 DEF Calib!Waiting
      <3> QED BY <1>a, <3>1, <3>2 DEF Calib!Waiting
    <2>2. CASE e \notin Known
      <3>1. e.user = u /\ e.kind = kind[u] /\ at' = [at EXCEPT ![u] = "waiting"]
        BY <1>j, <2>2, Zenon
      <3> QED BY <3>1 DEF Calib!Waiting, CalibInv, Calib!TypeOK
    <2> QED BY <2>1, <2>2
  <1>3. ASSUME NEW v \in Users PROVE AloneWaits(v)'
    <2>1. CASE v = u
      <3> SUFFICES ASSUME Calib!Waiting(u)', alone'[u] PROVE AloneWaits(u)'
        BY <2>1 DEF AloneWaits
      <3>1. \A e \in Known : e.kind # kind[u]
        BY <1>l DEF Calib!Outstanding, Calib!Unread, Known, Entries
      <3>2. at' = [at EXCEPT ![u] = "waiting"]
        BY <1>a DEF Calib!Waiting, Calib!Send, Calib!Goes, CalibInv, Calib!TypeOK
      <3>4. \A e \in Known' : e.kind = kind[u] => e.user = u
        <4>1. jobs' \in {jobs, Append(jobs, [kind |-> kind[u], user |-> u])}
          BY <1>a DEF Calib!Waiting, Calib!Send, Calib!Goes, CalibInv, Calib!TypeOK
        <4>2. Entries(jobs') \subseteq Entries(jobs) \cup {[kind |-> kind[u], user |-> u]}
          <5>1. [kind |-> kind[u], user |-> u] \in Calib!Job /\ jobs \in Seq(Calib!Job)
            BY <1>k DEF Calib!Job, CalibInv, Calib!TypeOK
          <5>2. CASE jobs' = jobs
            BY <5>2
          <5>3. CASE jobs' = Append(jobs, [kind |-> kind[u], user |-> u])
            BY <5>1, <5>3, Appended
          <5> QED BY <4>1, <5>2, <5>3
        <4>3. Entries(done_queue)' = Entries(done_queue) /\ Entries(jobs)' = Entries(jobs')
          BY <1>k DEF Entries
        <4> QED BY <3>1, <4>2, <4>3 DEF Known
      <3> QED BY <1>k, <1>c, <1>r, <1>a, <1>l, <3>4 DEF AloneWaits, Calib!Waiting
    <2>2. CASE v # u
      <3> SUFFICES ASSUME Calib!Waiting(v)', alone'[v] PROVE AloneWaits(v)'
        BY DEF AloneWaits
      <3>1. Calib!Waiting(v) /\ alone[v] /\ kind[v] # kind[u] /\ kind[v] \in Kinds
        BY <1>a, <1>l, <2>2 DEF Calib!Waiting, CalibInv, Calib!TypeOK
      <3>2. AloneWaits(v)
        BY DEF CalibInv
      <3>3. \A e \in Known' : e.kind = kind[v] => e.user = v
        BY <1>j, <3>1, <3>2, Zenon DEF AloneWaits
      <3>4. \A w \in Users : w # v /\ Calib!Waiting(w)' => kind[w] # kind[v]
        BY <1>a, <3>1, <3>2 DEF AloneWaits, Calib!Waiting
      <3>5. reported'[v] <=> cont'[kind[v]] > 0
        BY <1>c, <1>r, <2>2, <3>1, <3>2 DEF AloneWaits
      <3> QED BY <1>k, <3>3, <3>4, <3>5 DEF AloneWaits
    <2> QED BY <2>1, <2>2
  <1>4. Calib!Truthful' /\ Calib!Heard'
    BY <1>r, <1>a, <1>l DEF CalibInv, Calib!Truthful, Calib!Heard
  <1> QED BY <1>1, <1>2, <1>3, <1>4 DEF CalibInv

LEMMA CalibGivesUp ==
    ASSUME CalibInv, NEW u \in Users, Calib!Waiting(u), NEW place \in {"copy", "ok", "etime"},
           at' = [at EXCEPT ![u] = place],
           jobs' = Calib!Abandoned(jobs, u), done_queue' = Calib!Abandoned(done_queue, u),
           UNCHANGED <<calib_fw, kind, alone, reported>>,
           cont' \in [Kinds -> Nat],
           \A k \in Kinds : k # kind[u] => cont'[k] = cont[k],
           place = "etime" => cont[kind[u]] = 0,
           place # "etime" => cont[kind[u]] > 0
    PROVE  CalibInv'
  <1>1. /\ jobs' \in Seq(Calib!Job) /\ Len(jobs') = Len(jobs)
        /\ done_queue' \in Seq(Calib!Job) /\ Len(done_queue') = Len(done_queue)
    BY AbandonedTyped DEF CalibInv, Calib!TypeOK
  <1>2. \A e \in Known' : \E d \in Known : /\ e.kind = d.kind
                                           /\ e.user = IF d.user = u THEN "nobody" ELSE d.user
    <2>1. /\ \A e \in Entries(Calib!Abandoned(jobs, u)) :
               \E d \in Entries(jobs) : /\ e.kind = d.kind
                                        /\ e.user = IF d.user = u THEN "nobody" ELSE d.user
          /\ \A e \in Entries(Calib!Abandoned(done_queue, u)) :
               \E d \in Entries(done_queue) : /\ e.kind = d.kind
                                         /\ e.user = IF d.user = u THEN "nobody" ELSE d.user
      BY AbandonedTyped DEF CalibInv, Calib!TypeOK
    <2>2. Known' = Entries(Calib!Abandoned(jobs, u)) \cup Entries(Calib!Abandoned(done_queue, u))
      BY DEF Known, Entries
    <2> QED BY <2>1, <2>2 DEF Known
  <1>3. /\ at' \in [Users -> {"idle", "checked", "waiting", "done", "copy", "ok", "etime", "error"}]
        /\ at'[u] = place
        /\ \A v \in Users : v # u => at'[v] = at[v]
    BY DEF CalibInv, Calib!TypeOK
  <1>4. Calib!TypeOK'
    BY <1>1, <1>3 DEF CalibInv, Calib!TypeOK
  <1>5. ForWaiting'
    BY <1>2, <1>3, KnownJobs, CalibConstants DEF CalibInv, ForWaiting, Calib!Waiting
  <1>6. ASSUME NEW v \in Users PROVE AloneWaits(v)'
    <2> SUFFICES ASSUME Calib!Waiting(v)', alone[v] PROVE AloneWaits(v)'
      BY DEF AloneWaits
    <2>1. v # u /\ Calib!Waiting(v)
      BY <1>3 DEF Calib!Waiting
    <2>2. AloneWaits(v) /\ kind[u] # kind[v] /\ kind[v] \in Kinds
      BY <2>1 DEF CalibInv, Calib!TypeOK, AloneWaits
    <2>3. \A e \in Known' : e.kind = kind'[v] => e.user = v
      BY <1>2, <2>1, <2>2 DEF AloneWaits
    <2> QED BY <1>3, <2>1, <2>2, <2>3 DEF AloneWaits, Calib!Waiting
  <1>7. Calib!Truthful' /\ Calib!Heard'
    <2>1. alone[u] => (reported[u] <=> cont[kind[u]] > 0)
      BY DEF CalibInv, AloneWaits
    <2> QED BY <1>3, <2>1 DEF CalibInv, Calib!Truthful, Calib!Heard
  <1> QED BY <1>4, <1>5, <1>6, <1>7 DEF CalibInv

LEMMA CalibIrq ==
    ASSUME CalibInv, Calib!Irq
    PROVE  CalibInv'
  <1>1. PICK job \in Known : /\ job = Head(done_queue) /\ job.kind \in Kinds
                            /\ cont' = [cont EXCEPT ![job.kind] = @ + 1]
                            /\ reported' = [u \in Users |-> reported[u] \/ job.user = u]
    BY Headed, KnownJobs DEF Calib!Irq, Calib!Completes, CalibInv, Calib!TypeOK, Known
  <1>2. /\ done_queue' = Tail(done_queue) /\ done_queue # <<>>
        /\ UNCHANGED <<calib_fw, at, kind, jobs, alone>>
    BY DEF Calib!Irq
  <1>3. done_queue' \in Seq(Calib!Job) /\ Len(done_queue') = Len(done_queue) - 1 /\ Known' \subseteq Known
    <2>1. /\ done_queue' \in Seq(Calib!Job) /\ Len(done_queue') = Len(done_queue) - 1
          /\ Entries(done_queue') \subseteq Entries(done_queue)
      BY <1>2, Headed DEF CalibInv, Calib!TypeOK
    <2>2. Known' = Entries(jobs) \cup Entries(done_queue')
      BY <1>2 DEF Known, Entries
    <2> QED BY <2>1, <2>2 DEF Known
  <1>4. \A u \in Users : reported'[u] = (reported[u] \/ job.user = u)
    BY <1>1, Zenon
  <1>5. reported' \in [Users -> BOOLEAN]
    <2>1. \A u \in Users : (reported[u] \/ job.user = u) \in BOOLEAN
      BY Zenon
    <2> QED BY <1>1, <2>1, Zenon
  <1>6. /\ cont' \in [Kinds -> Nat] /\ cont'[job.kind] > 0
        /\ \A k \in Kinds : k # job.kind => cont'[k] = cont[k]
    BY <1>1 DEF CalibInv, Calib!TypeOK
  <1>7. Calib!TypeOK'
    BY <1>2, <1>3, <1>5, <1>6, CalibConstants DEF CalibInv, Calib!TypeOK
  <1>8. ForWaiting'
    BY <1>2, <1>3 DEF CalibInv, ForWaiting, Calib!Waiting
  <1>9. ASSUME NEW u \in Users PROVE AloneWaits(u)'
    <2> SUFFICES ASSUME Calib!Waiting(u), alone[u] PROVE AloneWaits(u)'
      BY <1>2 DEF AloneWaits, Calib!Waiting
    <2>1. AloneWaits(u) /\ kind[u] \in Kinds
      BY DEF CalibInv, Calib!TypeOK
    <2>2. job.user = u <=> job.kind = kind[u]
      BY <1>1, <2>1, CalibConstants DEF CalibInv, ForWaiting, AloneWaits
    <2>3. reported'[u] <=> cont'[kind[u]] > 0
      BY <1>4, <1>6, <2>1, <2>2 DEF AloneWaits
    <2> QED BY <1>2, <1>3, <2>1, <2>3 DEF AloneWaits, Calib!Waiting
  <1>10. Calib!Truthful' /\ Calib!Heard'
    <2>1. \A u \in Users : at[u] # "waiting" => job.user # u
      BY CalibConstants DEF CalibInv, ForWaiting, Calib!Waiting
    <2> QED BY <1>2, <1>4, <2>1 DEF CalibInv, Calib!Truthful, Calib!Heard
  <1> QED BY <1>7, <1>8, <1>9, <1>10 DEF CalibInv

LEMMA CalibStep ==
    ASSUME CalibInv, [Calib!Next]_calib_vars
    PROVE  CalibInv'
  <1>1. ASSUME NEW u \in Users, Calib!Store(u) PROVE CalibInv'
    BY <1>1, CalibStore
  <1>2. ASSUME NEW u \in Users, Calib!Send(u) PROVE CalibInv'
    BY <1>2, CalibSend
  <1>3. ASSUME NEW u \in Users, Calib!Wake(u) PROVE CalibInv'
    <2>1. PICK place \in {"copy", "ok"} : at' = [at EXCEPT ![u] = place]
      BY <1>3 DEF Calib!Wake, Calib!Goes
    <2>2. /\ Calib!Waiting(u) /\ cont[kind[u]] > 0
          /\ cont' = [cont EXCEPT ![kind[u]] = cont[kind[u]] - 1]
          /\ jobs' = Calib!Abandoned(jobs, u) /\ done_queue' = Calib!Abandoned(done_queue, u)
          /\ UNCHANGED <<calib_fw, kind, alone, reported>>
      BY <1>3 DEF Calib!Wake
    <2>3. cont' \in [Kinds -> Nat] /\ \A k \in Kinds : k # kind[u] => cont'[k] = cont[k]
      BY <2>2 DEF CalibInv, Calib!TypeOK
    <2> QED BY <2>1, <2>2, <2>3, CalibGivesUp
  <1>4. ASSUME NEW u \in Users, Calib!TimesOut(u) PROVE CalibInv'
    <2>1. /\ Calib!Waiting(u) /\ cont[kind[u]] = 0 /\ at' = [at EXCEPT ![u] = "etime"]
          /\ jobs' = Calib!Abandoned(jobs, u) /\ done_queue' = Calib!Abandoned(done_queue, u)
          /\ UNCHANGED <<calib_fw, kind, cont, alone, reported>>
      BY <1>4 DEF Calib!TimesOut, Calib!Goes
    <2>2. cont' \in [Kinds -> Nat] /\ \A k \in Kinds : k # kind[u] => cont'[k] = cont[k]
      BY <2>1 DEF CalibInv, Calib!TypeOK
    <2> QED BY <2>1, <2>2, CalibGivesUp
  <1>5. ASSUME NEW u \in Users, Calib!Copy(u) PROVE CalibInv'
    <2>1. PICK result \in {"ok", "error"} : at' = [at EXCEPT ![u] = result]
      BY <1>5 DEF Calib!Copy, Calib!Goes
    <2>2. at[u] = "copy" /\ UNCHANGED <<calib_fw, kind, cont, jobs, done_queue, alone, reported>>
      BY <1>5 DEF Calib!Copy
    <2>3. /\ at' \in [Users -> {"idle", "checked", "waiting", "done", "copy", "ok", "etime", "error"}]
          /\ \A v \in Users : at'[v] = IF v = u THEN result ELSE at[v]
      BY <2>1 DEF CalibInv, Calib!TypeOK
    <2>4. Known' = Known
      BY <2>2 DEF Known, Entries
    <2>5. Calib!TypeOK'
      BY <2>2, <2>3 DEF CalibInv, Calib!TypeOK
    <2>6. \A v \in Users \cup {"nobody"} : Calib!Waiting(v)' => Calib!Waiting(v)
      BY <2>1, <2>2 DEF Calib!Waiting, CalibInv, Calib!TypeOK
    <2>7. ForWaiting'
      BY <2>2, <2>3, <2>4, KnownJobs DEF CalibInv, ForWaiting, Calib!Waiting
    <2>8. ASSUME NEW v \in Users PROVE AloneWaits(v)'
      BY <2>2, <2>3, <2>4 DEF CalibInv, AloneWaits, Calib!Waiting
    <2>9. Calib!Truthful' /\ Calib!Heard'
      BY <2>1, <2>2, <2>3 DEF CalibInv, Calib!Truthful, Calib!Heard
    <2> QED BY <2>5, <2>7, <2>8, <2>9 DEF CalibInv
  <1>6. CASE Calib!Finish
    <2>1. PICK i \in 1..Len(jobs) :
            /\ done_queue' = Append(done_queue, jobs[i])
            /\ jobs' = SubSeq(jobs, 1, i - 1) \o SubSeq(jobs, i + 1, Len(jobs))
      BY <1>6 DEF Calib!Finish
    <2>2. UNCHANGED <<calib_fw, at, kind, cont, alone, reported>>
      BY <1>6 DEF Calib!Finish
    <2>3. jobs \in Seq(Calib!Job) /\ done_queue \in Seq(Calib!Job) /\ jobs[i] \in Calib!Job
      BY DEF CalibInv, Calib!TypeOK
    <2>4. /\ jobs' \in Seq(Calib!Job) /\ Len(jobs') = Len(jobs) - 1 /\ Entries(jobs') \subseteq Entries(jobs)
          /\ done_queue' \in Seq(Calib!Job) /\ Len(done_queue') = Len(done_queue) + 1
          /\ Entries(done_queue') \subseteq Entries(done_queue) \cup {jobs[i]}
      BY <2>1, <2>3, Appended, Without
    <2>5. Known' \subseteq Known
      <3>1. Known' = Entries(jobs') \cup Entries(done_queue') /\ jobs[i] \in Entries(jobs)
        BY DEF Known, Entries
      <3> QED BY <2>4, <3>1 DEF Known
    <2>6. Calib!TypeOK'
      BY <2>2, <2>3, <2>4, CalibConstants DEF CalibInv, Calib!TypeOK
    <2> QED BY <2>2, <2>5, <2>6, FewerKnown DEF CalibInv
  <1>7. CASE Calib!Irq
    BY <1>7, CalibIrq
  <1>8. CASE Calib!SwapFirmware
    <2>1. /\ calib_fw' \in BOOLEAN /\ jobs' = <<>> /\ done_queue' = <<>>
          /\ UNCHANGED <<at, kind, cont, alone, reported>>
      BY <1>8 DEF Calib!SwapFirmware
    <2>2. Known' \subseteq Known
      BY <2>1 DEF Known, Entries
    <2>3. Calib!TypeOK'
      BY <2>1, CalibConstants DEF CalibInv, Calib!TypeOK
    <2> QED BY <2>1, <2>2, <2>3, FewerKnown DEF CalibInv
  <1>9. CASE UNCHANGED calib_vars
    <2>1. UNCHANGED <<calib_fw, at, kind, cont, jobs, done_queue, alone, reported>>
      BY <1>9 DEF calib_vars
    <2>2. Known' \subseteq Known
      BY <2>1 DEF Known, Entries
    <2>3. Calib!TypeOK'
      BY <2>1 DEF CalibInv, Calib!TypeOK
    <2> QED BY <2>1, <2>2, <2>3, FewerKnown DEF CalibInv
  <1> QED BY <1>1, <1>2, <1>3, <1>4, <1>5, <1>6, <1>7, <1>8, <1>9, Zenon DEF Calib!Next

--------------------------------------------------------------------------------
(* Cs40l26Asp *)

Percents == {n \in Nat : n <= 100}

LEMMA AspConstants ==
    /\ Gains \subseteq Percents /\ AspScale \in Percents /\ MaxRing \in Nat
    /\ Asp!FullScale = 100
  BY ServicesAssumption DEF ServicesAssumption, Asp!AspAssumption, Asp!FullScale, Percents

(* Scaling keeps percents, and does nothing where there is nothing to scale. *)
LEMMA Product ==
    ASSUME NEW a \in Nat, NEW b \in Nat, b <= 100
    PROVE  a * b \in Nat /\ a * b <= 100 * a
  <1>1. PICK c \in Nat : b + c = 100
    <2>1. 100 - b \in Nat /\ b + (100 - b) = 100
      OBVIOUS
    <2> QED BY <2>1
  <1>2. a * (b + c) = a * b + a * c /\ a * b \in Nat /\ a * c \in Nat
    <2>1. \A x \in Nat, y \in Nat, z \in Nat : x * (y + z) = x * y + x * z /\ x * y \in Nat /\ x * z \in Nat
      OBVIOUS
    <2> QED BY <2>1
  <1>3. a * 100 = a * b + a * c
    BY <1>1, <1>2
  <1> QED BY <1>2, <1>3

LEMMA ScaledTyped ==
    ASSUME NEW g \in Percents
    PROVE  Asp!Scaled(g) \in Percents /\ (AspScale = 100 => Asp!Scaled(g) = g)
  <1>1. AspScale * g \in Nat /\ AspScale * g <= 100 * AspScale /\ AspScale <= 100
    BY Product, AspConstants DEF Percents
  <1>2. AspScale * g <= 10000
    BY <1>1, AspConstants DEF Percents
  <1>3. \A x \in Nat : x <= 10000 => x \div 100 \in Nat /\ x \div 100 <= 100
    OBVIOUS
  <1>4. \A x \in Nat : (100 * x) \div 100 = x
    OBVIOUS
  <1> QED BY <1>1, <1>2, <1>3, <1>4, AspConstants DEF Asp!Scaled, Percents

(* The DSP's messages, by how many effects play: a message that one begins comes when
   none does, and one that it is over when one does. *)
Played(n, m) == IF m = "TRIGGER" THEN n + 1 ELSE IF m = "COMPLETE" THEN n - 1 ELSE n

Traces(f, s, a, b) ==
    /\ f \in [0..Len(s) -> {0, 1}] /\ f[0] = a /\ f[Len(s)] = b
    /\ \A i \in 1..Len(s) : f[i] = Played(f[i - 1], s[i])

Counted(s, a, b) == \E f : Traces(f, s, a, b)

LEMMA CountedNone ==
    ASSUME NEW a \in {0, 1} PROVE Counted(<<>>, a, a)
  <1> DEFINE f == [i \in 0..0 |-> a]
  <1>1. Traces(f, <<>>, a, a)
    BY DEF Traces
  <1> QED BY <1>1, Zenon DEF Counted

LEMMA CountedAppend ==
    ASSUME NEW s \in Seq(Asp!Messages), NEW a, NEW b, NEW m \in Asp!Messages,
           Counted(s, a, b), Played(b, m) \in {0, 1}
    PROVE  Counted(Append(s, m), a, Played(b, m))
  <1>1. PICK f : Traces(f, s, a, b)
    BY Zenon DEF Counted
  <1> DEFINE n == Len(s) + 1
             p == Played(b, m)
             t == Append(s, m)
             g == [i \in 0..n |-> IF i = n THEN p ELSE f[i]]
  <1>2. Len(s) \in Nat /\ Len(t) = n /\ t[n] = m /\ \A i \in 1..Len(s) : t[i] = s[i]
    OBVIOUS
  <1> HIDE DEF p, t
  <1>3. f \in [0..Len(s) -> {0, 1}] /\ f[0] = a /\ f[Len(s)] = b
    BY <1>1 DEF Traces
  <1>4. g \in [0..Len(t) -> {0, 1}]
    <2>1. p \in {0, 1}
      BY DEF p
    <2> QED BY <1>2, <1>3, <2>1
  <1>5. g[0] = a /\ g[Len(t)] = p
    BY <1>2, <1>3
  <1>6. ASSUME NEW i \in 1..Len(t) PROVE g[i] = Played(g[i - 1], t[i])
    <2>1. CASE i = n
      <3>1. g[i] = p /\ g[i - 1] = b /\ t[i] = m
        BY <1>2, <1>3, <2>1
      <3> QED BY <3>1 DEF p
    <2>2. CASE i # n
      <3>1. i \in 1..Len(s) /\ g[i] = f[i] /\ g[i - 1] = f[i - 1] /\ t[i] = s[i]
        BY <1>2, <2>2
      <3>2. f[i] = Played(f[i - 1], s[i])
        BY <1>1, <3>1 DEF Traces
      <3> QED BY <3>1, <3>2
    <2> QED BY <2>1, <2>2
  <1> HIDE DEF g
  <1>7. Traces(g, t, a, p)
    BY <1>4, <1>5, <1>6 DEF Traces
  <1> QED BY <1>7, Zenon DEF Counted, t, p

LEMMA CountedTail ==
    ASSUME NEW s \in Seq(Asp!Messages), NEW a, NEW b, s # <<>>, Counted(s, a, b)
    PROVE  /\ Played(a, Head(s)) \in {0, 1} /\ a \in {0, 1}
           /\ Counted(Tail(s), Played(a, Head(s)), b)
  <1>1. PICK f : Traces(f, s, a, b)
    BY Zenon DEF Counted
  <1> DEFINE n == Len(s) - 1
             p == Played(a, Head(s))
             t == Tail(s)
             g == [i \in 0..n |-> f[i + 1]]
  <1>2. /\ Len(s) \in Nat /\ Len(s) # 0 /\ Len(t) = n /\ n \in Nat /\ Head(s) = s[1]
        /\ \A i \in 1..n : t[i] = s[i + 1]
    BY HeadTailProperties
  <1> HIDE DEF p, t
  <1>3. f \in [0..Len(s) -> {0, 1}] /\ f[0] = a /\ f[Len(s)] = b
    BY <1>1 DEF Traces
  <1>4. g \in [0..Len(t) -> {0, 1}]
    BY <1>2, <1>3
  <1>5. f[1] = Played(f[0], s[1]) /\ f[1] \in {0, 1}
    BY <1>1, <1>2 DEF Traces
  <1>6. g[0] = p /\ g[Len(t)] = b
    BY <1>2, <1>3, <1>5 DEF p
  <1>7. ASSUME NEW i \in 1..Len(t) PROVE g[i] = Played(g[i - 1], t[i])
    <2>1. i + 1 \in 1..Len(s) /\ g[i] = f[i + 1] /\ g[i - 1] = f[i] /\ t[i] = s[i + 1]
      BY <1>2
    <2>2. f[i + 1] = Played(f[i], s[i + 1])
      <3>1. \A k \in 1..Len(s) : f[k] = Played(f[k - 1], s[k])
        BY <1>1 DEF Traces
      <3>2. (i + 1) - 1 = i
        OBVIOUS
      <3> QED BY <2>1, <3>1, <3>2
    <2> QED BY <2>1, <2>2
  <1> HIDE DEF g
  <1>8. Traces(g, t, p, b)
    BY <1>4, <1>6, <1>7 DEF Traces
  <1>9. Played(a, Head(s)) \in {0, 1} /\ a \in {0, 1}
    BY <1>2, <1>3, <1>5
  <1> QED BY <1>8, <1>9, Zenon DEF Counted, t, p

LEMMA CountedEnds ==
    ASSUME NEW s \in Seq(Asp!Messages), NEW a, NEW b, Counted(s, a, b)
    PROVE  a \in {0, 1} /\ b \in {0, 1}
  <1>1. PICK f : Traces(f, s, a, b)
    BY Zenon DEF Counted
  <1>2. Len(s) \in Nat
    OBVIOUS
  <1> QED BY <1>1, <1>2 DEF Traces

(* A message that will complete the codec's wait, or have the stream restarted *)
Ends == {"COMPLETE", "TRIGGER_I2S", "COMPLETE_I2S"}
Woken(s) == \E i \in 1..Len(s) : s[i] \in Ends

LEMMA WokenAppend ==
    ASSUME NEW s \in Seq(Asp!Messages), NEW m \in Asp!Messages
    PROVE  /\ Append(s, m) \in Seq(Asp!Messages) /\ Len(Append(s, m)) = Len(s) + 1
           /\ Woken(Append(s, m)) <=> Woken(s) \/ m \in Ends
  <1> DEFINE t == Append(s, m)
  <1>1. /\ t \in Seq(Asp!Messages) /\ Len(s) \in Nat /\ Len(t) = Len(s) + 1
        /\ t[Len(s) + 1] = m /\ \A i \in 1..Len(s) : t[i] = s[i]
    OBVIOUS
  <1> HIDE DEF t
  <1>2. ASSUME Woken(t) PROVE Woken(s) \/ m \in Ends
    <2>1. PICK i \in 1..Len(t) : t[i] \in Ends
      BY <1>2 DEF Woken
    <2>2. i = Len(s) + 1 \/ i \in 1..Len(s)
      BY <1>1
    <2> QED BY <1>1, <2>1, <2>2 DEF Woken
  <1>3. ASSUME Woken(s) PROVE Woken(t)
    <2>1. PICK i \in 1..Len(s) : s[i] \in Ends
      BY <1>3 DEF Woken
    <2>2. i \in 1..Len(t) /\ t[i] \in Ends
      BY <1>1, <2>1
    <2> QED BY <2>2 DEF Woken
  <1>4. ASSUME m \in Ends PROVE Woken(t)
    <2>1. Len(s) + 1 \in 1..Len(t)
      BY <1>1
    <2> QED BY <1>1, <1>4, <2>1 DEF Woken
  <1> QED BY <1>1, <1>2, <1>3, <1>4 DEF t

LEMMA WokenTail ==
    ASSUME NEW s \in Seq(Asp!Messages), s # <<>>
    PROVE  /\ Tail(s) \in Seq(Asp!Messages) /\ Head(s) \in Asp!Messages
           /\ Woken(s) => Woken(Tail(s)) \/ Head(s) \in Ends
  <1> DEFINE t == Tail(s)
  <1>1. /\ t \in Seq(Asp!Messages) /\ Len(s) \in Nat /\ Len(s) # 0 /\ Len(t) = Len(s) - 1 /\ Head(s) = s[1]
        /\ Head(s) \in Asp!Messages /\ \A i \in 1..(Len(s) - 1) : t[i] = s[i + 1]
    BY HeadTailProperties
  <1> HIDE DEF t
  <1>2. ASSUME NEW i \in 1..Len(s), s[i] \in Ends, i # 1 PROVE Woken(t)
    <2>1. i - 1 \in 1..Len(t) /\ t[i - 1] = s[i]
      <3>1. i - 1 \in 1..(Len(s) - 1) /\ (i - 1) + 1 = i
        BY <1>1, <1>2
      <3> QED BY <1>1, <3>1
    <2> QED BY <1>2, <2>1 DEF Woken
  <1> QED BY <1>1, <1>2 DEF Woken, t

LEMMA WokenSet ==
    ASSUME ring \in Seq(Asp!Messages)
    PROVE  (\E m \in Asp!ToSet(ring) : m \in Ends) <=> Woken(ring)
  BY DEF Asp!ToSet, Woken

(* What holds together beside the types: where the codec is, what plays and what the
   messages say of it; *)
Flight == IF playing THEN 1 ELSE 0
StreamOnly == {"TRIGGER_I2S", "COMPLETE_I2S"}
MclkSteps == {"off", "starting", "up_open", "down_clocked", "down_closed"}

AspTyped ==
    /\ effects_in_flight \in Nat
    /\ asp_enable \in BOOLEAN /\ scaling_applied \in BOOLEAN
    /\ haptics \in BOOLEAN /\ set_calmly \in BOOLEAN
    /\ gain_work \in BOOLEAN /\ irq \in BOOLEAN /\ playing \in BOOLEAN
    /\ vibe_state \in {"STOPPED", "HAPTIC", "ASP"}
    /\ refclk_input \in Asp!Loops /\ pll \in Asp!Loops
    /\ refclk \in {"MCLK", "BCLK"}
    /\ i2s_cont \in BOOLEAN
    /\ gain_pct \in Percents /\ gain_tmp \in Percents
    /\ asp_attn \in Percents /\ user_gain \in Percents
    /\ audio \in {"off", "on"} \cup Asp!UpSteps \cup Asp!DownSteps
    /\ ring \in Seq(Asp!Messages)
    /\ i2s \in {"off", "starting", "on"}

AspState ==
    /\ asp_enable <=> audio # "off"
    /\ vibe_state = Asp!VibeState(effects_in_flight, asp_enable)

AspRing == Counted(ring, effects_in_flight, Flight)

AspAlone ==
    ~haptics =>
        /\ ~playing /\ effects_in_flight = 0 /\ ring \in Seq(StreamOnly)
        /\ audio # "off" => refclk_input = "open"
        /\ audio = "off" => pll = "open"

AspClock == audio \in MclkSteps => refclk = "MCLK"

(* what the gains are: scaled by the worker while a stream is reported, and not twice. *)
AspGain ==
    /\ ~gain_work => asp_attn = gain_pct
    /\ AspScale = 100 => gain_pct = user_gain
    /\ AspScale < 100 => /\ scaling_applied => vibe_state = "ASP"
                         /\ ~gain_work /\ vibe_state = "ASP" => scaling_applied
                         /\ set_calmly /\ gain_work => ~scaling_applied
                         /\ set_calmly /\ scaling_applied =>
                                gain_tmp = user_gain /\ gain_pct = Asp!Scaled(user_gain)
                         /\ set_calmly /\ ~scaling_applied => gain_pct = user_gain

AspWake ==
    audio = "starting" /\ ~i2s_cont => i2s = "starting" \/ playing \/ Woken(ring)

AspInv == AspTyped /\ AspState /\ AspRing /\ AspAlone /\ AspClock /\ AspGain /\ AspWake

LEMMA Joined ==
    ASSUME NEW S, NEW s \in Seq(S), NEW m \in S
    PROVE  s \o <<m>> = Append(s, m) /\ s \o <<>> = s
  OBVIOUS

LEMMA StreamAppend ==
    ASSUME NEW s \in Seq(StreamOnly), NEW m \in StreamOnly
    PROVE  Append(s, m) \in Seq(StreamOnly)
  OBVIOUS

LEMMA AspUpOpens ==
    ASSUME AspInv, Asp!ClkUpOpens
    PROVE  AspInv'
  <1>u. UNCHANGED <<effects_in_flight, asp_enable, vibe_state, gain_pct, gain_tmp, scaling_applied, gain_work, refclk_input, irq, refclk, asp_attn, ring, playing, i2s, haptics, user_gain, set_calmly>>
    BY DEF Asp!ClkUpOpens, Asp!state, Asp!gain, Asp!stream, Asp!clock, Asp!dsp, Asp!user
  <1>c. audio = "starting" /\ audio' = "up_open" /\ i2s_cont' \in {i2s_cont, FALSE} /\ pll' = "open"
    BY DEF Asp!ClkUpOpens
  <1>1. AspTyped'
    <2>1. i2s_cont' \in BOOLEAN
      BY <1>c, Zenon DEF AspInv, AspTyped
    <2> QED BY <1>u, <1>c, <2>1 DEF AspInv, AspTyped, Asp!UpSteps, Asp!Loops
  <1>2. AspState'
    BY <1>u, <1>c DEF AspInv, AspTyped, AspState, MclkSteps
  <1>3. AspRing'
    BY <1>u DEF AspInv, AspRing, Flight
  <1>4. AspAlone'
    BY <1>u, <1>c DEF AspInv, AspAlone
  <1>5. AspClock'
    BY <1>u, <1>c DEF AspInv, AspTyped, AspClock, MclkSteps
  <1>6. AspGain'
    BY <1>u DEF AspInv, AspGain
  <1>7. AspWake'
    BY <1>u, <1>c DEF AspInv, AspTyped, AspWake, MclkSteps
  <1> QED BY <1>1, <1>2, <1>3, <1>4, <1>5, <1>6, <1>7, Zenon DEF AspInv

LEMMA AspUpSwaps ==
    ASSUME AspInv, Asp!ClkUpSwaps
    PROVE  AspInv'
  <1>u. UNCHANGED <<effects_in_flight, asp_enable, vibe_state, gain_pct, gain_tmp, scaling_applied, gain_work, refclk_input, i2s_cont, irq, pll, asp_attn, ring, playing, i2s, haptics, user_gain, set_calmly>>
    BY DEF Asp!ClkUpSwaps, Asp!state, Asp!gain, Asp!stream, Asp!clock, Asp!dsp, Asp!user
  <1>c. audio = "up_open" /\ audio' = "up_clocked" /\ refclk' = "BCLK"
    BY DEF Asp!ClkUpSwaps
  <1>1. AspTyped'
    BY <1>u, <1>c DEF AspInv, AspTyped, Asp!UpSteps, Asp!DownSteps, Asp!Loops
  <1>2. AspState'
    BY <1>u, <1>c DEF AspInv, AspTyped, AspState, MclkSteps
  <1>3. AspRing'
    BY <1>u DEF AspInv, AspRing, Flight
  <1>4. AspAlone'
    BY <1>u, <1>c DEF AspInv, AspAlone
  <1>5. AspClock'
    BY <1>u, <1>c DEF AspInv, AspTyped, AspClock, MclkSteps
  <1>6. AspGain'
    BY <1>u DEF AspInv, AspGain
  <1>7. AspWake'
    BY <1>u, <1>c DEF AspInv, AspTyped, AspWake, MclkSteps
  <1> QED BY <1>1, <1>2, <1>3, <1>4, <1>5, <1>6, <1>7, Zenon DEF AspInv

LEMMA AspUpCloses ==
    ASSUME AspInv, Asp!ClkUpCloses
    PROVE  AspInv'
  <1>u. UNCHANGED <<effects_in_flight, asp_enable, vibe_state, gain_pct, gain_tmp, scaling_applied, gain_work, refclk_input, i2s_cont, irq, refclk, asp_attn, ring, playing, i2s, haptics, user_gain, set_calmly>>
    BY DEF Asp!ClkUpCloses, Asp!state, Asp!gain, Asp!stream, Asp!clock, Asp!dsp, Asp!user
  <1>c. audio = "up_clocked" /\ audio' = "on" /\ pll' = "closed"
    BY DEF Asp!ClkUpCloses
  <1>1. AspTyped'
    BY <1>u, <1>c DEF AspInv, AspTyped, Asp!UpSteps, Asp!DownSteps, Asp!Loops
  <1>2. AspState'
    BY <1>u, <1>c DEF AspInv, AspTyped, AspState, MclkSteps
  <1>3. AspRing'
    BY <1>u DEF AspInv, AspRing, Flight
  <1>4. AspAlone'
    BY <1>u, <1>c DEF AspInv, AspAlone
  <1>5. AspClock'
    BY <1>u, <1>c DEF AspInv, AspTyped, AspClock, MclkSteps
  <1>6. AspGain'
    BY <1>u DEF AspInv, AspGain
  <1>7. AspWake'
    BY <1>u, <1>c DEF AspInv, AspTyped, AspWake, MclkSteps
  <1> QED BY <1>1, <1>2, <1>3, <1>4, <1>5, <1>6, <1>7, Zenon DEF AspInv

LEMMA AspDownOpens ==
    ASSUME AspInv, Asp!ClkDownOpens
    PROVE  AspInv'
  <1>u. UNCHANGED <<effects_in_flight, asp_enable, vibe_state, gain_pct, gain_tmp, scaling_applied, gain_work, refclk_input, i2s_cont, irq, refclk, asp_attn, ring, playing, i2s, haptics, user_gain, set_calmly>>
    BY DEF Asp!ClkDownOpens, Asp!state, Asp!gain, Asp!stream, Asp!clock, Asp!dsp, Asp!user
  <1>c. audio = "stopped" /\ audio' = "down_open" /\ pll' = "open"
    BY DEF Asp!ClkDownOpens
  <1>1. AspTyped'
    BY <1>u, <1>c DEF AspInv, AspTyped, Asp!UpSteps, Asp!DownSteps, Asp!Loops
  <1>2. AspState'
    BY <1>u, <1>c DEF AspInv, AspTyped, AspState, MclkSteps
  <1>3. AspRing'
    BY <1>u DEF AspInv, AspRing, Flight
  <1>4. AspAlone'
    BY <1>u, <1>c DEF AspInv, AspAlone
  <1>5. AspClock'
    BY <1>u, <1>c DEF AspInv, AspTyped, AspClock, MclkSteps
  <1>6. AspGain'
    BY <1>u DEF AspInv, AspGain
  <1>7. AspWake'
    BY <1>u, <1>c DEF AspInv, AspTyped, AspWake, MclkSteps
  <1> QED BY <1>1, <1>2, <1>3, <1>4, <1>5, <1>6, <1>7, Zenon DEF AspInv

LEMMA AspDownSwaps ==
    ASSUME AspInv, Asp!ClkDownSwaps
    PROVE  AspInv'
  <1>u. UNCHANGED <<effects_in_flight, asp_enable, vibe_state, gain_pct, gain_tmp, scaling_applied, gain_work, refclk_input, i2s_cont, irq, pll, asp_attn, ring, playing, i2s, haptics, user_gain, set_calmly>>
    BY DEF Asp!ClkDownSwaps, Asp!state, Asp!gain, Asp!stream, Asp!clock, Asp!dsp, Asp!user
  <1>c. audio = "down_open" /\ audio' = "down_clocked" /\ refclk' = "MCLK"
    BY DEF Asp!ClkDownSwaps
  <1>1. AspTyped'
    BY <1>u, <1>c DEF AspInv, AspTyped, Asp!UpSteps, Asp!DownSteps, Asp!Loops
  <1>2. AspState'
    BY <1>u, <1>c DEF AspInv, AspTyped, AspState, MclkSteps
  <1>3. AspRing'
    BY <1>u DEF AspInv, AspRing, Flight
  <1>4. AspAlone'
    BY <1>u, <1>c DEF AspInv, AspAlone
  <1>5. AspClock'
    BY <1>u, <1>c DEF AspInv, AspTyped, AspClock, MclkSteps
  <1>6. AspGain'
    BY <1>u DEF AspInv, AspGain
  <1>7. AspWake'
    BY <1>u, <1>c DEF AspInv, AspTyped, AspWake, MclkSteps
  <1> QED BY <1>1, <1>2, <1>3, <1>4, <1>5, <1>6, <1>7, Zenon DEF AspInv

LEMMA AspDownCloses ==
    ASSUME AspInv, Asp!ClkDownCloses
    PROVE  AspInv'
  <1>u. UNCHANGED <<effects_in_flight, asp_enable, vibe_state, gain_pct, gain_tmp, scaling_applied, gain_work, refclk_input, i2s_cont, irq, refclk, asp_attn, ring, playing, i2s, haptics, user_gain, set_calmly>>
    BY DEF Asp!ClkDownCloses, Asp!state, Asp!gain, Asp!stream, Asp!clock, Asp!dsp, Asp!user
  <1>c. audio = "down_clocked" /\ audio' = "down_closed" /\ pll' = "closed"
    BY DEF Asp!ClkDownCloses
  <1>1. AspTyped'
    BY <1>u, <1>c DEF AspInv, AspTyped, Asp!UpSteps, Asp!DownSteps, Asp!Loops
  <1>2. AspState'
    BY <1>u, <1>c DEF AspInv, AspTyped, AspState, MclkSteps
  <1>3. AspRing'
    BY <1>u DEF AspInv, AspRing, Flight
  <1>4. AspAlone'
    BY <1>u, <1>c DEF AspInv, AspAlone
  <1>5. AspClock'
    BY <1>u, <1>c DEF AspInv, AspTyped, AspClock, MclkSteps
  <1>6. AspGain'
    BY <1>u DEF AspInv, AspGain
  <1>7. AspWake'
    BY <1>u, <1>c DEF AspInv, AspTyped, AspWake, MclkSteps
  <1> QED BY <1>1, <1>2, <1>3, <1>4, <1>5, <1>6, <1>7, Zenon DEF AspInv

LEMMA AspStarted ==
    ASSUME AspInv, Asp!AspStart
    PROVE  /\ gain_pct' = gain_pct /\ gain_tmp' = gain_tmp /\ scaling_applied' = scaling_applied
           /\ i2s_cont' = FALSE /\ refclk_input' = pll /\ i2s' = "starting"
           /\ gain_work' \in BOOLEAN
           /\ AspScale = 100 => gain_work' = gain_work
           /\ AspScale < 100 => gain_work' = TRUE
  <1>1. /\ gain_work' = (gain_work \/ AspScale < Asp!FullScale)
        /\ gain_pct' = gain_pct /\ gain_tmp' = gain_tmp /\ scaling_applied' = scaling_applied
        /\ i2s_cont' = FALSE /\ refclk_input' = pll /\ i2s' = "starting"
    BY DEF Asp!AspStart
  <1>2. gain_work \in BOOLEAN
    BY DEF AspInv, AspTyped
  <1>3. CASE AspScale < Asp!FullScale
    <2>1. gain_work' = TRUE
      BY <1>1, <1>3, Zenon
    <2>2. AspScale # 100
      BY <1>3, AspConstants DEF Percents
    <2> QED BY <1>1, <2>1, <2>2
  <1>4. CASE ~ (AspScale < Asp!FullScale)
    <2>1. gain_work' = gain_work
      BY <1>1, <1>2, <1>4, Zenon
    <2>2. ~ (AspScale < 100)
      BY <1>4, AspConstants
    <2> QED BY <1>1, <1>2, <2>1, <2>2
  <1> QED BY <1>3, <1>4

LEMMA AspUnscaled ==
    ASSUME AspInv, Asp!RemoveAspScaling
    PROVE  /\ gain_pct' \in Percents /\ gain_tmp' = gain_tmp /\ scaling_applied' \in BOOLEAN
           /\ gain_work' \in BOOLEAN
           /\ ~gain_work' => gain_pct' = gain_pct /\ ~gain_work
           /\ AspScale = 100 => gain_pct' = gain_pct
           /\ AspScale < 100 => scaling_applied' = FALSE
           /\ AspScale < 100 /\ set_calmly => gain_pct' = user_gain
  <1>1. /\ gain_pct \in Percents /\ gain_tmp \in Percents /\ scaling_applied \in BOOLEAN
        /\ gain_work \in BOOLEAN /\ AspScale \in Nat /\ Asp!FullScale = 100
    BY AspConstants DEF AspInv, AspTyped, Percents
  <1>2. CASE AspScale >= Asp!FullScale \/ ~scaling_applied
    <2>1. UNCHANGED <<gain_pct, gain_tmp, scaling_applied, gain_work>>
      BY <1>2 DEF Asp!RemoveAspScaling, Asp!gain
    <2> QED BY <1>1, <1>2, <2>1 DEF AspInv, AspGain
  <1>3. CASE ~(AspScale >= Asp!FullScale \/ ~scaling_applied)
    <2>1. /\ gain_pct' = gain_tmp /\ scaling_applied' = FALSE
          /\ gain_work' = TRUE /\ gain_tmp' = gain_tmp
      BY <1>3 DEF Asp!RemoveAspScaling
    <2>2. AspScale < 100 /\ scaling_applied
      BY <1>1, <1>3
    <2>3. set_calmly => gain_tmp = user_gain
      BY <2>2, Zenon DEF AspInv, AspGain
    <2>4. AspScale # 100
      BY <1>1, <2>2
    <2> QED BY <1>1, <2>1, <2>3, <2>4
  <1> QED BY <1>2, <1>3

LEMMA AspClkUp ==
    ASSUME AspInv, Asp!ClkUp
    PROVE  AspInv'
  <1>u. UNCHANGED <<irq, pll, refclk, asp_attn, ring, playing, haptics, user_gain, set_calmly>>
    BY DEF Asp!ClkUp, Asp!state, Asp!gain, Asp!stream, Asp!clock, Asp!dsp, Asp!user
  <1>c. /\ audio = "off" /\ audio' = "starting"
        /\ effects_in_flight' = effects_in_flight /\ asp_enable' = TRUE
        /\ vibe_state' = Asp!VibeState(effects_in_flight, TRUE)
    BY DEF Asp!ClkUp, Asp!UpdateState
  <1>s. /\ gain_pct' = gain_pct /\ gain_tmp' = gain_tmp /\ scaling_applied' = scaling_applied
        /\ i2s_cont' = FALSE /\ refclk_input' = pll /\ i2s' = "starting"
        /\ gain_work' \in BOOLEAN
        /\ AspScale = 100 => gain_work' = gain_work
        /\ AspScale < 100 => gain_work' = TRUE
    BY AspStarted DEF Asp!ClkUp
  <1>v. vibe_state' \in {"STOPPED", "HAPTIC", "ASP"}
    BY <1>c DEF Asp!VibeState
  <1>n. vibe_state # "ASP"
    BY <1>c DEF AspInv, AspTyped, AspState, Asp!VibeState
  <1>1. AspTyped'
    BY <1>u, <1>c, <1>s, <1>v DEF AspInv, AspTyped, Asp!UpSteps
  <1>2. AspState'
    BY <1>c, Zenon DEF AspState
  <1>3. AspRing'
    BY <1>u, <1>c DEF AspInv, AspRing, Flight
  <1>4. AspAlone'
    BY <1>u, <1>c, <1>s DEF AspInv, AspAlone
  <1>5. AspClock'
    BY <1>u, <1>c DEF AspInv, AspClock, MclkSteps
  <1>6. AspGain'
    BY <1>u, <1>s, <1>n, AspConstants DEF AspInv, AspTyped, AspGain, Percents
  <1>7. AspWake'
    BY <1>s DEF AspWake
  <1> QED BY <1>1, <1>2, <1>3, <1>4, <1>5, <1>6, <1>7, Zenon DEF AspInv

LEMMA AspClkDown ==
    ASSUME AspInv, Asp!ClkDown
    PROVE  AspInv'
  <1>u. UNCHANGED <<refclk_input, i2s_cont, irq, refclk, asp_attn, ring, playing, i2s, haptics, user_gain, set_calmly>>
    BY DEF Asp!ClkDown, Asp!state, Asp!gain, Asp!stream, Asp!clock, Asp!dsp, Asp!user
  <1>c. /\ audio = "down_closed" /\ audio' = "off" /\ pll' = refclk_input
        /\ effects_in_flight' = effects_in_flight /\ asp_enable' = FALSE
        /\ vibe_state' = Asp!VibeState(effects_in_flight, FALSE)
    BY DEF Asp!ClkDown, Asp!UpdateState
  <1>s. /\ gain_pct' \in Percents /\ gain_tmp' = gain_tmp /\ scaling_applied' \in BOOLEAN
        /\ gain_work' \in BOOLEAN
        /\ ~gain_work' => gain_pct' = gain_pct /\ ~gain_work
        /\ AspScale = 100 => gain_pct' = gain_pct
        /\ AspScale < 100 => scaling_applied' = FALSE
        /\ AspScale < 100 /\ set_calmly => gain_pct' = user_gain
    BY AspUnscaled DEF Asp!ClkDown
  <1>v. vibe_state' \in {"STOPPED", "HAPTIC"}
    BY <1>c DEF Asp!VibeState
  <1>1. AspTyped'
    BY <1>u, <1>c, <1>s, <1>v DEF AspInv, AspTyped
  <1>2. AspState'
    BY <1>c, Zenon DEF AspState
  <1>3. AspRing'
    BY <1>u, <1>c DEF AspInv, AspRing, Flight
  <1>4. AspAlone'
    BY <1>u, <1>c DEF AspInv, AspAlone
  <1>5. AspClock'
    BY <1>u, <1>c DEF AspInv, AspClock, MclkSteps
  <1>6. AspGain'
    BY <1>u, <1>s, <1>v DEF AspInv, AspTyped, AspGain
  <1>7. AspWake'
    BY <1>c DEF AspWake
  <1> QED BY <1>1, <1>2, <1>3, <1>4, <1>5, <1>6, <1>7, Zenon DEF AspInv

LEMMA AspSetGain ==
    ASSUME AspInv, NEW g \in Gains, Asp!SetGain(g)
    PROVE  AspInv'
  <1>u. UNCHANGED <<effects_in_flight, asp_enable, vibe_state, gain_tmp, scaling_applied, refclk_input, i2s_cont, irq, audio, pll, refclk, asp_attn, ring, playing, i2s, haptics>>
    BY DEF Asp!SetGain, Asp!state, Asp!gain, Asp!stream, Asp!clock, Asp!dsp, Asp!user
  <1>c. /\ gain_pct' = g /\ gain_work' = TRUE /\ user_gain' = g
        /\ set_calmly' = (audio = "off") /\ g \in Percents
    BY AspConstants DEF Asp!SetGain
  <1>b. set_calmly' \in BOOLEAN
    BY <1>c, Zenon
  <1>n. set_calmly' => vibe_state # "ASP"
    BY <1>c DEF AspInv, AspTyped, AspState, Asp!VibeState
  <1>1. AspTyped'
    BY <1>u, <1>c, <1>b DEF AspInv, AspTyped
  <1>2. AspState'
    BY <1>u DEF AspInv, AspState
  <1>3. AspRing'
    BY <1>u DEF AspInv, AspRing, Flight
  <1>4. AspAlone'
    BY <1>u DEF AspInv, AspAlone
  <1>5. AspClock'
    BY <1>u DEF AspInv, AspClock
  <1>6. AspGain'
    BY <1>u, <1>c, <1>n DEF AspInv, AspTyped, AspGain
  <1>7. AspWake'
    BY <1>u DEF AspInv, AspWake
  <1> QED BY <1>1, <1>2, <1>3, <1>4, <1>5, <1>6, <1>7, Zenon DEF AspInv

LEMMA AspGainWork ==
    ASSUME AspInv, Asp!SetGainWork
    PROVE  AspInv'
  <1>u. UNCHANGED <<effects_in_flight, asp_enable, vibe_state, refclk_input, i2s_cont, irq, audio, pll, refclk, ring, playing, i2s, haptics, user_gain, set_calmly>>
    BY DEF Asp!SetGainWork, Asp!state, Asp!gain, Asp!stream, Asp!clock, Asp!dsp, Asp!user
  <1>c. /\ gain_work /\ gain_work' = FALSE /\ asp_attn' = gain_pct'
        /\ vibe_state = "ASP" => gain_tmp' = gain_pct /\ gain_pct' = Asp!Scaled(gain_pct) /\ scaling_applied' = TRUE
        /\ vibe_state # "ASP" => gain_tmp' = gain_tmp /\ gain_pct' = gain_pct /\ scaling_applied' = scaling_applied
    BY DEF Asp!SetGainWork
  <1>s. Asp!Scaled(gain_pct) \in Percents /\ (AspScale = 100 => Asp!Scaled(gain_pct) = gain_pct)
    BY ScaledTyped DEF AspInv, AspTyped
  <1>1. AspTyped'
    <2>1. CASE vibe_state = "ASP"
      BY <1>u, <1>c, <1>s, <2>1, ZenonT(60) DEF AspInv, AspTyped
    <2>2. CASE vibe_state # "ASP"
      BY <1>u, <1>c, <2>2, ZenonT(60) DEF AspInv, AspTyped
    <2> QED BY <2>1, <2>2
  <1>2. AspState'
    BY <1>u DEF AspInv, AspState
  <1>3. AspRing'
    BY <1>u DEF AspInv, AspRing, Flight
  <1>4. AspAlone'
    BY <1>u DEF AspInv, AspAlone
  <1>5. AspClock'
    BY <1>u DEF AspInv, AspClock
  <1>6. AspGain'
    BY <1>u, <1>c, <1>s DEF AspInv, AspTyped, AspGain
  <1>7. AspWake'
    BY <1>u DEF AspInv, AspWake
  <1> QED BY <1>1, <1>2, <1>3, <1>4, <1>5, <1>6, <1>7, Zenon DEF AspInv

LEMMA AspDspPlay ==
    ASSUME AspInv, Asp!DspPlay
    PROVE  AspInv'
  <1>u. UNCHANGED <<effects_in_flight, asp_enable, vibe_state, gain_pct, gain_tmp, scaling_applied, gain_work, refclk_input, i2s_cont, irq, audio, pll, refclk, asp_attn, haptics, user_gain, set_calmly>>
    BY DEF Asp!DspPlay, Asp!state, Asp!gain, Asp!stream, Asp!clock, Asp!dsp, Asp!user
  <1>c. /\ haptics /\ playing' = TRUE /\ i2s' = IF i2s = "on" THEN "off" ELSE i2s
        /\ ring' = ring \o (IF playing THEN <<"COMPLETE">> ELSE <<>>)
                        \o (IF i2s = "on" THEN <<"COMPLETE_I2S">> ELSE <<>>)
                        \o <<"TRIGGER">>
    BY DEF Asp!DspPlay
  <1>r. /\ ring \in Seq(Asp!Messages) /\ "COMPLETE" \in Asp!Messages /\ "COMPLETE_I2S" \in Asp!Messages
        /\ "TRIGGER" \in Asp!Messages
    BY DEF AspInv, AspTyped, Asp!Messages
  <1>a. PICK a \in Seq(Asp!Messages) :
            /\ a = ring \o (IF playing THEN <<"COMPLETE">> ELSE <<>>)
            /\ Counted(a, effects_in_flight, 0)
    <2>1. CASE playing
      <3>1. ring \o <<"COMPLETE">> = Append(ring, "COMPLETE") /\ Append(ring, "COMPLETE") \in Seq(Asp!Messages)
        BY <1>r, Joined, WokenAppend
      <3>2. Counted(ring, effects_in_flight, 1) /\ Played(1, "COMPLETE") = 0
        BY <2>1 DEF AspInv, AspRing, Flight, Played
      <3>3. Counted(Append(ring, "COMPLETE"), effects_in_flight, 0)
        BY <1>r, <3>2, CountedAppend
      <3> QED BY <2>1, <3>1, <3>3
    <2>2. CASE ~playing
      <3>1. ring \o <<>> = ring
        BY <1>r, Joined
      <3> QED BY <1>r, <2>2, <3>1 DEF AspInv, AspRing, Flight
    <2> QED BY <2>1, <2>2
  <1>b. PICK b \in Seq(Asp!Messages) :
            /\ b = a \o (IF i2s = "on" THEN <<"COMPLETE_I2S">> ELSE <<>>)
            /\ Counted(b, effects_in_flight, 0)
    <2>1. CASE i2s = "on"
      <3>1. a \o <<"COMPLETE_I2S">> = Append(a, "COMPLETE_I2S") /\ Append(a, "COMPLETE_I2S") \in Seq(Asp!Messages)
        BY <1>r, Joined, WokenAppend
      <3>2. Played(0, "COMPLETE_I2S") = 0
        BY DEF Played
      <3>3. Counted(Append(a, "COMPLETE_I2S"), effects_in_flight, 0)
        BY <1>a, <1>r, <3>2, CountedAppend
      <3> QED BY <2>1, <3>1, <3>3
    <2>2. CASE i2s # "on"
      <3>1. a \o <<>> = a
        BY Joined
      <3> QED BY <1>a, <2>2, <3>1
    <2> QED BY <2>1, <2>2
  <1>d. ring' = Append(b, "TRIGGER") /\ ring' \in Seq(Asp!Messages) /\ Counted(ring', effects_in_flight, 1)
    <2>1. ring' = b \o <<"TRIGGER">> /\ b \o <<"TRIGGER">> = Append(b, "TRIGGER")
      BY <1>a, <1>b, <1>c, <1>r, Joined
    <2>2. Played(0, "TRIGGER") = 1
      BY DEF Played
    <2> QED BY <1>b, <1>r, <2>1, <2>2, CountedAppend, WokenAppend
  <1>1. AspTyped'
    BY <1>u, <1>c, <1>d DEF AspInv, AspTyped
  <1>2. AspState'
    BY <1>u DEF AspInv, AspState
  <1>3. AspRing'
    BY <1>u, <1>c, <1>d DEF AspRing, Flight
  <1>4. AspAlone'
    BY <1>u, <1>c DEF AspAlone
  <1>5. AspClock'
    BY <1>u DEF AspInv, AspClock
  <1>6. AspGain'
    BY <1>u DEF AspInv, AspGain
  <1>7. AspWake'
    BY <1>c DEF AspWake
  <1> QED BY <1>1, <1>2, <1>3, <1>4, <1>5, <1>6, <1>7, Zenon DEF AspInv

LEMMA AspDspComplete ==
    ASSUME AspInv, Asp!DspComplete
    PROVE  AspInv'
  <1>u. UNCHANGED <<effects_in_flight, asp_enable, vibe_state, gain_pct, gain_tmp, scaling_applied, gain_work, refclk_input, i2s_cont, irq, audio, pll, refclk, asp_attn, i2s, haptics, user_gain, set_calmly>>
    BY DEF Asp!DspComplete, Asp!state, Asp!gain, Asp!stream, Asp!clock, Asp!dsp, Asp!user
  <1>c. playing /\ playing' = FALSE /\ ring' = Append(ring, "COMPLETE")
    BY DEF Asp!DspComplete
  <1>r. ring \in Seq(Asp!Messages) /\ "COMPLETE" \in Asp!Messages
    BY DEF AspInv, AspTyped, Asp!Messages
  <1>d. ring' \in Seq(Asp!Messages) /\ (Woken(ring') <=> Woken(ring) \/ "COMPLETE" \in Ends)
    BY <1>c, <1>r, WokenAppend
  <1>e. Counted(ring', effects_in_flight, 0)
    <2>1. Counted(ring, effects_in_flight, Flight) /\ Played(Flight, "COMPLETE") = 0 /\ Flight \in {0, 1}
      BY <1>c DEF AspInv, AspRing, Flight, Played
    <2> QED BY <1>c, <1>r, <2>1, CountedAppend
  <1>1. AspTyped'
    <2>1. ring' \in Seq(Asp!Messages) /\ playing' \in BOOLEAN /\ i2s' \in {"off", "starting", "on"}
      BY <1>u, <1>c, <1>d DEF AspInv, AspTyped
    <2> QED BY <1>u, <2>1 DEF AspInv, AspTyped
  <1>2. AspState'
    BY <1>u DEF AspInv, AspState
  <1>3. AspRing'
    BY <1>u, <1>c, <1>e DEF AspRing, Flight
  <1>4. AspAlone'
    BY <1>u, <1>c, StreamAppend DEF AspInv, AspAlone, StreamOnly
  <1>5. AspClock'
    BY <1>u DEF AspInv, AspClock
  <1>6. AspGain'
    BY <1>u DEF AspInv, AspGain
  <1>7. AspWake'
    BY <1>d DEF AspWake, Ends, Woken
  <1> QED BY <1>1, <1>2, <1>3, <1>4, <1>5, <1>6, <1>7, Zenon DEF AspInv

LEMMA AspDspStarts ==
    ASSUME AspInv, Asp!DspStartsI2s
    PROVE  AspInv'
  <1>u. UNCHANGED <<effects_in_flight, asp_enable, vibe_state, gain_pct, gain_tmp, scaling_applied, gain_work, refclk_input, i2s_cont, irq, audio, pll, refclk, asp_attn, playing, haptics, user_gain, set_calmly>>
    BY DEF Asp!DspStartsI2s, Asp!state, Asp!gain, Asp!stream, Asp!clock, Asp!dsp, Asp!user
  <1>c. ~playing /\ i2s' = "on" /\ ring' = Append(ring, "TRIGGER_I2S")
    BY DEF Asp!DspStartsI2s
  <1>r. ring \in Seq(Asp!Messages) /\ "TRIGGER_I2S" \in Asp!Messages
    BY DEF AspInv, AspTyped, Asp!Messages
  <1>d. ring' \in Seq(Asp!Messages) /\ (Woken(ring') <=> Woken(ring) \/ "TRIGGER_I2S" \in Ends)
    BY <1>c, <1>r, WokenAppend
  <1>e. Counted(ring', effects_in_flight, 0)
    <2>1. Counted(ring, effects_in_flight, Flight) /\ Played(Flight, "TRIGGER_I2S") = 0 /\ Flight \in {0, 1}
      BY <1>c DEF AspInv, AspRing, Flight, Played
    <2> QED BY <1>c, <1>r, <2>1, CountedAppend
  <1>1. AspTyped'
    <2>1. ring' \in Seq(Asp!Messages) /\ playing' \in BOOLEAN /\ i2s' \in {"off", "starting", "on"}
      BY <1>u, <1>c, <1>d DEF AspInv, AspTyped
    <2> QED BY <1>u, <2>1 DEF AspInv, AspTyped
  <1>2. AspState'
    BY <1>u DEF AspInv, AspState
  <1>3. AspRing'
    BY <1>u, <1>c, <1>e DEF AspRing, Flight
  <1>4. AspAlone'
    BY <1>u, <1>c, StreamAppend DEF AspInv, AspAlone, StreamOnly
  <1>5. AspClock'
    BY <1>u DEF AspInv, AspClock
  <1>6. AspGain'
    BY <1>u DEF AspInv, AspGain
  <1>7. AspWake'
    BY <1>d DEF AspWake, Ends, Woken
  <1> QED BY <1>1, <1>2, <1>3, <1>4, <1>5, <1>6, <1>7, Zenon DEF AspInv

LEMMA AspAspRxDown ==
    ASSUME AspInv, Asp!AspRxDown
    PROVE  AspInv'
  <1>u. UNCHANGED <<effects_in_flight, asp_enable, vibe_state, gain_pct, gain_tmp, scaling_applied, gain_work, refclk_input, i2s_cont, irq, pll, refclk, asp_attn, playing, haptics, user_gain, set_calmly>>
    BY DEF Asp!AspRxDown, Asp!state, Asp!gain, Asp!stream, Asp!clock, Asp!dsp, Asp!user
  <1>c. /\ audio = "on" /\ audio' = "stopped" /\ i2s' = "off"
        /\ ring' = IF i2s = "on" THEN Append(ring, "COMPLETE_I2S") ELSE ring
    BY DEF Asp!AspRxDown
  <1>r. ring \in Seq(Asp!Messages) /\ "COMPLETE_I2S" \in Asp!Messages
    BY DEF AspInv, AspTyped, Asp!Messages
  <1>d. ring' \in Seq(Asp!Messages)
    BY <1>c, <1>r, WokenAppend
  <1>e. Counted(ring', effects_in_flight, Flight)
    <2>1. Counted(ring, effects_in_flight, Flight) /\ Played(Flight, "COMPLETE_I2S") = Flight /\ Flight \in {0, 1}
      BY <1>c DEF AspInv, AspRing, Flight, Played
    <2> QED BY <1>c, <1>r, <2>1, CountedAppend
  <1>1. AspTyped'
    BY <1>u, <1>c, <1>d DEF AspInv, AspTyped, Asp!DownSteps
  <1>2. AspState'
    BY <1>u, <1>c DEF AspInv, AspTyped, AspState, MclkSteps
  <1>3. AspRing'
    BY <1>u, <1>c, <1>e DEF AspRing, Flight
  <1>4. AspAlone'
    BY <1>u, <1>c, StreamAppend DEF AspInv, AspAlone, StreamOnly
  <1>5. AspClock'
    BY <1>u, <1>c DEF AspInv, AspTyped, AspClock, MclkSteps
  <1>6. AspGain'
    BY <1>u DEF AspInv, AspGain
  <1>7. AspWake'
    BY <1>c DEF AspWake
  <1> QED BY <1>1, <1>2, <1>3, <1>4, <1>5, <1>6, <1>7, Zenon DEF AspInv

LEMMA AspIrqStart ==
    ASSUME AspInv, Asp!IrqStart
    PROVE  AspInv'
  <1>u. UNCHANGED <<effects_in_flight, asp_enable, vibe_state, gain_pct, gain_tmp, scaling_applied, gain_work, refclk_input, i2s_cont, audio, pll, refclk, asp_attn, ring, playing, i2s, haptics, user_gain, set_calmly>>
    BY DEF Asp!IrqStart, Asp!state, Asp!gain, Asp!stream, Asp!clock, Asp!dsp, Asp!user
  <1>c. irq' \in BOOLEAN
    BY DEF Asp!IrqStart
  <1>1. AspTyped'
    BY <1>u, <1>c DEF AspInv, AspTyped, Asp!UpSteps, Asp!DownSteps, Asp!Loops
  <1>2. AspState'
    BY <1>u DEF AspInv, AspState
  <1>3. AspRing'
    BY <1>u DEF AspInv, AspRing, Flight
  <1>4. AspAlone'
    BY <1>u DEF AspInv, AspAlone
  <1>5. AspClock'
    BY <1>u DEF AspInv, AspClock
  <1>6. AspGain'
    BY <1>u DEF AspInv, AspGain
  <1>7. AspWake'
    BY <1>u DEF AspInv, AspWake
  <1> QED BY <1>1, <1>2, <1>3, <1>4, <1>5, <1>6, <1>7, Zenon DEF AspInv

LEMMA AspIrqEnd ==
    ASSUME AspInv, Asp!IrqEnd
    PROVE  AspInv'
  <1>u. UNCHANGED <<effects_in_flight, asp_enable, vibe_state, gain_pct, gain_tmp, scaling_applied, gain_work, refclk_input, i2s_cont, audio, pll, refclk, asp_attn, ring, playing, i2s, haptics, user_gain, set_calmly>>
    BY DEF Asp!IrqEnd, Asp!state, Asp!gain, Asp!stream, Asp!clock, Asp!dsp, Asp!user
  <1>c. irq' \in BOOLEAN
    BY DEF Asp!IrqEnd
  <1>1. AspTyped'
    BY <1>u, <1>c DEF AspInv, AspTyped, Asp!UpSteps, Asp!DownSteps, Asp!Loops
  <1>2. AspState'
    BY <1>u DEF AspInv, AspState
  <1>3. AspRing'
    BY <1>u DEF AspInv, AspRing, Flight
  <1>4. AspAlone'
    BY <1>u DEF AspInv, AspAlone
  <1>5. AspClock'
    BY <1>u DEF AspInv, AspClock
  <1>6. AspGain'
    BY <1>u DEF AspInv, AspGain
  <1>7. AspWake'
    BY <1>u DEF AspInv, AspWake
  <1> QED BY <1>1, <1>2, <1>3, <1>4, <1>5, <1>6, <1>7, Zenon DEF AspInv

LEMMA AspRead ==
    ASSUME AspInv, NEW m \in Asp!Messages, Asp!Read(m)
    PROVE  /\ ring' = Tail(ring) /\ ring' \in Seq(Asp!Messages)
           /\ UNCHANGED <<irq, audio, pll, refclk, asp_attn, playing, haptics, user_gain, set_calmly>>
           /\ Woken(ring) => Woken(ring') \/ m \in Ends
           /\ Played(effects_in_flight, m) \in {0, 1} /\ effects_in_flight \in {0, 1}
           /\ Counted(ring', Played(effects_in_flight, m), Flight)
           /\ ring \in Seq(StreamOnly) => ring' \in Seq(StreamOnly) /\ m \in StreamOnly
  <1>1. /\ ring # <<>> /\ Head(ring) = m /\ ring' = Tail(ring) /\ ring \in Seq(Asp!Messages)
        /\ UNCHANGED <<irq, audio, pll, refclk, asp_attn, playing, haptics, user_gain, set_calmly>>
    BY DEF Asp!Read, Asp!clock, Asp!user, AspInv, AspTyped
  <1>2. Counted(ring, effects_in_flight, Flight)
    BY DEF AspInv, AspRing
  <1> QED BY <1>1, <1>2, WokenTail, CountedTail, HeadTailProperties

LEMMA AspTrigger ==
    ASSUME AspInv, Asp!HandleTrigger
    PROVE  AspInv'
  <1>u. UNCHANGED <<refclk_input, i2s_cont, irq, audio, pll, refclk, asp_attn, playing, i2s, haptics, user_gain, set_calmly>>
    BY DEF Asp!HandleTrigger, Asp!state, Asp!gain, Asp!stream, Asp!clock, Asp!dsp, Asp!user,
         Asp!Read
  <1>r. /\ ring' = Tail(ring) /\ ring' \in Seq(Asp!Messages)
        /\ Woken(ring) => Woken(ring') \/ "TRIGGER" \in Ends
        /\ Played(effects_in_flight, "TRIGGER") \in {0, 1} /\ effects_in_flight \in {0, 1}
        /\ Counted(ring', Played(effects_in_flight, "TRIGGER"), Flight)
        /\ ring \in Seq(StreamOnly) => ring' \in Seq(StreamOnly) /\ "TRIGGER" \in StreamOnly
    BY AspRead DEF Asp!HandleTrigger, Asp!Messages
  <1>c. /\ effects_in_flight' = 1 /\ asp_enable' = asp_enable /\ vibe_state' = "HAPTIC"
        /\ effects_in_flight = 0
    <2>1. /\ effects_in_flight' = effects_in_flight + 1 /\ asp_enable' = asp_enable
          /\ vibe_state' = Asp!VibeState(effects_in_flight + 1, asp_enable)
      BY DEF Asp!HandleTrigger, Asp!UpdateState
    <2>2. effects_in_flight = 0
      BY <1>r DEF Played
    <2> QED BY <2>1, <2>2 DEF Asp!VibeState
  <1>s. /\ gain_pct' \in Percents /\ gain_tmp' = gain_tmp /\ scaling_applied' \in BOOLEAN
        /\ gain_work' \in BOOLEAN
        /\ ~gain_work' => gain_pct' = gain_pct /\ ~gain_work
        /\ AspScale = 100 => gain_pct' = gain_pct
        /\ AspScale < 100 => scaling_applied' = FALSE
        /\ AspScale < 100 /\ set_calmly => gain_pct' = user_gain
    BY AspUnscaled DEF Asp!HandleTrigger
  <1>1. AspTyped'
    BY <1>u, <1>c, <1>r, <1>s DEF AspInv, AspTyped
  <1>2. AspState'
    BY <1>u, <1>c DEF AspInv, AspTyped, AspState, Asp!VibeState
  <1>3. AspRing'
    BY <1>u, <1>c, <1>r DEF AspRing, Flight, Played
  <1>4. AspAlone'
    BY <1>u, <1>c, <1>r DEF AspInv, AspAlone, StreamOnly
  <1>5. AspClock'
    BY <1>u DEF AspInv, AspClock
  <1>6. AspGain'
    BY <1>u, <1>c, <1>s DEF AspInv, AspTyped, AspGain
  <1>7. AspWake'
    BY <1>u, <1>r DEF AspInv, AspWake, Ends
  <1> QED BY <1>1, <1>2, <1>3, <1>4, <1>5, <1>6, <1>7, Zenon DEF AspInv

LEMMA AspComplete ==
    ASSUME AspInv, Asp!HandleComplete
    PROVE  AspInv'
  <1>u. UNCHANGED <<irq, audio, pll, refclk, asp_attn, playing, haptics, user_gain, set_calmly>>
    BY DEF Asp!HandleComplete, Asp!state, Asp!gain, Asp!stream, Asp!clock, Asp!dsp, Asp!user,
         Asp!Read
  <1>r. /\ ring' = Tail(ring) /\ ring' \in Seq(Asp!Messages)
        /\ Woken(ring) => Woken(ring') \/ "COMPLETE" \in Ends
        /\ Played(effects_in_flight, "COMPLETE") \in {0, 1} /\ effects_in_flight \in {0, 1}
        /\ Counted(ring', Played(effects_in_flight, "COMPLETE"), Flight)
        /\ ring \in Seq(StreamOnly) => ring' \in Seq(StreamOnly) /\ "COMPLETE" \in StreamOnly
    BY AspRead DEF Asp!HandleComplete, Asp!Messages
  <1>c. /\ effects_in_flight' = 0 /\ asp_enable' = asp_enable /\ vibe_state' = IF asp_enable THEN "ASP" ELSE "STOPPED"
        /\ effects_in_flight = 1
        /\ asp_enable => Asp!AspStart
        /\ ~asp_enable => UNCHANGED <<gain_pct, gain_tmp, scaling_applied, gain_work, refclk_input, i2s_cont, i2s>>
    <2>1. /\ effects_in_flight' = Asp!Down(effects_in_flight) /\ asp_enable' = asp_enable
          /\ vibe_state' = Asp!VibeState(Asp!Down(effects_in_flight), asp_enable)
          /\ IF Asp!Down(effects_in_flight) = 0 /\ asp_enable THEN Asp!AspStart
             ELSE UNCHANGED <<Asp!gain, Asp!stream, i2s>>
      BY DEF Asp!HandleComplete, Asp!UpdateState
    <2>2. effects_in_flight = 1 /\ Asp!Down(1) = 0
      BY <1>r DEF Played, Asp!Down
    <2>3. ~ (0 > 0)
      OBVIOUS
    <2> QED BY <2>1, <2>2, <2>3, Zenon DEF Asp!VibeState, Asp!gain, Asp!stream
  <1>n. vibe_state = "HAPTIC"
    BY <1>c DEF AspInv, AspState, Asp!VibeState
  <1>s. /\ gain_pct' = gain_pct /\ gain_tmp' = gain_tmp /\ scaling_applied' = scaling_applied
        /\ gain_work' \in BOOLEAN /\ i2s_cont' \in BOOLEAN
        /\ asp_enable => i2s' = "starting" /\ refclk_input' = pll
        /\ ~asp_enable => i2s' = i2s /\ refclk_input' = refclk_input
        /\ AspScale = 100 => gain_work' = gain_work
        /\ AspScale < 100 => IF asp_enable THEN gain_work' = TRUE ELSE gain_work' = gain_work
    <2>1. CASE asp_enable
      BY <1>c, <2>1, AspStarted
    <2>2. CASE ~asp_enable
      BY <1>c, <2>2 DEF AspInv, AspTyped
    <2> QED BY <2>1, <2>2
  <1>1. AspTyped'
    BY <1>u, <1>c, <1>r, <1>s DEF AspInv, AspTyped
  <1>2. AspState'
    BY <1>u, <1>c DEF AspInv, AspTyped, AspState, Asp!VibeState
  <1>3. AspRing'
    BY <1>u, <1>c, <1>r DEF AspRing, Flight, Played
  <1>4. AspAlone'
    BY <1>u, <1>c, <1>r DEF AspInv, AspAlone, StreamOnly
  <1>5. AspClock'
    BY <1>u DEF AspInv, AspClock
  <1>6. AspGain'
    BY <1>u, <1>c, <1>n, <1>s, AspConstants DEF AspInv, AspTyped, AspGain, Percents
  <1>7. AspWake'
    <2>1. asp_enable <=> audio # "off"
      BY DEF AspInv, AspState
    <2> QED BY <1>u, <1>s, <2>1 DEF AspWake
  <1> QED BY <1>1, <1>2, <1>3, <1>4, <1>5, <1>6, <1>7, Zenon DEF AspInv

LEMMA AspHandleI2s ==
    ASSUME AspInv, Asp!HandleI2s
    PROVE  AspInv'
  <1>u. UNCHANGED <<effects_in_flight, asp_enable, vibe_state, gain_pct, gain_tmp, scaling_applied, gain_work, refclk_input, irq, audio, pll, refclk, asp_attn, playing, i2s, haptics, user_gain, set_calmly>>
    BY DEF Asp!HandleI2s, Asp!state, Asp!gain, Asp!stream, Asp!clock, Asp!dsp, Asp!user,
         Asp!Read
  <1>c. PICK m \in {"COMPLETE_I2S", "TRIGGER_I2S"} :
            /\ Asp!Read(m)
            /\ m = "COMPLETE_I2S" => i2s_cont' = (i2s_cont \/ asp_enable)
            /\ m = "TRIGGER_I2S" => i2s_cont' = TRUE
    BY DEF Asp!HandleI2s
  <1>b. i2s_cont' \in BOOLEAN /\ (asp_enable => i2s_cont')
    <2>1. i2s_cont \in BOOLEAN /\ asp_enable \in BOOLEAN
      BY DEF AspInv, AspTyped
    <2>2. CASE m = "COMPLETE_I2S"
      BY <1>c, <2>1, <2>2, Zenon
    <2>3. CASE m = "TRIGGER_I2S"
      BY <1>c, <2>3
    <2> QED BY <2>2, <2>3
  <1>r. /\ ring' \in Seq(Asp!Messages) /\ Counted(ring', effects_in_flight, Flight)
        /\ ring \in Seq(StreamOnly) => ring' \in Seq(StreamOnly)
    <2>1. m \in Asp!Messages /\ Played(effects_in_flight, m) = effects_in_flight
      BY DEF Asp!Messages, Played
    <2> QED BY <1>c, <2>1, AspRead
  <1>1. AspTyped'
    BY <1>u, <1>b, <1>r DEF AspInv, AspTyped
  <1>2. AspState'
    BY <1>u DEF AspInv, AspState
  <1>3. AspRing'
    BY <1>u, <1>r DEF AspRing, Flight
  <1>4. AspAlone'
    BY <1>u, <1>r DEF AspInv, AspAlone
  <1>5. AspClock'
    BY <1>u DEF AspInv, AspClock
  <1>6. AspGain'
    BY <1>u DEF AspInv, AspGain
  <1>7. AspWake'
    <2>1. asp_enable <=> audio # "off"
      BY DEF AspInv, AspState
    <2> QED BY <1>u, <1>b, <2>1 DEF AspWake
  <1> QED BY <1>1, <1>2, <1>3, <1>4, <1>5, <1>6, <1>7, Zenon DEF AspInv

LEMMA AspInit ==
    ASSUME Asp!Init
    PROVE  AspInv
  <1>1. AspTyped
    <2>1. Asp!FullScale \in Percents /\ <<>> \in Seq(Asp!Messages)
      BY AspConstants DEF Percents
    <2> QED BY <2>1, Zenon DEF Asp!Init, AspTyped, Asp!Loops
  <1>2. AspRing
    BY CountedNone DEF Asp!Init, AspRing, Flight
  <1>3. AspState /\ AspAlone /\ AspClock /\ AspWake
    <2>1. <<>> \in Seq(StreamOnly)
      OBVIOUS
    <2> QED BY <2>1 DEF Asp!Init, AspState, AspAlone, AspClock, AspWake, Asp!VibeState
  <1>4. AspGain
    BY AspConstants DEF Asp!Init, AspGain
  <1> QED BY <1>1, <1>2, <1>3, <1>4 DEF AspInv

LEMMA AspStep ==
    ASSUME AspInv, [Asp!Next]_asp_vars
    PROVE  AspInv'
  <1>1. CASE UNCHANGED asp_vars
    <2>1. UNCHANGED <<effects_in_flight, asp_enable, vibe_state, gain_pct, gain_tmp, scaling_applied, gain_work, refclk_input, i2s_cont, irq, audio, pll, refclk, asp_attn, ring, playing, i2s, haptics, user_gain, set_calmly>>
      BY <1>1 DEF asp_vars
    <2>2. AspTyped' /\ AspState' /\ AspClock' /\ AspGain'
      BY <2>1 DEF AspInv, AspTyped, AspState, AspClock, AspGain
    <2>3. AspRing' /\ AspAlone' /\ AspWake'
      BY <2>1 DEF AspInv, AspRing, AspAlone, AspWake, Flight
    <2> QED BY <2>2, <2>3 DEF AspInv
  <1>2. CASE Asp!ClkUp
    BY <1>2, AspClkUp
  <1>3. CASE Asp!AspRxDown
    BY <1>3, AspAspRxDown
  <1>4. CASE Asp!Codec
    BY <1>4, AspUpOpens, AspUpSwaps, AspUpCloses, AspDownOpens, AspDownSwaps, AspDownCloses,
         AspClkDown, Zenon DEF Asp!Codec
  <1>5. ASSUME NEW g \in Gains, Asp!SetGain(g) PROVE AspInv'
    BY <1>5, AspSetGain
  <1>6. CASE Asp!SetGainWork
    BY <1>6, AspGainWork
  <1>7. CASE Asp!Irq
    BY <1>7, AspIrqStart, AspIrqEnd, AspTrigger, AspComplete, AspHandleI2s, Zenon DEF Asp!Irq
  <1>8. CASE Asp!DspPlay \/ Asp!DspComplete \/ Asp!DspStartsI2s
    BY <1>8, AspDspPlay, AspDspComplete, AspDspStarts, Zenon
  <1> QED BY <1>1, <1>2, <1>3, <1>4, <1>5, <1>6, <1>7, <1>8, Zenon DEF Asp!Next

LEMMA AspSafe ==
    ASSUME AspInv
    PROVE  Asp!TypeOK /\ Asp!PllRestoredAlone /\ Asp!GainHonoured /\ Asp!StartWillWake
  <1>1. Asp!TypeOK
    <2>1. \A n \in Percents : n \in 0 .. Asp!FullScale
      BY AspConstants DEF Percents
    <2>2. {gain_pct, gain_tmp, asp_attn, user_gain} \subseteq 0 .. Asp!FullScale
      BY <2>1, Zenon DEF AspInv, AspTyped
    <2> QED BY <2>2, Zenon DEF AspInv, AspTyped, Asp!TypeOK
  <1>2. Asp!PllRestoredAlone
    BY DEF AspInv, AspAlone, AspClock, MclkSteps, Asp!PllRestoredAlone, Asp!PllRestored
  <1>3. Asp!GainHonoured
    <2>1. user_gain \in Percents /\ AspScale \in Nat /\ AspScale <= 100 /\ Asp!FullScale = 100
      BY AspConstants DEF AspInv, AspTyped, Percents
    <2>2. ~ (AspScale < 100) => AspScale = 100
      BY <2>1
    <2> QED BY <2>1, <2>2, Zenon DEF AspInv, AspGain, Asp!GainHonoured
  <1>4. Asp!StartWillWake
    <2>1. (\E m \in Asp!ToSet(ring) : m \in Ends) <=> Woken(ring)
      BY WokenSet DEF AspInv, AspTyped
    <2> QED BY <2>1, Zenon DEF AspInv, AspWake, Asp!StartWillWake, Ends
  <1> QED BY <1>1, <1>2, <1>3, <1>4

--------------------------------------------------------------------------------
(* Cs40l26Mbox *)

LEMMA MboxConstants == QueueLen \in Nat /\ QueueLen >= 2 /\ MaxSent \in Nat
  BY ServicesAssumption DEF ServicesAssumption, Mbox!MboxAssumption

(* The ring is empty and the thread idle when the driver starts. *)
LEMMA MboxInit ==
    ASSUME Mbox!Init
    PROVE  Mbox!Inv
  <1> USE MboxConstants
  <1>1. Mbox!TypeOK
    <2>1. 0 \in Mbox!Slots /\ mem \in [Mbox!Slots -> Nat]
      BY DEF Mbox!Init, Mbox!Slots
    <2>2. stops \in SUBSET Nat
      BY DEF Mbox!Init
    <2> QED BY <2>1, <2>2 DEF Mbox!Init, Mbox!TypeOK
  <1>2. wt \in Int /\ rd = wt /\ Mbox!Taken = 0 /\ Mbox!Outstanding = 0
    BY DEF Mbox!Init, Mbox!Slots, Mbox!Taken, Mbox!Outstanding
  <1>3. Mbox!RingHolds
    <2>1. \A s \in Mbox!Slots : ~(rd <= s /\ s < wt) /\ ~(wt < rd)
      BY <1>2 DEF Mbox!Slots
    <2> QED BY <1>2, <2>1 DEF Mbox!Init, Mbox!RingHolds
  <1>4. Mbox!HandHolds /\ Mbox!InOrder
    BY DEF Mbox!Init, Mbox!HandHolds, Mbox!InOrder
  <1> QED BY <1>1, <1>3, <1>4 DEF Mbox!Inv

(* The DSP's writes keep the ring in order: a message goes to the write
   pointer, which is outside the words that hold messages. *)
LEMMA MboxSend ==
    ASSUME Mbox!Inv, NEW stop \in BOOLEAN, Mbox!Send(stop)
    PROVE  Mbox!Inv'
  <1> USE MboxConstants DEF Mbox!Inv, Mbox!Send, Mbox!TypeOK, Mbox!Slots, Mbox!DspAfter,
       Mbox!locals
  <1>1. Mbox!TypeOK'
    <2>1. Mbox!DspAfter(wt) \in Mbox!Slots
      OBVIOUS
    <2>2. mem' \in [Mbox!Slots -> Nat] /\ wt' \in Mbox!Slots /\ sent' \in Nat
      BY <2>1
    <2>3. stops' \in SUBSET Nat /\ full' \in BOOLEAN /\ attn' \in BOOLEAN
      OBVIOUS
    <2>4. UNCHANGED <<calm, rd, handled, mbox_pc, read_ptr, write_ptr, val>>
      OBVIOUS
    <2> QED BY <2>2, <2>3, <2>4
  <1>2. Mbox!RingHolds'
    <2>1. CASE Mbox!DspAfter(wt) = rd
      BY <2>1 DEF Mbox!RingHolds, Mbox!Taken, Mbox!Outstanding
    <2>2. CASE Mbox!DspAfter(wt) # rd
      <3>1. /\ mem' = [mem EXCEPT ![wt] = sent] /\ wt' = Mbox!DspAfter(wt)
            /\ sent' = sent + 1 /\ rd' = rd /\ Mbox!Taken' = Mbox!Taken
        BY <2>2 DEF Mbox!Taken
      <3>2. wt' # rd
        BY <2>2, <3>1
      <3>3. sent' = Mbox!Taken' + Mbox!Outstanding'
        BY <2>2, <3>1 DEF Mbox!RingHolds, Mbox!Taken, Mbox!Outstanding
      <3>4. ASSUME NEW s \in Mbox!Slots
            PROVE  /\ (rd' <= s /\ s < wt') => mem'[s] = Mbox!Taken' + (s - rd')
                   /\ (wt' < rd' /\ rd' <= s) => mem'[s] = Mbox!Taken' + (s - rd')
                   /\ (wt' < rd' /\ s < wt') => mem'[s] = Mbox!Taken' + (QueueLen - rd') + s
        <4>1. CASE s = wt
          BY <4>1, <2>2, <3>1 DEF Mbox!RingHolds, Mbox!Outstanding, Mbox!Taken
        <4>2. CASE s # wt
          BY <4>2, <2>2, <3>1 DEF Mbox!RingHolds, Mbox!Outstanding, Mbox!Taken
        <4> QED BY <4>1, <4>2
      <3> QED BY <3>3, <3>4 DEF Mbox!RingHolds
    <2> QED BY <2>1, <2>2
  <1>3. Mbox!HandHolds'
    <2>1. mbox_pc' = mbox_pc /\ rd' = rd /\ read_ptr' = read_ptr /\ write_ptr' = write_ptr /\ val' = val
      OBVIOUS
    <2>2. wt # rd => wt' # rd
      OBVIOUS
    <2>3. (wt # rd) => mem'[rd] = mem[rd]
      OBVIOUS
    <2> QED BY <2>1, <2>2, <2>3 DEF Mbox!HandHolds, Mbox!After
  <1>4. Mbox!InOrder'
    BY DEF Mbox!InOrder
  <1> QED BY <1>1, <1>2, <1>3, <1>4

(* The drain keeps it, too: QUEUE_RD moves only over the message in hand. *)
LEMMA MboxHandler ==
    ASSUME Mbox!Inv, Mbox!Handler \/ Mbox!Fails
    PROVE  Mbox!Inv'
  <1> USE MboxConstants DEF Mbox!Inv, Mbox!TypeOK, Mbox!Slots, Mbox!dsp, Mbox!locals
  <1>1. CASE Mbox!Irq
    BY <1>1 DEF Mbox!Irq, Mbox!RingHolds, Mbox!HandHolds, Mbox!InOrder, Mbox!Taken,
         Mbox!Outstanding
  <1>2. CASE Mbox!Pointers
    BY <1>2 DEF Mbox!Pointers, Mbox!RingHolds, Mbox!HandHolds, Mbox!InOrder, Mbox!Taken,
         Mbox!Outstanding
  <1>3. CASE Mbox!Status
    BY <1>3 DEF Mbox!Status, Mbox!RingHolds, Mbox!HandHolds, Mbox!InOrder, Mbox!Taken,
         Mbox!Outstanding
  <1>4. CASE Mbox!Message
    <2>1. Mbox!TypeOK'
      BY <1>4 DEF Mbox!Message, Mbox!After
    <2>2. Mbox!RingHolds'
      BY <1>4 DEF Mbox!Message, Mbox!RingHolds, Mbox!Taken, Mbox!Outstanding
    <2>3. Mbox!HandHolds'
      BY <1>4 DEF Mbox!Message, Mbox!HandHolds, Mbox!After
    <2>4. Mbox!InOrder'
      BY <1>4 DEF Mbox!Message, Mbox!InOrder
    <2> QED BY <2>1, <2>2, <2>3, <2>4
  <1>5. CASE Mbox!Advance
    <2>1. /\ mbox_pc = "advance" /\ mbox_pc' = "dispatch" /\ rd' = Mbox!After(rd) /\ wt' = wt
          /\ mem' = mem /\ sent' = sent /\ handled' = handled /\ val' = val
          /\ wt # rd /\ val = mem[rd]
      BY <1>5 DEF Mbox!Advance, Mbox!HandHolds
    <2>2. Mbox!Taken = handled /\ Mbox!Taken' = handled + 1
      BY <2>1 DEF Mbox!Taken
    <2>3. Mbox!TypeOK'
      BY <1>5, <2>1 DEF Mbox!Advance, Mbox!After
    <2>4. val = handled
      BY <2>1, <2>2 DEF Mbox!RingHolds
    <2>5. sent' = Mbox!Taken' + Mbox!Outstanding'
      BY <2>1, <2>2 DEF Mbox!RingHolds, Mbox!Outstanding, Mbox!After
    <2>6. ASSUME NEW s \in Mbox!Slots
          PROVE  /\ (rd' <= s /\ s < wt') => mem'[s] = Mbox!Taken' + (s - rd')
                 /\ (wt' < rd' /\ rd' <= s) => mem'[s] = Mbox!Taken' + (s - rd')
                 /\ (wt' < rd' /\ s < wt') => mem'[s] = Mbox!Taken' + (QueueLen - rd') + s
      <3>1. /\ (rd <= s /\ s < wt) => mem[s] = Mbox!Taken + (s - rd)
            /\ (wt < rd /\ rd <= s) => mem[s] = Mbox!Taken + (s - rd)
            /\ (wt < rd /\ s < wt) => mem[s] = Mbox!Taken + (QueueLen - rd) + s
        BY DEF Mbox!RingHolds
      <3>2. s \in Int /\ 0 <= s /\ s < QueueLen /\ rd \in Int /\ wt \in Int
            /\ 0 <= rd /\ rd < QueueLen /\ 0 <= wt /\ wt < QueueLen /\ handled \in Int
        OBVIOUS
      <3>3. CASE rd = QueueLen - 1
        BY <2>1, <2>2, <3>1, <3>2, <3>3 DEF Mbox!After
      <3>4. CASE rd # QueueLen - 1
        BY <2>1, <2>2, <3>1, <3>2, <3>4 DEF Mbox!After
      <3> QED BY <3>3, <3>4
    <2>7. Mbox!RingHolds'
      BY <2>5, <2>6 DEF Mbox!RingHolds
    <2>8. Mbox!HandHolds' /\ Mbox!InOrder'
      BY <2>1, <2>4 DEF Mbox!HandHolds, Mbox!InOrder
    <2> QED BY <2>3, <2>7, <2>8
  <1>6. CASE Mbox!Dispatch
    BY <1>6 DEF Mbox!Dispatch, Mbox!RingHolds, Mbox!HandHolds, Mbox!InOrder, Mbox!Taken,
         Mbox!Outstanding
  <1>7. CASE Mbox!Fails
    BY <1>7 DEF Mbox!Fails, Mbox!RingHolds, Mbox!HandHolds, Mbox!InOrder, Mbox!Taken,
         Mbox!Outstanding
  <1> QED BY <1>1, <1>2, <1>3, <1>4, <1>5, <1>6, <1>7 DEF Mbox!Handler

(* The invariant is inductive. *)
LEMMA MboxStep ==
    ASSUME Mbox!Inv, [Mbox!Next]_mbox_vars
    PROVE  Mbox!Inv'
  <1>1. CASE Mbox!Next
    BY <1>1, MboxSend, MboxHandler DEF Mbox!Next
  <1>2. CASE UNCHANGED mbox_vars
    BY <1>2 DEF mbox_vars, Mbox!dsp, Mbox!locals, Mbox!Inv, Mbox!TypeOK, Mbox!RingHolds,
         Mbox!HandHolds, Mbox!InOrder,
                Mbox!Taken, Mbox!Outstanding, Mbox!After, Mbox!Slots
  <1> QED BY <1>1, <1>2

(* No message is lost: what was accepted and not dispatched is in the ring or
   in the thread's hands. *)
LEMMA MboxKept ==
    ASSUME Mbox!Inv
    PROVE  Mbox!Kept
  <1> SUFFICES ASSUME NEW n \in handled .. sent - 1
               PROVE  \/ \E s \in Mbox!Slots : mem[s] = n
                      \/ mbox_pc = "dispatch" /\ val = n
    BY DEF Mbox!Kept
  <1>0. /\ n \in Int /\ handled \in Nat /\ sent \in Nat /\ wt \in Int /\ rd \in Int
        /\ QueueLen \in Nat /\ n >= handled /\ n < sent
        /\ 0 <= wt /\ wt < QueueLen /\ 0 <= rd /\ rd < QueueLen
    BY MboxConstants DEF Mbox!Inv, Mbox!TypeOK, Mbox!Slots
  <1>1. CASE mbox_pc = "dispatch" /\ n = handled
    BY <1>1 DEF Mbox!Inv, Mbox!InOrder
  <1>2. CASE ~(mbox_pc = "dispatch" /\ n = handled)
    <2>1. Mbox!Taken \in Int /\ Mbox!Taken <= n /\ sent = Mbox!Taken + Mbox!Outstanding
      BY <1>0, <1>2 DEF Mbox!Taken, Mbox!Inv, Mbox!RingHolds
    <2>2. CASE rd + (n - Mbox!Taken) < QueueLen
      <3> DEFINE s == rd + (n - Mbox!Taken)
      <3>1. s \in Mbox!Slots
        BY <1>0, <2>1, <2>2 DEF Mbox!Slots
      <3>2. mem[s] = n
        <4>1. (rd <= s /\ s < wt) \/ (wt < rd /\ rd <= s)
          BY <1>0, <2>1, <2>2 DEF Mbox!Outstanding
        <4>2. mem[s] = Mbox!Taken + (s - rd)
          BY <3>1, <4>1 DEF Mbox!Inv, Mbox!RingHolds
        <4> QED BY <4>2, <1>0, <2>1
      <3> QED BY <3>1, <3>2
    <2>3. CASE rd + (n - Mbox!Taken) >= QueueLen
      <3> DEFINE s == rd + (n - Mbox!Taken) - QueueLen
      <3>1. s \in Mbox!Slots /\ wt < rd /\ s < wt
        BY <1>0, <2>1, <2>3 DEF Mbox!Slots, Mbox!Outstanding
      <3>2. mem[s] = Mbox!Taken + (QueueLen - rd) + s
        BY <3>1 DEF Mbox!Inv, Mbox!RingHolds
      <3>3. mem[s] = n
        BY <3>2, <1>0, <2>1
      <3> QED BY <3>1, <3>3
    <2> QED BY <2>2, <2>3, <1>0, <2>1
  <1> QED BY <1>1, <1>2

--------------------------------------------------------------------------------
(* Cs40l26Pm *)

LEMMA PmConstants == Attempts \in Nat
  BY ServicesAssumption DEF ServicesAssumption, Pm!PmAssumption

(* An attempt that is under way is one of those allowed. *)
Counting == pm_pc \in {"ack", "state", "lock"} => attempts < Attempts

(* What a resume knows of the DSP at each of its places.  Once PREVENT_HIBERNATE is
   acknowledged the chip is locked and awake, and nothing is left in the register that
   could unlock it. *)
LockedAwake == dsp_lock /\ dsp_state \in {"STANDBY", "ACTIVE"}

Handshake ==
    /\ pm_pc = "ack" => mbox \in {"PREVENT_HIBERNATE", "none"} /\ (mbox = "none" => LockedAwake)
    /\ pm_pc \in {"state", "lock"} => mbox = "none" /\ LockedAwake
    /\ pm_pc \in {"in_use", "command"} => mbox # "ALLOW_HIBERNATE" /\ LockedAwake

PmInv == Pm!TypeOK /\ Counting /\ Handshake

LEMMA PmInit ==
    ASSUME Pm!Init
    PROVE  PmInv
  <1>1. attempts \in 0 .. Attempts
    BY PmConstants DEF Pm!Init
  <1>2. Pm!TypeOK /\ Counting
    BY <1>1, Zenon DEF Pm!Init, Pm!TypeOK, Counting, Pm!Commands
  <1>3. Handshake
    BY DEF Pm!Init, Handshake, LockedAwake
  <1> QED BY <1>2, <1>3 DEF PmInv

LEMMA PmTyped ==
    ASSUME Pm!TypeOK, Counting, [Pm!Next]_pm_vars
    PROVE  Pm!TypeOK' /\ Counting'
  <1> USE PmConstants
  <1> USE DEF Pm!TypeOK, Counting, Pm!Commands, Pm!chip
  <1>1. CASE Pm!Suspend
    BY <1>1 DEF Pm!Suspend, Pm!Wakes
  <1>2. CASE Pm!Resume
    BY <1>2 DEF Pm!Resume
  <1>3. CASE Pm!Write
    BY <1>3 DEF Pm!Write, Pm!Wakes
  <1>4. CASE Pm!Play
    BY <1>4 DEF Pm!Play, Pm!Wakes
  <1>5. CASE Pm!Acked \/ Pm!Fail \/ Pm!Played
    BY <1>5 DEF Pm!Acked, Pm!Fail, Pm!Played
  <1>6. CASE Pm!Take \/ Pm!Sleep
    BY <1>6 DEF Pm!Take, Pm!Sleep
  <1>7. CASE Pm!State \/ Pm!Lock
    <2>1. pm_pc \in {"state", "lock"} /\ attempts + 1 \in 0 .. Attempts
      BY <1>7 DEF Pm!State, Pm!Lock
    <2>2. CASE Pm!Awake
      BY <2>1, <2>2 DEF Pm!Awake
    <2>3. CASE Pm!Retry
      BY <2>1, <2>3 DEF Pm!Retry
    <2>4. CASE Pm!State /\ ~Pm!Awake /\ ~Pm!Retry
      BY <2>1, <2>4 DEF Pm!State
    <2> QED BY <1>7, <2>2, <2>3, <2>4 DEF Pm!Lock
  <1>8. CASE UNCHANGED pm_vars
    BY <1>8 DEF pm_vars
  <1> QED BY <1>1, <1>2, <1>3, <1>4, <1>5, <1>6, <1>7, <1>8 DEF Pm!Next, Pm!Driver

LEMMA PmStep ==
    ASSUME PmInv, [Pm!Next]_pm_vars
    PROVE  PmInv'
  <1>0. Pm!TypeOK' /\ Counting'
    BY PmTyped DEF PmInv
  <1>9. Handshake'
    <2> USE DEF PmInv, Pm!TypeOK
    <2> USE DEF Handshake, LockedAwake, Pm!chip
    <2>1. CASE Pm!Suspend \/ Pm!Resume \/ Pm!Fail
      BY <2>1 DEF Pm!Suspend, Pm!Resume, Pm!Fail
    <2>2. CASE Pm!Write
      BY <2>2 DEF Pm!Write
    <2>3. CASE Pm!Acked
      BY <2>3 DEF Pm!Acked
    <2>4. CASE Pm!State \/ Pm!Lock
      BY <2>4 DEF Pm!State, Pm!Lock, Pm!Awake, Pm!Retry
    <2>5. CASE Pm!Play
      BY <2>5 DEF Pm!Play, Pm!Wakes
    <2>6. CASE Pm!Played
      BY <2>6 DEF Pm!Played
    <2>7. CASE Pm!Take
      BY <2>7 DEF Pm!Take
    <2>8. CASE Pm!Sleep
      BY <2>8 DEF Pm!Sleep
    <2>9. CASE UNCHANGED pm_vars
      BY <2>9 DEF pm_vars
    <2> QED BY <2>1, <2>2, <2>3, <2>4, <2>5, <2>6, <2>7, <2>8, <2>9 DEF Pm!Next, Pm!Driver
  <1> QED BY <1>0, <1>9 DEF PmInv

LEMMA PmSafe ==
    ASSUME PmInv
    PROVE  Pm!TypeOK /\ Pm!InUseAwake
  BY DEF PmInv, Handshake, LockedAwake, Pm!InUseAwake

--------------------------------------------------------------------------------
(* Cs40l26Wseq *)

LEMMA WseqConstants == MaxSize \in Nat /\ MaxSize >= 3 /\ Faults \in Nat /\ Data # {}
  BY ServicesAssumption DEF ServicesAssumption, Wseq!WseqAssumption

Named == Wseq!Keys \cup {Wseq!End, Wseq!Empty}

LEMMA WidthTyped ==
    /\ \A k \in Named : Wseq!Width(k) \in {1, 2, 3}
    /\ Wseq!Width(Wseq!Low) = 2 /\ Wseq!Width(Wseq!End) = 1 /\ Wseq!Width(Wseq!Empty) = 3
    /\ Wseq!Low \in Wseq!Keys /\ Wseq!End \in Named /\ Wseq!Empty \in Named /\ Wseq!Keys \subseteq Named
    /\ Wseq!End \notin Wseq!Keys /\ Wseq!Low # Wseq!End
  BY DEF Named, Wseq!Keys, Wseq!Width, Wseq!Full, Wseq!High, Wseq!Low, Wseq!TestKey, Wseq!End,
       Wseq!Empty

Cells == [key : Named, value : Data \cup {0}, part : {1, 2, 3}]

Memory == [0..MaxSize - 1 -> Cells]

LEMMA CellTyped ==
    ASSUME NEW k \in Named, NEW v \in Data \cup {0}, NEW i \in {1, 2, 3}
    PROVE  /\ Wseq!Word(k, v, i) \in Cells
           /\ Wseq!Word(k, v, i).key = k /\ Wseq!Word(k, v, i).value = v /\ Wseq!Word(k, v, i).part = i
  BY DEF Wseq!Word, Cells

LEMMA OneToThree ==
    ASSUME NEW n \in {1, 2, 3}, NEW i \in 1..n
    PROVE  i \in {1, 2, 3}
  OBVIOUS

LEMMA WordsTyped ==
    ASSUME NEW k \in Named, NEW v \in Data \cup {0}
    PROVE  /\ Wseq!Words(k, v) \in Seq(Cells) /\ Len(Wseq!Words(k, v)) = Wseq!Width(k)
           /\ \A i \in 1..Wseq!Width(k) : Wseq!Words(k, v)[i] = Wseq!Word(k, v, i)
  <1>1. Wseq!Width(k) \in {1, 2, 3}
    BY WidthTyped
  <1>2. \A i \in 1..Wseq!Width(k) : Wseq!Word(k, v, i) \in Cells
    BY <1>1, OneToThree, CellTyped
  <1> DEFINE s == [i \in 1..Wseq!Width(k) |-> Wseq!Word(k, v, i)]
  <1>3. s \in Seq(Cells) /\ Len(s) = Wseq!Width(k)
    BY <1>1, <1>2
  <1> QED BY <1>3 DEF Wseq!Words

LEMMA TerminatorTyped ==
    /\ Wseq!Terminator \in Seq(Cells) /\ Len(Wseq!Terminator) = 1
    /\ Wseq!Terminator[1].key = Wseq!End /\ Wseq!Terminator[1].part = 1
  <1>1. Wseq!Word(Wseq!End, 0, 1) \in Cells /\ Wseq!Word(Wseq!End, 0, 1).key = Wseq!End /\ Wseq!Word(Wseq!End, 0, 1).part = 1
    BY WidthTyped, CellTyped
  <1> QED BY <1>1 DEF Wseq!Terminator

(* What is written from an offset on is there, and the rest as it was. *)
LEMMA PutTyped ==
    ASSUME NEW cells \in Memory, NEW from \in Nat, NEW w \in Seq(Cells)
    PROVE  /\ Wseq!Put(cells, from, w) \in Memory
           /\ \A i \in 0..MaxSize - 1 :
                Wseq!Put(cells, from, w)[i] = IF i >= from /\ i < from + Len(w) THEN w[i - from + 1] ELSE cells[i]
  <1> USE WseqConstants
  <1>1. DOMAIN cells = 0..MaxSize - 1
    BY DEF Memory
  <1>2. ASSUME NEW i \in 0..MaxSize - 1
        PROVE  (IF i >= from /\ i < from + Len(w) THEN w[i - from + 1] ELSE cells[i]) \in Cells
    <2>1. cells[i] \in Cells
      BY DEF Memory
    <2>2. ASSUME i >= from /\ i < from + Len(w) PROVE w[i - from + 1] \in Cells
      <3>1. i - from + 1 \in 1..Len(w)
        BY <2>2
      <3> QED BY <3>1
    <2> QED BY <2>1, <2>2
  <1>3. Wseq!Put(cells, from, w) = [i \in 0..MaxSize - 1 |-> IF i >= from /\ i < from + Len(w)
                                                     THEN w[i - from + 1] ELSE cells[i]]
    BY <1>1, Zenon DEF Wseq!Put
  <1> QED BY <1>2, <1>3 DEF Memory

LEMMA PutAt ==
    ASSUME NEW cells \in Memory, NEW from \in Nat, NEW w \in Seq(Cells), NEW k \in 1..Len(w),
           NEW p \in 0..MaxSize - 1, p = from + k - 1
    PROVE  Wseq!Put(cells, from, w)[p] = w[k]
  <1>1. Len(w) \in Nat
    OBVIOUS
  <1>2. p >= from /\ p < from + Len(w) /\ p - from + 1 = k
    BY <1>1
  <1>3. Wseq!Put(cells, from, w)[p] = IF p >= from /\ p < from + Len(w) THEN w[p - from + 1]
                                 ELSE cells[p]
    BY PutTyped
  <1> QED BY <1>2, <1>3

LEMMA PutApart ==
    ASSUME NEW cells \in Memory, NEW from \in Nat, NEW w \in Seq(Cells),
           NEW p \in 0..MaxSize - 1, p < from \/ from + Len(w) <= p
    PROVE  Wseq!Put(cells, from, w)[p] = cells[p]
  <1>1. Len(w) \in Nat
    OBVIOUS
  <1>2. ~(p >= from /\ p < from + Len(w))
    BY <1>1
  <1>3. Wseq!Put(cells, from, w)[p] = IF p >= from /\ p < from + Len(w) THEN w[p - from + 1]
                                 ELSE cells[p]
    BY PutTyped, Zenon
  <1> QED BY <1>2, <1>3

LEMMA PartTyped ==
    ASSUME NEW w \in Seq(Cells), NEW n \in 0..Len(w)
    PROVE  /\ SubSeq(w, 1, n) \in Seq(Cells) /\ Len(SubSeq(w, 1, n)) = n
           /\ \A i \in 1..n : SubSeq(w, 1, n)[i] = w[i]
  OBVIOUS

LEMMA Extended ==
    ASSUME NEW S, NEW w \in Seq(S), NEW t \in Seq(S), Len(t) = 1
    PROVE  /\ w \o t \in Seq(S) /\ Len(w \o t) = Len(w) + 1
           /\ \A i \in 1..Len(w) : (w \o t)[i] = w[i]
           /\ (w \o t)[Len(w) + 1] = t[1]
  <1>1. Len(w) \in Nat
    OBVIOUS
  <1>2. /\ w \o t \in Seq(S) /\ Len(w \o t) = Len(w) + Len(t)
        /\ \A i \in 1..Len(w) + Len(t) :
             (w \o t)[i] = IF i <= Len(w) THEN w[i] ELSE t[i - Len(w)]
    BY ConcatProperties, Zenon
  <1>3. \A i \in 1..Len(w) : i \in 1..Len(w) + Len(t) /\ i <= Len(w)
    BY <1>1
  <1>4. /\ Len(w) + 1 \in 1..Len(w) + Len(t) /\ ~(Len(w) + 1 <= Len(w))
        /\ Len(w) + 1 - Len(w) = 1
    BY <1>1
  <1> QED BY <1>2, <1>3, <1>4

LEMMA JoinedTyped ==
    ASSUME NEW w \in Seq(Cells)
    PROVE  /\ w \o Wseq!Terminator \in Seq(Cells) /\ Len(w \o Wseq!Terminator) = Len(w) + 1
           /\ \A i \in 1..Len(w) : (w \o Wseq!Terminator)[i] = w[i]
           /\ (w \o Wseq!Terminator)[Len(w) + 1] = Wseq!Terminator[1]
  BY TerminatorTyped, Extended, Zenon

LEMMA ZerosTyped ==
    ASSUME NEW a \in Nat, NEW b \in Nat
    PROVE  Wseq!Zeros(a, b) \in Seq(Cells)
  <1>1. Wseq!Word(Wseq!Empty, 0, 1) \in Cells
    BY WidthTyped, CellTyped
  <1> DEFINE n == IF b - a > 0 THEN b - a ELSE 0
             z == Wseq!Word(Wseq!Empty, 0, 1)
             s == [i \in 1..n |-> z]
  <1>2. n \in Nat /\ 1..b - a = 1..n
    OBVIOUS
  <1>3. Wseq!Zeros(a, b) = s
    BY <1>2, Zenon DEF Wseq!Zeros
  <1> HIDE DEF n, z
  <1>4. s \in Seq(Cells)
    BY <1>1, <1>2 DEF z
  <1> QED BY <1>3, <1>4

(* The recursion of a scan, and of what the chip replays. *)
Scans(f, key, n) ==
    \A p \in 0..n :
        f[p] = IF p = n THEN [found |-> "no", at |-> 0]
               ELSE IF memory[p].part # 1 \/ p + Wseq!Width(memory[p].key) > n
               THEN [found |-> "error", at |-> 0]
               ELSE IF memory[p].key = key THEN [found |-> "yes", at |-> p]
               ELSE f[p + Wseq!Width(memory[p].key)]

LEMMA ScanUnfolds ==
    ASSUME memory \in Memory, NEW key, NEW n \in 0..MaxSize
    PROVE  \E f : Scans(f, key, n) /\ Wseq!Scan(key, n) = f[0]
  <1> USE WseqConstants
  <1> DEFINE T == [found : {"no", "error", "yes"}, at : Nat]
             error(p) == memory[p].part # 1 \/ p + Wseq!Width(memory[p].key) > n
             stop == [p \in 0..n |-> p = n \/ error(p) \/ memory[p].key = key]
             own == [p \in 0..n |-> IF p = n THEN [found |-> "no", at |-> 0]
                                    ELSE IF error(p) THEN [found |-> "error", at |-> 0]
                                    ELSE [found |-> "yes", at |-> p]]
             later == [p \in 0..n |-> p + Wseq!Width(memory[p].key)]
             built == [p \in 0..n |-> [t \in T |-> t]]
             Body(g) == [p \in 0..n |->
                            IF p = n THEN [found |-> "no", at |-> 0]
                            ELSE LET w == memory[p] IN
                                 IF w.part # 1 \/ p + Wseq!Width(w.key) > n
                                 THEN [found |-> "error", at |-> 0]
                                 ELSE IF w.key = key THEN [found |-> "yes", at |-> p]
                                 ELSE g[p + Wseq!Width(w.key)]]
  <1>1. n \in Nat /\ \A p \in 0..n : p # n => Wseq!Width(memory[p].key) \in {1, 2, 3}
    <2>1. ASSUME NEW p \in 0..n, p # n PROVE Wseq!Width(memory[p].key) \in {1, 2, 3}
      <3>1. p \in 0..MaxSize - 1
        BY <2>1
      <3>2. memory[p] \in Cells
        BY <3>1 DEF Memory
      <3> QED BY <3>2, WidthTyped DEF Cells
    <2> QED BY <2>1
  <1>2. own \in [0..n -> T] /\ built \in [0..n -> [T -> T]]
    OBVIOUS
  <1>3. LaterAt(n, stop, later)
    <2> SUFFICES ASSUME NEW p \in 0..n, ~stop[p]
                 PROVE  later[p] \in 0..n /\ p < later[p]
      BY DEF LaterAt
    <2>1. p # n /\ ~(p + Wseq!Width(memory[p].key) > n)
      OBVIOUS
    <2>2. Wseq!Width(memory[p].key) \in {1, 2, 3}
      BY <1>1, <2>1
    <2> QED BY <2>1, <2>2
  <1>4. PICK f : Descends(f, T, n, stop, own, later, built)
    <2> HIDE DEF stop, own, later, built, T
    <2> QED BY <1>1, <1>2, <1>3, Descent
  <1>5. f = Body(f)
    <2>1. f \in [0..n -> T]
      BY <1>4 DEF Descends
    <2>2. ASSUME NEW p \in 0..n PROVE f[p] = Body(f)[p]
      <3>1. f[p] = IF stop[p] THEN own[p] ELSE built[p][f[later[p]]]
        BY <1>4 DEF Descends
      <3>2. CASE stop[p]
        BY <3>1, <3>2
      <3>3. CASE ~stop[p]
        <4>1. later[p] \in 0..n
          BY <3>3, <1>3 DEF LaterAt
        <4>2. f[later[p]] \in T
          BY <2>1, <4>1
        <4>3. f[p] = f[later[p]]
          <5> HIDE DEF stop, own, later, T
          <5> QED BY <3>1, <3>3, <4>2
        <4>4. p # n /\ ~error(p) /\ ~(memory[p].key = key)
          BY <3>3
        <4> HIDE DEF T
        <4> QED BY <4>3, <4>4
      <3> QED BY <3>2, <3>3
    <2>3. Body(f) = [p \in 0..n |-> Body(f)[p]]
      OBVIOUS
    <2>4. f = [p \in 0..n |-> f[p]]
      BY <2>1
    <2> HIDE DEF Body
    <2> QED BY <2>2, <2>3, <2>4
  <1>6. Wseq!Scan(key, n) = (CHOOSE g : g = Body(g))[0]
    BY DEF Wseq!Scan
  <1> DEFINE c == CHOOSE g : g = Body(g)
  <1>7. c = Body(c)
    <2> HIDE DEF Body
    <2> QED BY <1>5
  <1>8. Scans(c, key, n)
    <2> SUFFICES ASSUME NEW p \in 0..n
                 PROVE  c[p] = IF p = n THEN [found |-> "no", at |-> 0]
                               ELSE IF error(p) THEN [found |-> "error", at |-> 0]
                               ELSE IF memory[p].key = key THEN [found |-> "yes", at |-> p]
                               ELSE c[p + Wseq!Width(memory[p].key)]
      BY Zenon DEF Scans
    <2>1. c[p] = Body(c)[p]
      BY <1>7, Zenon
    <2> HIDE DEF c
    <2> QED BY <2>1
  <1> HIDE DEF Body
  <1> QED BY <1>6, <1>8, Zenon

Values == Data \cup {0}
Entry == (Named \X Values) \cup {"overrun", "garbage"}

(* Beyond the end of memory, an operation that is not one, or an operation. *)
Stops(cells, p) ==
    cells[p].key = Wseq!End \/ cells[p].part # 1 \/ p + Wseq!Width(cells[p].key) > MaxSize

ReplayFrom(f, cells) ==
    /\ \A p \in 0..MaxSize - 1 : cells[p].key = Wseq!End => f[p] = <<>>
    /\ \A p \in 0..MaxSize - 1 :
         ~Stops(cells, p) =>
            f[p] = <<<<cells[p].key, cells[p + Wseq!Width(cells[p].key) - 1].value>>>>
                   \o f[p + Wseq!Width(cells[p].key)]

LEMMA ReplayUnfolds ==
    ASSUME NEW cells \in Memory
    PROVE  \E f : ReplayFrom(f, cells) /\ Wseq!Replayed(cells) = f[0]
  <1> USE WseqConstants
  <1> DEFINE T == Seq(Entry)
             n == MaxSize
             stop == [p \in 0..n |-> p = n \/ Stops(cells, p)]
             own == [p \in 0..n |-> IF p = n THEN <<"overrun">>
                                    ELSE IF cells[p].key = Wseq!End THEN <<>> ELSE <<"garbage">>]
             later == [p \in 0..n |-> p + Wseq!Width(cells[p].key)]
             entry(p) == <<cells[p].key, cells[p + Wseq!Width(cells[p].key) - 1].value>>
             built == [p \in 0..n |-> [t \in T |-> IF stop[p] THEN t ELSE <<entry(p)>> \o t]]
             Body(g) == [p \in 0..n |->
                            IF p = n THEN <<"overrun">>
                            ELSE LET w == cells[p] IN
                                 IF w.key = Wseq!End THEN <<>>
                                 ELSE IF w.part # 1 \/ p + Wseq!Width(w.key) > n THEN <<"garbage">>
                                 ELSE <<<<w.key, cells[p + Wseq!Width(w.key) - 1].value>>>>
                                      \o g[p + Wseq!Width(w.key)]]
  <1>1. ASSUME NEW p \in 0..n, p # n
        PROVE  cells[p] \in Cells /\ cells[p].key \in Named /\ Wseq!Width(cells[p].key) \in {1, 2, 3}
    <2>1. p \in 0..MaxSize - 1
      BY <1>1
    <2>2. cells[p] \in Cells
      BY <2>1 DEF Memory
    <2> QED BY <2>2, WidthTyped DEF Cells
  <1>2. own \in [0..n -> T]
    <2>1. <<>> \in T /\ <<"garbage">> \in T /\ <<"overrun">> \in T
      <3>1. "garbage" \in Entry /\ "overrun" \in Entry
        BY DEF Entry
      <3> QED BY <3>1
    <2> HIDE DEF T
    <2> QED BY <2>1
  <1>3. ASSUME NEW p \in 0..n, ~stop[p]
        PROVE  p # n /\ ~Stops(cells, p) /\ later[p] \in 0..n /\ p < later[p] /\ entry(p) \in Entry
    <2>1. p # n /\ ~Stops(cells, p)
      BY <1>3
    <2>2. Wseq!Width(cells[p].key) \in {1, 2, 3} /\ p + Wseq!Width(cells[p].key) <= n
      BY <1>1, <2>1 DEF Stops
    <2>3. p + Wseq!Width(cells[p].key) - 1 \in 0..MaxSize - 1
      BY <2>2
    <2>4. cells[p + Wseq!Width(cells[p].key) - 1] \in Cells
      BY <2>3 DEF Memory
    <2>5. cells[p].key \in Named /\ cells[p + Wseq!Width(cells[p].key) - 1].value \in Values
      BY <1>1, <2>1, <2>4 DEF Cells, Values
    <2> QED BY <2>1, <2>2, <2>5 DEF Entry
  <1>4. LaterAt(n, stop, later)
    <2> HIDE DEF stop, later
    <2> QED BY <1>3 DEF LaterAt
  <1>5. built \in [0..n -> [T -> T]]
    <2>1. ASSUME NEW p \in 0..n, NEW t \in T
          PROVE  (IF stop[p] THEN t ELSE <<entry(p)>> \o t) \in T
      <3>1. CASE ~stop[p]
        <4> HIDE DEF stop, entry
        <4>1. entry(p) \in Entry
          BY <1>3, <3>1
        <4>2. <<entry(p)>> \in Seq(Entry)
          BY <4>1
        <4> QED BY <3>1, <4>2, ConcatProperties
      <3> HIDE DEF stop
      <3> QED BY <3>1
    <2> HIDE DEF stop, T, entry
    <2> QED BY <2>1
  <1>6. PICK f : Descends(f, T, n, stop, own, later, built)
    <2> HIDE DEF stop, own, later, built, T
    <2> QED BY <1>2, <1>4, <1>5, Descent
  <1>7. f = Body(f)
    <2>1. f \in [0..n -> T]
      BY <1>6 DEF Descends
    <2>2. ASSUME NEW p \in 0..n PROVE f[p] = Body(f)[p]
      <3>1. f[p] = IF stop[p] THEN own[p] ELSE built[p][f[later[p]]]
        BY <1>6 DEF Descends
      <3>2. CASE stop[p]
        BY <3>1, <3>2 DEF Stops
      <3>3. CASE ~stop[p]
        <4>1. later[p] \in 0..n
          BY <3>3, <1>4 DEF LaterAt
        <4>2. f[later[p]] \in T
          BY <2>1, <4>1
        <4>3. f[p] = <<entry(p)>> \o f[later[p]]
          <5>1. built[p][f[later[p]]] = IF stop[p] THEN f[later[p]] ELSE <<entry(p)>> \o f[later[p]]
            <6> HIDE DEF stop, own, later, T, entry
            <6> QED BY <4>2
          <5> HIDE DEF stop, own, later, built, T, entry
          <5> QED BY <3>1, <3>3, <5>1
        <4>4. p # n /\ ~Stops(cells, p) /\ later[p] = p + Wseq!Width(cells[p].key)
          BY <3>3
        <4> HIDE DEF T, later, stop
        <4> QED BY <4>3, <4>4 DEF Stops
      <3> QED BY <3>2, <3>3
    <2>3. Body(f) = [p \in 0..n |-> Body(f)[p]]
      OBVIOUS
    <2>4. f = [p \in 0..n |-> f[p]]
      BY <2>1
    <2> HIDE DEF Body
    <2> QED BY <2>2, <2>3, <2>4
  <1>8. Wseq!Replayed(cells) = (CHOOSE g : g = Body(g))[0]
    BY DEF Wseq!Replayed
  <1> DEFINE c == CHOOSE g : g = Body(g)
  <1>9. c = Body(c)
    <2> HIDE DEF Body
    <2> QED BY <1>7
  <1>10. ReplayFrom(c, cells)
    <2>1. ASSUME NEW p \in 0..MaxSize - 1
          PROVE  /\ cells[p].key = Wseq!End => c[p] = <<>>
                 /\ ~Stops(cells, p) =>
                      c[p] = <<<<cells[p].key, cells[p + Wseq!Width(cells[p].key) - 1].value>>>>
                             \o c[p + Wseq!Width(cells[p].key)]
      <3>1. c[p] = Body(c)[p]
        BY <1>9, Zenon
      <3>2. p \in 0..n /\ p # n
        OBVIOUS
      <3> HIDE DEF c
      <3> QED BY <3>1, <3>2 DEF Stops
    <2> HIDE DEF c
    <2> QED BY <2>1, Zenon DEF ReplayFrom
  <1> HIDE DEF Body
  <1> QED BY <1>8, <1>10, Zenon

(* The ROM's own writes, and where they end. *)
RomLen == IF rom THEN 2 ELSE 0

(* The values in the list are in memory from the positions pos on, up to a terminator. *)
Laid(cells, list, pos, term) ==
    /\ pos[1] = 0 /\ pos[Len(list) + 1] = term
    /\ \A i \in 1..Len(list) + 1 : pos[i] \in Nat /\ pos[i] < MaxSize
    /\ \A i \in 1..Len(list) :
         /\ pos[i + 1] = pos[i] + Wseq!Width(list[i][1])
         /\ cells[pos[i]].key = list[i][1] /\ cells[pos[i]].part = 1
         /\ cells[pos[i + 1] - 1].value = list[i][2]
    /\ \A i \in 1..Len(list) : \A j \in 1..Len(list) + 1 :
         i < j => pos[i] + Wseq!Width(list[i][1]) <= pos[j]
    /\ cells[term].key = Wseq!End /\ cells[term].part = 1

Params == [rom : Nat, term : Nat, size : Nat]

WseqTyped ==
    /\ memory \in Memory /\ rom \in BOOLEAN /\ intact \in BOOLEAN
    /\ failed \in Nat /\ failed <= Faults
    /\ params \in Params /\ wanted \in Seq(Wseq!Keys \X Data)

(* The ROM's write is replaced, but stays where it is; *)
WseqRom ==
    rom => memory[0].key = Wseq!Low /\ memory[0].part = 1 /\ memory[1].value \in Data

(* a list that is not in use ends behind it; *)
WseqClosed ==
    ~Wseq!Ready => params = Wseq!None /\ memory[RomLen].key = Wseq!End /\ memory[RomLen].part = 1

(* one that is ends behind it or later; *)
WseqEnds ==
    Wseq!Ready => /\ params.rom = RomLen /\ RomLen <= params.term
             /\ params.term < params.size /\ params.size <= MaxSize

(* and if no access failed holds what is wanted, one operation after the other. *)
WseqListed ==
    Wseq!Ready /\ intact =>
        /\ params.size = params.term + 1
        /\ \E pos : Laid(memory, wanted, pos, params.term)

WseqInv == WseqTyped /\ WseqRom /\ WseqClosed /\ WseqEnds /\ WseqListed

--------------------------------------------------------------------------------
(* Searches *)

LEMMA CellAt ==
    ASSUME NEW cells \in Memory, NEW p \in 0..MaxSize - 1
    PROVE  /\ cells[p] \in Cells /\ cells[p].key \in Named /\ Wseq!Width(cells[p].key) \in {1, 2, 3}
           /\ cells[p].part \in {1, 2, 3} /\ cells[p].value \in Values
  <1>1. cells[p] \in Cells
    BY DEF Memory
  <1> QED BY <1>1, WidthTyped DEF Cells, Values

(* What a scan finds lies before the end, and behind what the ROM put there, unless it is that. *)
LEMMA ScanFinds ==
    ASSUME WseqTyped, WseqRom, NEW key \in Wseq!Keys, NEW n \in 0..MaxSize,
           Wseq!Scan(key, n).found = "yes"
    PROVE  /\ Wseq!Scan(key, n).at \in Nat /\ Wseq!Scan(key, n).at < n
           /\ rom => (Wseq!Scan(key, n).at = 0 /\ key = Wseq!Low) \/ Wseq!Scan(key, n).at >= 2
  <1> USE WseqConstants
  <1>1. PICK f : Scans(f, key, n) /\ Wseq!Scan(key, n) = f[0]
    BY ScanUnfolds, Zenon DEF WseqTyped
  <1> DEFINE Found(p) == f[p].found = "yes" => f[p].at \in Nat /\ p <= f[p].at /\ f[p].at < n
             S == {p \in 0..n : Found(p)}
  <1>2. n \in Nat
    OBVIOUS
  <1>3. ASSUME NEW p \in 0..n, \A q \in 0..n : p < q => q \in S PROVE p \in S
    <2>1. CASE p = n
      <3>1. f[p] = [found |-> "no", at |-> 0]
        BY <2>1, <1>1 DEF Scans
      <3>2. f[p].found = "no"
        BY <3>1
      <3> QED BY <3>2
    <2>2. CASE p # n /\ (memory[p].part # 1 \/ p + Wseq!Width(memory[p].key) > n)
      <3>1. f[p] = [found |-> "error", at |-> 0]
        BY <2>2, <1>1 DEF Scans
      <3>2. f[p].found = "error"
        BY <3>1
      <3> QED BY <3>2
    <2>3. CASE p # n /\ ~(memory[p].part # 1 \/ p + Wseq!Width(memory[p].key) > n)
      <3>1. Wseq!Width(memory[p].key) \in {1, 2, 3}
        <4>1. p \in 0..MaxSize - 1
          BY <2>3
        <4> QED BY <4>1, CellAt, Zenon DEF WseqTyped
      <3> DEFINE q == p + Wseq!Width(memory[p].key)
      <3>2. q \in 0..n /\ p < q
        BY <3>1, <2>3
      <3>3. f[p] = IF memory[p].key = key THEN [found |-> "yes", at |-> p] ELSE f[q]
        BY <1>1, <2>3 DEF Scans
      <3>4. q \in S
        BY <3>2, <1>3
      <3> HIDE DEF q
      <3>5. f[q].found = "yes" => f[q].at \in Nat /\ q <= f[q].at /\ f[q].at < n
        BY <3>4
      <3> QED BY <2>3, <3>2, <3>3, <3>5
    <2> QED BY <2>1, <2>2, <2>3
  <1>4. \A p \in 0..n : Found(p)
    <2> HIDE DEF Found
    <2>1. \A p \in 0..n : p \in S
      <3> HIDE DEF S
      <3> QED BY <1>2, <1>3, Downward
    <2> QED BY <2>1
  <1>5. Found(0)
    BY <1>4
  <1>6. ASSUME rom PROVE (f[0].at = 0 /\ key = Wseq!Low) \/ f[0].at >= 2
    <2>1. memory[0].key = Wseq!Low /\ memory[0].part = 1 /\ Wseq!Width(memory[0].key) = 2
      BY <1>6, WidthTyped DEF WseqRom
    <2>2. n # 0 /\ ~(2 > n)
      <3>1. CASE n = 0
        <4>1. f[0] = [found |-> "no", at |-> 0]
          BY <3>1, <1>1 DEF Scans
        <4>2. f[0].found = "no"
          BY <4>1
        <4> QED BY <4>2, <1>1
      <3>2. CASE n # 0 /\ 2 > n
        <4>1. f[0] = [found |-> "error", at |-> 0]
          <5>1. 0 \in 0..n /\ 0 + Wseq!Width(memory[0].key) > n
            BY <3>2, <2>1
          <5> QED BY <5>1, <3>2, <1>1 DEF Scans
        <4>2. f[0].found = "error"
          BY <4>1
        <4> QED BY <4>2, <1>1
      <3> QED BY <3>1, <3>2
    <2>3. f[0] = IF Wseq!Low = key THEN [found |-> "yes", at |-> 0] ELSE f[2]
      BY <2>1, <2>2, <1>1 DEF Scans
    <2>4. CASE Wseq!Low = key
      BY <2>3, <2>4
    <2>5. CASE Wseq!Low # key
      <3>1. f[0] = f[2] /\ Found(2)
        BY <2>2, <2>3, <2>5, <1>4
      <3> QED BY <3>1, <1>1
    <2> QED BY <2>4, <2>5
  <1> QED BY <1>1, <1>5, <1>6

Searched(s, pos, key) ==
    \/ s.found = "no" /\ \A j \in 1..Len(wanted) : wanted[j][1] # key
    \/ /\ s.found = "yes"
       /\ \E j \in 1..Len(wanted) :
            /\ s.at = pos[j] /\ wanted[j][1] = key
            /\ \A l \in 1..j - 1 : wanted[l][1] # key

(* In a list that is laid out, a scan finds the first operation on its register. *)
LEMMA ScanFirst ==
    ASSUME WseqTyped, NEW pos, Laid(memory, wanted, pos, params.term), NEW key \in Wseq!Keys,
           params.size = params.term + 1, params.size <= MaxSize
    PROVE  Searched(Wseq!Scan(key, params.size), pos, key)
  <1> USE WseqConstants
  <1> DEFINE n == params.size
             K == Len(wanted)
  <1>1. n \in 0..MaxSize /\ n = params.term + 1 /\ params.term \in Nat /\ K \in Nat
    BY DEF WseqTyped, Params
  <1> HIDE DEF n, K
  <1>2. PICK f : Scans(f, key, n) /\ Wseq!Scan(key, n) = f[0]
    BY <1>1, ScanUnfolds, Zenon DEF WseqTyped
  <1> DEFINE None_(i) == f[pos[i]].found = "no" /\ \A j \in i..K : wanted[j][1] # key
             Some(i) == /\ f[pos[i]].found = "yes"
                        /\ \E j \in i..K : /\ f[pos[i]].at = pos[j] /\ wanted[j][1] = key
                                           /\ \A l \in i..j - 1 : wanted[l][1] # key
             S == {p \in 0..K : None_(p + 1) \/ Some(p + 1)}
  <1>3. ASSUME NEW p \in 0..K, \A q \in 0..K : p < q => q \in S PROVE p \in S
    <2>1. CASE p = K
      <3>1. pos[K + 1] = params.term /\ memory[params.term].key = Wseq!End
            /\ memory[params.term].part = 1
        BY DEF Laid, K
      <3>2. params.term \in 0..n /\ params.term # n /\ ~(params.term + Wseq!Width(Wseq!End) > n)
            /\ params.term + Wseq!Width(Wseq!End) = n /\ n \in 0..n /\ Wseq!End # key
        BY <1>1, WidthTyped
      <3>3. f[params.term] = f[n] /\ f[n] = [found |-> "no", at |-> 0]
        BY <3>1, <3>2, <1>2 DEF Scans
      <3>4. \A j \in (K + 1)..K : FALSE
        BY <1>1
      <3>5. None_(K + 1)
        BY <3>1, <3>3, <3>4
      <3> HIDE DEF None_, Some
      <3> QED BY <2>1, <3>5
    <2>2. CASE p # K
      <3> DEFINE i == p + 1
      <3>1. i \in 1..K /\ i \in 1..K + 1 /\ i + 1 \in 1..K + 1 /\ i \in 0..K /\ p < i
        BY <2>2, <1>1
      <3> HIDE DEF i
      <3>2. /\ pos[i + 1] = pos[i] + Wseq!Width(wanted[i][1])
            /\ memory[pos[i]].key = wanted[i][1] /\ memory[pos[i]].part = 1
        BY <3>1 DEF Laid, K
      <3>3. pos[i] \in Nat /\ pos[i + 1] \in Nat /\ pos[i + 1] < MaxSize
        BY <3>1 DEF Laid, K
      <3>4. pos[i + 1] <= params.term
        <4>1. CASE i = K
          BY <4>1 DEF Laid, K
        <4>2. CASE i # K
          <5>1. i < K + 1 /\ K + 1 \in 1..K + 1
            BY <3>1, <1>1
          <5>2. pos[i] + Wseq!Width(wanted[i][1]) <= pos[K + 1] /\ pos[K + 1] = params.term
            BY <3>1, <5>1 DEF Laid, K
          <5> QED BY <5>2, <3>2
        <4> QED BY <4>1, <4>2
      <3>5. Wseq!Width(wanted[i][1]) \in {1, 2, 3}
        <4>1. wanted \in Seq(Wseq!Keys \X Data) /\ i \in 1..Len(wanted)
          BY <3>1 DEF WseqTyped, K
        <4>2. wanted[i] \in Wseq!Keys \X Data
          BY <4>1
        <4> QED BY <4>2, WidthTyped
      <3>6. pos[i] \in 0..n /\ pos[i] # n /\ ~(pos[i] + Wseq!Width(memory[pos[i]].key) > n)
        BY <3>2, <3>3, <3>4, <3>5, <1>1
      <3>7. f[pos[i]] = IF wanted[i][1] = key THEN [found |-> "yes", at |-> pos[i]]
                        ELSE f[pos[i + 1]]
        BY <3>2, <3>6, <1>2 DEF Scans
      <3>8. CASE wanted[i][1] = key
        <4>1. f[pos[i]].found = "yes" /\ f[pos[i]].at = pos[i]
          BY <3>7, <3>8
        <4>2. i \in i..K /\ \A l \in i..i - 1 : wanted[l][1] # key
          BY <3>1, <1>1
        <4>3. Some(i)
          BY <4>1, <4>2, <3>8
        <4> HIDE DEF None_, Some
        <4> QED BY <4>3 DEF i
      <3>9. CASE wanted[i][1] # key
        <4>1. f[pos[i]] = f[pos[i + 1]]
          BY <3>7, <3>9
        <4>2. None_(i + 1) \/ Some(i + 1)
          <5>1. i \in S
            BY <3>1, <1>3
          <5> HIDE DEF None_, Some
          <5> QED BY <5>1
        <4>3. CASE None_(i + 1)
          <5>1. \A j \in i..K : j = i \/ j \in (i + 1)..K
            BY <3>1, <1>1
          <5>2. None_(i)
            BY <4>1, <4>3, <5>1, <3>9
          <5> HIDE DEF None_, Some
          <5> QED BY <5>2 DEF i
        <4>4. CASE Some(i + 1)
          <5>1. PICK j \in (i + 1)..K : /\ f[pos[i + 1]].at = pos[j] /\ wanted[j][1] = key
                                        /\ \A l \in (i + 1)..j - 1 : wanted[l][1] # key
            BY <4>4
          <5>2. j \in i..K /\ \A l \in i..j - 1 : l = i \/ l \in (i + 1)..j - 1
            BY <3>1, <1>1
          <5>3. \A l \in i..j - 1 : wanted[l][1] # key
            BY <5>1, <5>2, <3>9
          <5>4. f[pos[i]].found = "yes" /\ f[pos[i]].at = pos[j] /\ wanted[j][1] = key
            BY <4>1, <4>4, <5>1
          <5>5. Some(i)
            BY <5>2, <5>3, <5>4
          <5> HIDE DEF None_, Some
          <5> QED BY <5>5 DEF i
        <4> QED BY <4>2, <4>3, <4>4
      <3> QED BY <3>8, <3>9
    <2> QED BY <2>1, <2>2
  <1>4. None_(1) \/ Some(1)
    <2> HIDE DEF None_, Some
    <2>1. \A p \in 0..K : p \in S
      <3> HIDE DEF S
      <3> QED BY <1>1, <1>3, Downward
    <2>2. 0 \in 0..K /\ 0 + 1 = 1
      BY <1>1
    <2> QED BY <2>1, <2>2
  <1>5. pos[1] = 0
    BY DEF Laid
  <1> QED BY <1>2, <1>4, <1>5 DEF n, K, Searched

LEMMA RestOf ==
    ASSUME NEW S, NEW s \in Seq(S), NEW i \in 1..Len(s)
    PROVE  /\ SubSeq(s, i, Len(s)) = <<s[i]>> \o SubSeq(s, i + 1, Len(s))
           /\ SubSeq(s, Len(s) + 1, Len(s)) = <<>> /\ SubSeq(s, 1, Len(s)) = s
  OBVIOUS

(* The chip replays a list that is laid out. *)
LEMMA LaidReplayed ==
    ASSUME NEW cells \in Memory, NEW list \in Seq(Wseq!Keys \X Data), NEW pos, NEW term \in Nat,
           Laid(cells, list, pos, term)
    PROVE  Wseq!Replayed(cells) = list
  <1> USE WseqConstants
  <1> DEFINE K == Len(list)
  <1>1. K \in Nat
    OBVIOUS
  <1>2. PICK f : ReplayFrom(f, cells) /\ Wseq!Replayed(cells) = f[0]
    BY ReplayUnfolds, Zenon
  <1> DEFINE S == {p \in 0..K : f[pos[p + 1]] = SubSeq(list, p + 1, K)}
  <1>3. ASSUME NEW p \in 0..K, \A q \in 0..K : p < q => q \in S PROVE p \in S
    <2>1. CASE p = K
      <3>1. pos[K + 1] = term /\ cells[term].key = Wseq!End /\ term < MaxSize
        <4>1. K + 1 \in 1..K + 1
          BY <1>1
        <4> QED BY <4>1 DEF Laid
      <3>2. f[term] = <<>>
        BY <3>1, <1>2 DEF ReplayFrom
      <3>3. SubSeq(list, K + 1, K) = <<>>
        OBVIOUS
      <3> HIDE DEF K
      <3> QED BY <2>1, <3>1, <3>2, <3>3
    <2>2. CASE p # K
      <3> DEFINE i == p + 1
      <3>1. i \in 1..K /\ i \in 1..K + 1 /\ i + 1 \in 1..K + 1 /\ i \in 0..K /\ p < i
        BY <2>2, <1>1
      <3> HIDE DEF i
      <3>2. /\ pos[i + 1] = pos[i] + Wseq!Width(list[i][1])
            /\ cells[pos[i]].key = list[i][1] /\ cells[pos[i]].part = 1
            /\ cells[pos[i + 1] - 1].value = list[i][2]
        BY <3>1 DEF Laid
      <3>3. pos[i] \in Nat /\ pos[i] < MaxSize /\ pos[i + 1] \in Nat /\ pos[i + 1] < MaxSize
        BY <3>1 DEF Laid
      <3>4. list[i] \in Wseq!Keys \X Data /\ list[i] = <<list[i][1], list[i][2]>>
        BY <3>1
      <3>5. list[i][1] \in Wseq!Keys /\ list[i][1] # Wseq!End
        BY <3>4, WidthTyped
      <3>6. pos[i] \in 0..MaxSize - 1 /\ ~Stops(cells, pos[i])
        BY <3>2, <3>3, <3>5 DEF Stops
      <3>7. f[pos[i]] = <<<<cells[pos[i]].key, cells[pos[i] + Wseq!Width(cells[pos[i]].key) - 1].value>>>>
                        \o f[pos[i] + Wseq!Width(cells[pos[i]].key)]
        BY <3>6, <1>2 DEF ReplayFrom
      <3>8. f[pos[i]] = <<list[i]>> \o f[pos[i + 1]]
        <4>1. /\ pos[i] + Wseq!Width(cells[pos[i]].key) = pos[i + 1]
              /\ pos[i] + Wseq!Width(cells[pos[i]].key) - 1 = pos[i + 1] - 1
          <5>1. Wseq!Width(cells[pos[i]].key) = Wseq!Width(list[i][1]) /\ Wseq!Width(list[i][1]) \in {1, 2, 3}
            BY <3>2, <3>5, WidthTyped
          <5> QED BY <5>1, <3>2, <3>3
        <4>2. <<cells[pos[i]].key, cells[pos[i] + Wseq!Width(cells[pos[i]].key) - 1].value>> = list[i]
          BY <4>1, <3>2, <3>4, Zenon
        <4> QED BY <4>1, <4>2, <3>7, Zenon
      <3>9. i \in S
        BY <3>1, <1>3
      <3>10. f[pos[i + 1]] = SubSeq(list, i + 1, K)
        BY <3>9
      <3>11. SubSeq(list, i, K) = <<list[i]>> \o SubSeq(list, i + 1, K)
        BY <3>1, RestOf
      <3>12. f[pos[p + 1]] = SubSeq(list, p + 1, K)
        <4> HIDE DEF K
        <4> QED BY <3>8, <3>10, <3>11 DEF i
      <3> HIDE DEF K
      <3> QED BY <3>12
    <2> QED BY <2>1, <2>2
  <1>4. 0 \in S
    <2>1. \A p \in 0..K : p \in S
      <3> HIDE DEF S, K
      <3> QED BY <1>1, <1>3, Downward
    <2>2. 0 \in 0..K
      BY <1>1
    <2> HIDE DEF S, K
    <2> QED BY <2>1, <2>2
  <1>5. f[pos[1]] = SubSeq(list, 1, K) /\ pos[1] = 0
    BY <1>4 DEF Laid
  <1>6. SubSeq(list, 1, K) = list
    OBVIOUS
  <1> QED BY <1>2, <1>5, <1>6

--------------------------------------------------------------------------------
(* Writes to a list that is laid out *)

Spans(list, pos, term, i) ==
    /\ list[i] \in Wseq!Keys \X Data /\ Wseq!Width(list[i][1]) \in {1, 2, 3}
    /\ pos[i] \in Nat /\ pos[i + 1] \in Nat /\ pos[i + 1] = pos[i] + Wseq!Width(list[i][1])
    /\ pos[i + 1] <= term /\ term < MaxSize

LEMMA LaidAt ==
    ASSUME NEW cells, NEW list \in Seq(Wseq!Keys \X Data), NEW pos, NEW term \in Nat,
           Laid(cells, list, pos, term), NEW i \in 1..Len(list)
    PROVE  Spans(list, pos, term, i)
  <1>1. list[i] \in Wseq!Keys \X Data
    OBVIOUS
  <1>2. Wseq!Width(list[i][1]) \in {1, 2, 3}
    BY <1>1, WidthTyped
  <1>3. Len(list) \in Nat /\ i \in 1..Len(list) + 1 /\ i + 1 \in 1..Len(list) + 1
        /\ Len(list) + 1 \in 1..Len(list) + 1 /\ i < Len(list) + 1
    OBVIOUS
  <1>4. pos[i] \in Nat /\ pos[i + 1] \in Nat /\ pos[i + 1] = pos[i] + Wseq!Width(list[i][1])
    BY <1>3 DEF Laid
  <1>5. pos[Len(list) + 1] = term /\ pos[Len(list) + 1] < MaxSize
    BY <1>3 DEF Laid
  <1>6. pos[i] + Wseq!Width(list[i][1]) <= pos[Len(list) + 1]
    BY <1>3 DEF Laid
  <1> QED BY <1>1, <1>2, <1>4, <1>5, <1>6 DEF Spans

LEMMA LaidReplaced ==
    ASSUME NEW cells \in Memory, NEW list \in Seq(Wseq!Keys \X Data), NEW pos, NEW term \in Nat,
           Laid(cells, list, pos, term), NEW key \in Wseq!Keys, NEW v \in Data,
           NEW f \in 1..Len(list), list[f][1] = key
    PROVE  Laid(Wseq!Put(cells, pos[f], Wseq!Words(key, v)), [list EXCEPT ![f] = <<key, v>>], pos, term)
  <1> USE WseqConstants
  <1> DEFINE w == Wseq!Words(key, v)
             m == Wseq!Put(cells, pos[f], w)
             l == [list EXCEPT ![f] = <<key, v>>]
             W == Wseq!Width(key)
  <1>1. w \in Seq(Cells) /\ Len(w) = W /\ W \in {1, 2, 3} /\ key \in Named
        /\ \A i \in 1..W : w[i] = Wseq!Word(key, v, i)
    BY WordsTyped, WidthTyped
  <1>2. pos[f] \in Nat /\ pos[f] + W <= term /\ pos[f + 1] = pos[f] + W /\ term < MaxSize
    <2> HIDE DEF w, m, l
    <2>1. /\ pos[f] \in Nat /\ pos[f + 1] = pos[f] + Wseq!Width(list[f][1])
          /\ pos[f + 1] <= term /\ term < MaxSize
      <3>1. Spans(list, pos, term, f)
        BY LaidAt, Zenon
      <3> QED BY <3>1 DEF Spans
    <2>2. Wseq!Width(list[f][1]) = W
      OBVIOUS
    <2> HIDE DEF W
    <2> QED BY <2>1, <2>2
  <1>4. Len(l) = Len(list) /\ \A i \in 1..Len(list) : l[i] = IF i = f THEN <<key, v>> ELSE list[i]
    OBVIOUS
  <1>5. \A i \in 1..Len(list) : l[i][1] = list[i][1]
    BY <1>4
  <1> HIDE DEF m, w, l
  <1>6. m[pos[f]].key = key /\ m[pos[f]].part = 1 /\ m[pos[f] + W - 1].value = v
    <2>1. pos[f] \in 0..MaxSize - 1 /\ pos[f] + W - 1 \in 0..MaxSize - 1
      BY <1>1, <1>2
    <2>2. pos[f] = pos[f] + 1 - 1 /\ 1 \in 1..W /\ W \in 1..W
      BY <1>1, <1>2
    <2>3. m[pos[f]] = w[1] /\ m[pos[f] + W - 1] = w[W]
      <3>1. \A k \in 1..Len(w), p \in 0..MaxSize - 1 : p = pos[f] + k - 1 => m[p] = w[k]
        BY <1>1, <1>2, PutAt, Zenon DEF m
      <3> QED BY <3>1, <2>1, <2>2, <1>1, <1>2
    <2>4. m[pos[f]] = Wseq!Word(key, v, 1) /\ m[pos[f] + W - 1] = Wseq!Word(key, v, W)
      BY <2>2, <2>3, <1>1
    <2> QED BY <2>4, <1>1, CellTyped
  <1>7. m[term] = cells[term]
    <2>1. term \in 0..MaxSize - 1 /\ pos[f] + Len(w) <= term
      BY <1>1, <1>2
    <2> QED BY <2>1, <1>1, <1>2, PutApart, Zenon DEF m
  <1>8. ASSUME NEW i \in 1..Len(list)
        PROVE  /\ m[pos[i]].key = l[i][1] /\ m[pos[i]].part = 1
               /\ m[pos[i + 1] - 1].value = l[i][2]
    <2>1. CASE i = f
      <3>1. pos[i] = pos[f] /\ pos[i + 1] = pos[f] + W
        BY <2>1, <1>2, Zenon
      <3>2. l[i] = <<key, v>>
        BY <2>1, <1>4
      <3>3. l[i][1] = key /\ l[i][2] = v
        BY <3>2
      <3>4. m[pos[i + 1] - 1].value = v
        <4>1. pos[i + 1] - 1 = pos[f] + W - 1
          <5> HIDE DEF W
          <5> QED BY <3>1, <1>1, <1>2
        <4> QED BY <4>1, <1>6
      <3> QED BY <3>1, <3>3, <3>4, <1>6, Zenon
    <2>2. CASE i # f
      <3>1. /\ Wseq!Width(list[i][1]) \in {1, 2, 3} /\ pos[i] \in Nat
            /\ pos[i + 1] = pos[i] + Wseq!Width(list[i][1]) /\ pos[i + 1] <= term
        <4>1. Spans(list, pos, term, i)
          BY LaidAt, Zenon
        <4> QED BY <4>1 DEF Spans
      <3>2. pos[i] + Wseq!Width(list[i][1]) <= pos[f] \/ pos[f] + W <= pos[i]
        <4>1. i \in 1..Len(list) + 1 /\ f \in 1..Len(list) + 1 /\ (i < f \/ f < i)
          BY <2>2
        <4> QED BY <4>1 DEF Laid
      <3>3. pos[i] \in 0..MaxSize - 1 /\ pos[i + 1] - 1 \in 0..MaxSize - 1
        <4>1. /\ pos[i] \in Nat /\ pos[i + 1] \in Nat
              /\ pos[i] < pos[i + 1] /\ pos[i + 1] <= term
          BY <3>1
        <4>2. term \in Nat /\ term < MaxSize /\ MaxSize \in Nat
          BY <1>2, WseqConstants
        <4> QED BY <4>1, <4>2
      <3>4. m[pos[i]] = cells[pos[i]]
        <4>1. pos[i] < pos[f] \/ pos[f] + Len(w) <= pos[i]
          BY <3>1, <3>2, <1>1, <1>2
        <4> QED BY <4>1, <3>3, <1>1, <1>2, PutApart, Zenon DEF m
      <3>5. m[pos[i + 1] - 1] = cells[pos[i + 1] - 1]
        <4>1. pos[i + 1] - 1 < pos[f] \/ pos[f] + Len(w) <= pos[i + 1] - 1
          BY <3>1, <3>2, <1>1, <1>2
        <4> QED BY <4>1, <3>3, <1>1, <1>2, PutApart, Zenon DEF m
      <3>6. /\ cells[pos[i]].key = list[i][1] /\ cells[pos[i]].part = 1
            /\ cells[pos[i + 1] - 1].value = list[i][2]
        BY DEF Laid
      <3> QED BY <3>4, <3>5, <3>6, <2>2, <1>4
    <2> QED BY <2>1, <2>2
  <1>9. Laid(m, l, pos, term)
    <2>1. /\ pos[1] = 0 /\ pos[Len(list) + 1] = term
          /\ \A i \in 1..Len(list) + 1 : pos[i] \in Nat /\ pos[i] < MaxSize
          /\ cells[term].key = Wseq!End /\ cells[term].part = 1
      BY DEF Laid
    <2>2. \A i \in 1..Len(list) : pos[i + 1] = pos[i] + Wseq!Width(list[i][1])
      BY DEF Laid
    <2>3. \A i \in 1..Len(list) : \A j \in 1..Len(list) + 1 :
            i < j => pos[i] + Wseq!Width(list[i][1]) <= pos[j]
      BY DEF Laid
    <2> QED BY <2>1, <2>2, <2>3, <1>4, <1>5, <1>7, <1>8, Zenon DEF Laid
  <1> QED BY <1>9 DEF m, l, w

LEMMA LaidExtended ==
    ASSUME NEW cells \in Memory, NEW list \in Seq(Wseq!Keys \X Data), NEW pos, NEW term \in Nat,
           Laid(cells, list, pos, term), NEW key \in Wseq!Keys, NEW v \in Data,
           term + Wseq!Width(key) < MaxSize
    PROVE  \E q : Laid(Wseq!Put(cells, term, Wseq!Words(key, v) \o Wseq!Terminator), Append(list, <<key, v>>), q,
                       term + Wseq!Width(key))
  <1> USE WseqConstants
  <1> DEFINE w == Wseq!Words(key, v) \o Wseq!Terminator
             m == Wseq!Put(cells, term, w)
             l == Append(list, <<key, v>>)
             W == Wseq!Width(key)
             K == Len(list)
             q == [i \in 1..K + 2 |-> IF i = K + 2 THEN term + W ELSE pos[i]]
  <1>0. K \in Nat /\ W \in {1, 2, 3} /\ key \in Named
    BY WidthTyped
  <1>1. /\ w \in Seq(Cells) /\ Len(w) = W + 1
        /\ \A i \in 1..W : w[i] = Wseq!Word(key, v, i)
        /\ w[W + 1].key = Wseq!End /\ w[W + 1].part = 1
    <2>1. Wseq!Words(key, v) \in Seq(Cells) /\ Len(Wseq!Words(key, v)) = W
          /\ \A i \in 1..W : Wseq!Words(key, v)[i] = Wseq!Word(key, v, i)
      BY <1>0, WordsTyped
    <2>2. /\ w \in Seq(Cells) /\ Len(w) = W + 1 /\ w[W + 1] = Wseq!Terminator[1]
          /\ \A i \in 1..W : w[i] = Wseq!Words(key, v)[i]
      BY <2>1, JoinedTyped
    <2> HIDE DEF w
    <2> QED BY <2>1, <2>2, TerminatorTyped
  <1> HIDE DEF w
  <1>3. /\ Len(l) = K + 1 /\ l[K + 1] = <<key, v>>
        /\ \A i \in 1..K : l[i] = list[i]
    OBVIOUS
  <1>4. /\ q[K + 2] = term + W /\ q[K + 1] = term
        /\ \A i \in 1..K + 1 : q[i] = pos[i]
    <2>1. K + 2 \in 1..K + 2 /\ K + 1 \in 1..K + 1 /\ K + 1 # K + 2
          /\ \A i \in 1..K + 1 : i \in 1..K + 2 /\ i # K + 2
      BY <1>0
    <2>2. pos[K + 1] = term
      BY DEF Laid
    <2> QED BY <2>1, <2>2
  <1> HIDE DEF m, l, q
  <1>5. /\ m[term].key = key /\ m[term].part = 1 /\ m[term + W - 1].value = v
        /\ m[term + W].key = Wseq!End /\ m[term + W].part = 1
    <2>1. term \in 0..MaxSize - 1 /\ term + W - 1 \in 0..MaxSize - 1 /\ term + W \in 0..MaxSize - 1
      BY <1>0
    <2>2. /\ term = term + 1 - 1 /\ term + W = term + (W + 1) - 1
          /\ 1 \in 1..W /\ W \in 1..W /\ 1 \in 1..Len(w) /\ W \in 1..Len(w) /\ W + 1 \in 1..Len(w)
      BY <1>0, <1>1
    <2>3. m[term] = w[1] /\ m[term + W - 1] = w[W] /\ m[term + W] = w[W + 1]
      <3>1. \A k \in 1..Len(w), p \in 0..MaxSize - 1 : p = term + k - 1 => m[p] = w[k]
        BY <1>1, PutAt, Zenon DEF m
      <3> QED BY <3>1, <2>1, <2>2, <1>0, <1>1
    <2>4. m[term] = Wseq!Word(key, v, 1) /\ m[term + W - 1] = Wseq!Word(key, v, W)
      BY <2>2, <2>3, <1>1
    <2> QED BY <2>3, <2>4, <1>0, <1>1, CellTyped
  <1>6. ASSUME NEW i \in 1..K + 1
        PROVE  /\ q[i + 1] = q[i] + Wseq!Width(l[i][1])
               /\ m[q[i]].key = l[i][1] /\ m[q[i]].part = 1 /\ m[q[i + 1] - 1].value = l[i][2]
    <2>1. CASE i = K + 1
      <3>1. i + 1 = K + 2
        BY <2>1, <1>0
      <3>2. q[i] = term /\ q[i + 1] = term + W /\ l[i] = <<key, v>>
        BY <3>1, <2>1, <1>3, <1>4, Zenon
      <3>3. l[i][1] = key /\ l[i][2] = v
        BY <3>2
      <3>4. m[q[i + 1] - 1].value = v
        <4>1. q[i + 1] - 1 = term + W - 1
          <5> HIDE DEF W
          <5> QED BY <3>2, <1>0
        <4> QED BY <4>1, <1>5
      <3>5. q[i + 1] = q[i] + Wseq!Width(l[i][1])
        BY <3>2, <3>3, Zenon
      <3> QED BY <3>2, <3>3, <3>4, <3>5, <1>5, Zenon
    <2>2. CASE i # K + 1
      <3>1. i \in 1..K /\ i \in 1..K + 1 /\ i + 1 \in 1..K + 1
        BY <2>2, <1>0
      <3>2. /\ Wseq!Width(list[i][1]) \in {1, 2, 3} /\ pos[i] \in Nat
            /\ pos[i + 1] = pos[i] + Wseq!Width(list[i][1]) /\ pos[i + 1] <= term /\ term < MaxSize
        <4>1. Spans(list, pos, term, i)
          BY <3>1, LaidAt, Zenon
        <4> QED BY <4>1 DEF Spans
      <3>3. pos[i] \in 0..MaxSize - 1 /\ pos[i + 1] - 1 \in 0..MaxSize - 1
            /\ pos[i] < term /\ pos[i + 1] - 1 < term
        BY <3>2
      <3>4. m[pos[i]] = cells[pos[i]] /\ m[pos[i + 1] - 1] = cells[pos[i + 1] - 1]
        BY <3>3, <1>1, PutApart, Zenon DEF m
      <3>5. /\ cells[pos[i]].key = list[i][1] /\ cells[pos[i]].part = 1
            /\ cells[pos[i + 1] - 1].value = list[i][2]
        BY <3>1 DEF Laid
      <3>6. q[i] = pos[i] /\ q[i + 1] = pos[i + 1] /\ l[i] = list[i]
        BY <3>1, <1>3, <1>4
      <3> QED BY <3>2, <3>4, <3>5, <3>6
    <2> QED BY <2>1, <2>2
  <1>7. ASSUME NEW i \in 1..K + 2 PROVE q[i] \in Nat /\ q[i] < MaxSize
    <2>1. CASE i = K + 2
      BY <2>1, <1>0, <1>4
    <2>2. CASE i # K + 2
      <3>1. i \in 1..K + 1
        BY <2>2, <1>0
      <3>2. pos[i] \in Nat /\ pos[i] < MaxSize
        BY <3>1 DEF Laid
      <3> QED BY <3>1, <3>2, <1>4
    <2> QED BY <2>1, <2>2
  <1>8. ASSUME NEW i \in 1..K + 1, NEW j \in 1..K + 2, i < j
        PROVE  q[i] + Wseq!Width(l[i][1]) <= q[j]
    <2>1. CASE i = K + 1
      <3>1. j = K + 2
        BY <2>1, <1>0, <1>8
      <3>2. q[i] = term /\ q[j] = term + W /\ l[i] = <<key, v>>
        BY <3>1, <2>1, <1>3, <1>4
      <3>3. l[i][1] = key
        BY <3>2
      <3> QED BY <3>2, <3>3, <1>0
    <2>2. CASE i # K + 1 /\ j = K + 2
      <3>1. i \in 1..K /\ i \in 1..K + 1
        BY <2>2, <1>0
      <3>2. /\ pos[i + 1] = pos[i] + Wseq!Width(list[i][1]) /\ pos[i + 1] <= term /\ pos[i + 1] \in Nat
        <4>1. Spans(list, pos, term, i)
          BY <3>1, LaidAt, Zenon
        <4> QED BY <4>1 DEF Spans
      <3>3. q[i] = pos[i] /\ l[i] = list[i] /\ q[j] = term + W
        BY <3>1, <2>2, <1>3, <1>4
      <3> QED BY <3>2, <3>3, <1>0
    <2>3. CASE i # K + 1 /\ j # K + 2
      <3>1. i \in 1..K /\ i \in 1..K + 1 /\ j \in 1..K + 1
        BY <2>3, <1>0
      <3>2. pos[i] + Wseq!Width(list[i][1]) <= pos[j]
        BY <3>1, <1>8 DEF Laid
      <3>3. q[i] = pos[i] /\ l[i] = list[i] /\ q[j] = pos[j]
        BY <3>1, <1>3, <1>4
      <3> QED BY <3>2, <3>3
    <2> QED BY <2>1, <2>2, <2>3
  <1>9. q[1] = 0
    <2>1. 1 \in 1..K + 1 /\ pos[1] = 0
      BY <1>0 DEF Laid
    <2> QED BY <2>1, <1>4
  <1>10. Laid(m, l, q, term + W)
    <2>1. (K + 1) + 1 = K + 2
      BY <1>0
    <2> QED BY <2>1, <1>3, <1>4, <1>5, <1>6, <1>7, <1>8, <1>9, Zenon DEF Laid
  <1> QED BY <1>10 DEF m, l, w

--------------------------------------------------------------------------------
(* The steps of Cs40l26Wseq *)

RomKept(cells) ==
    rom => cells[0].key = Wseq!Low /\ cells[0].part = 1 /\ cells[1].value \in Data

LEMMA RomLength ==
    ASSUME rom \in BOOLEAN
    PROVE  /\ RomLen \in Nat /\ RomLen < MaxSize /\ (rom => RomLen = 2) /\ (~rom => RomLen = 0)
           /\ Wseq!RomList \in Seq(Cells) /\ Len(Wseq!RomList) = RomLen
           /\ rom => \E v \in Data : Wseq!RomList = Wseq!Words(Wseq!Low, v)
  <1> USE WseqConstants
  <1>1. CASE rom
    <2>1. (CHOOSE v \in Data : TRUE) \in Data
      OBVIOUS
    <2>2. \E v \in Data : Wseq!RomList = Wseq!Words(Wseq!Low, v)
      BY <1>1, <2>1, Zenon DEF Wseq!RomList
    <2>3. PICK v \in Data : Wseq!RomList = Wseq!Words(Wseq!Low, v)
      BY <2>2
    <2>4. Wseq!Words(Wseq!Low, v) \in Seq(Cells) /\ Len(Wseq!Words(Wseq!Low, v)) = 2
      BY WidthTyped, WordsTyped
    <2> QED BY <1>1, <2>2, <2>3, <2>4 DEF RomLen
  <1>2. CASE ~rom
    BY <1>2 DEF Wseq!RomList, RomLen
  <1> QED BY <1>1, <1>2

LEMMA LowTyped ==
    ASSUME NEW v \in Data
    PROVE  /\ Wseq!Words(Wseq!Low, v) \in Seq(Cells) /\ Len(Wseq!Words(Wseq!Low, v)) = 2
           /\ Wseq!Words(Wseq!Low, v)[1].key = Wseq!Low /\ Wseq!Words(Wseq!Low, v)[1].part = 1
           /\ Wseq!Words(Wseq!Low, v)[2].value = v
  <1>1. /\ Wseq!Words(Wseq!Low, v) \in Seq(Cells) /\ Len(Wseq!Words(Wseq!Low, v)) = 2
        /\ Wseq!Words(Wseq!Low, v)[1] = Wseq!Word(Wseq!Low, v, 1) /\ Wseq!Words(Wseq!Low, v)[2] = Wseq!Word(Wseq!Low, v, 2)
    <2>1. Wseq!Low \in Named /\ v \in Data \cup {0} /\ Wseq!Width(Wseq!Low) = 2
      BY WidthTyped
    <2>2. /\ Wseq!Words(Wseq!Low, v) \in Seq(Cells) /\ Len(Wseq!Words(Wseq!Low, v)) = 2
          /\ \A i \in 1..2 : Wseq!Words(Wseq!Low, v)[i] = Wseq!Word(Wseq!Low, v, i)
      BY <2>1, WordsTyped
    <2>3. 1 \in 1..2 /\ 2 \in 1..2
      OBVIOUS
    <2> QED BY <2>2, <2>3, Zenon
  <1> QED BY <1>1, WidthTyped, CellTyped

LEMMA ImageTyped ==
    ASSUME rom \in BOOLEAN
    PROVE  /\ Wseq!Image \in Memory /\ RomKept(Wseq!Image)
           /\ Wseq!Image[RomLen].key = Wseq!End /\ Wseq!Image[RomLen].part = 1
  <1> USE WseqConstants
  <1> DEFINE z == Wseq!Word(Wseq!Empty, 0, 1)
             blank == [i \in 0..MaxSize - 1 |-> z]
             w == Wseq!RomList \o Wseq!Terminator
  <1>1. blank \in Memory
    <2>1. z \in Cells
      BY WidthTyped, CellTyped
    <2> HIDE DEF z
    <2> QED BY <2>1 DEF Memory
  <1>2. /\ w \in Seq(Cells) /\ Len(w) = RomLen + 1 /\ w[RomLen + 1] = Wseq!Terminator[1]
        /\ \A i \in 1..RomLen : w[i] = Wseq!RomList[i]
    BY RomLength, JoinedTyped
  <1>3. Wseq!Image = Wseq!Put(blank, 0, w)
    BY DEF Wseq!Image
  <1> HIDE DEF blank, w
  <1>4. \A k \in 1..RomLen + 1, p \in 0..MaxSize - 1 : p = 0 + k - 1 => Wseq!Image[p] = w[k]
    <2>1. \A k \in 1..Len(w), p \in 0..MaxSize - 1 : p = 0 + k - 1 => Wseq!Image[p] = w[k]
      <3>1. 0 \in Nat
        OBVIOUS
      <3>2. \A k \in 1..Len(w), p \in 0..MaxSize - 1 : p = 0 + k - 1 => Wseq!Put(blank, 0, w)[p] = w[k]
        BY <3>1, <1>1, <1>2, PutAt, Zenon
      <3> QED BY <3>2, <1>3
    <2> QED BY <2>1, <1>2
  <1>5. Wseq!Image[RomLen] = Wseq!Terminator[1]
    BY <1>2, <1>4, RomLength
  <1>6. RomKept(Wseq!Image)
    <2> SUFFICES ASSUME rom
                 PROVE  Wseq!Image[0].key = Wseq!Low /\ Wseq!Image[0].part = 1 /\ Wseq!Image[1].value \in Data
      BY DEF RomKept
    <2>1. PICK v \in Data : Wseq!RomList = Wseq!Words(Wseq!Low, v)
      BY RomLength
    <2>2. Wseq!Image[0] = Wseq!Words(Wseq!Low, v)[1] /\ Wseq!Image[1] = Wseq!Words(Wseq!Low, v)[2]
      BY <1>2, <1>4, <2>1, RomLength
    <2> QED BY <2>2, LowTyped
  <1>7. Wseq!Image \in Memory
    BY <1>1, <1>2, <1>3, PutTyped
  <1> QED BY <1>5, <1>6, <1>7, TerminatorTyped

LEMMA RomApart ==
    ASSUME NEW cells \in Memory, RomKept(cells), NEW from \in Nat, NEW w \in Seq(Cells),
           rom => from >= 2
    PROVE  RomKept(Wseq!Put(cells, from, w))
  <1> SUFFICES ASSUME rom PROVE RomKept(Wseq!Put(cells, from, w))
    BY DEF RomKept
  <1>1. 0 \in 0..MaxSize - 1 /\ 1 \in 0..MaxSize - 1 /\ 0 < from /\ 1 < from
    BY WseqConstants
  <1>2. Wseq!Put(cells, from, w)[0] = cells[0] /\ Wseq!Put(cells, from, w)[1] = cells[1]
    BY <1>1, PutApart
  <1> QED BY <1>2 DEF RomKept

LEMMA RomReplaced ==
    ASSUME NEW cells \in Memory, RomKept(cells), NEW v \in Data, NEW n \in 0..2, rom
    PROVE  RomKept(Wseq!Put(cells, 0, SubSeq(Wseq!Words(Wseq!Low, v), 1, n)))
  <1> DEFINE w == SubSeq(Wseq!Words(Wseq!Low, v), 1, n)
             m == Wseq!Put(cells, 0, w)
  <1>1. /\ w \in Seq(Cells) /\ Len(w) = n
        /\ \A i \in 1..n : w[i] = Wseq!Words(Wseq!Low, v)[i]
    BY LowTyped, PartTyped
  <1>2. 0 \in 0..MaxSize - 1 /\ 1 \in 0..MaxSize - 1
    BY WseqConstants
  <1> HIDE DEF w
  <1>3. \A k \in 1..n, p \in 0..MaxSize - 1 : p = 0 + k - 1 => m[p] = w[k]
    <2>1. \A k \in 1..Len(w), p \in 0..MaxSize - 1 : p = 0 + k - 1 => m[p] = w[k]
      <3>1. 0 \in Nat
        OBVIOUS
      <3> QED BY <3>1, <1>1, PutAt, Zenon
    <2> QED BY <2>1, <1>1
  <1>4. \A p \in 0..MaxSize - 1 : 0 + n <= p => m[p] = cells[p]
    BY <1>1, PutApart
  <1> HIDE DEF m
  <1>5. m[0].key = Wseq!Low /\ m[0].part = 1
    <2>1. CASE n = 0
      BY <2>1, <1>2, <1>4 DEF RomKept
    <2>2. CASE n # 0
      <3>1. m[0] = Wseq!Words(Wseq!Low, v)[1]
        BY <2>2, <1>1, <1>2, <1>3
      <3> QED BY <3>1, LowTyped
    <2> QED BY <2>1, <2>2
  <1>6. m[1].value \in Data
    <2>1. CASE n # 2
      <3>1. m[1] = cells[1]
        BY <2>1, <1>2, <1>4
      <3> QED BY <3>1 DEF RomKept
    <2>2. CASE n = 2
      <3>1. m[1] = Wseq!Words(Wseq!Low, v)[2]
        BY <2>2, <1>1, <1>2, <1>3
      <3> QED BY <3>1, LowTyped
    <2> QED BY <2>1, <2>2
  <1> QED BY <1>5, <1>6 DEF RomKept, m, w

LEMMA Replaced ==
    ASSUME NEW S, NEW s \in Seq(S), NEW x, NEW e \in S
    PROVE  [s EXCEPT ![x] = e] \in Seq(S)
  <1> DEFINE n == Len(s)
             t == [i \in 1..n |-> IF i = x THEN e ELSE s[i]]
  <1>1. n \in Nat /\ \A i \in 1..n : s[i] \in S
    OBVIOUS
  <1>2. [s EXCEPT ![x] = e] = t
    OBVIOUS
  <1> HIDE DEF n
  <1>3. t \in Seq(S)
    BY <1>1
  <1> QED BY <1>2, <1>3

LEMMA AskedTyped ==
    ASSUME wanted \in Seq(Wseq!Keys \X Data), NEW key \in Wseq!Keys, NEW v \in Data, Wseq!Asked(key, v)
    PROVE  wanted' \in Seq(Wseq!Keys \X Data)
  <1>1. <<key, v>> \in Wseq!Keys \X Data
    OBVIOUS
  <1>2. [wanted EXCEPT ![Wseq!First(key)] = <<key, v>>] \in Seq(Wseq!Keys \X Data)
    BY <1>1, Replaced, Zenon
  <1>3. Append(wanted, <<key, v>>) \in Seq(Wseq!Keys \X Data)
    BY <1>1
  <1> QED BY <1>2, <1>3, Zenon DEF Wseq!Asked

LEMMA WseqInitial ==
    ASSUME Wseq!Init
    PROVE  WseqInv
  <1>1. rom \in BOOLEAN /\ memory = Wseq!Image /\ params = Wseq!None /\ failed = 0 /\ intact = TRUE
        /\ wanted = <<>>
    BY Zenon DEF Wseq!Init
  <1>2. Wseq!None.size = 0 /\ Wseq!None \in Params
    BY DEF Wseq!None, Params
  <1>3. ~Wseq!Ready
    BY <1>1, <1>2 DEF Wseq!Ready
  <1>4. WseqTyped
    <2>1. memory \in Memory
      BY <1>1, ImageTyped
    <2>2. wanted \in Seq(Wseq!Keys \X Data)
      BY <1>1
    <2>3. failed \in Nat /\ failed <= Faults
      BY <1>1, WseqConstants
    <2>4. intact \in BOOLEAN
      BY <1>1, Zenon
    <2> QED BY <1>1, <1>2, <2>1, <2>2, <2>3, <2>4, Zenon DEF WseqTyped
  <1>5. WseqRom /\ WseqClosed
    BY <1>1, ImageTyped, Zenon DEF WseqRom, WseqClosed, RomKept
  <1> QED BY <1>3, <1>4, <1>5, Zenon DEF WseqInv, WseqEnds, WseqListed

(* The parameters are those of the ROM's list, and the list is what the chip would replay. *)
LEMMA WseqReads ==
    ASSUME WseqInv, Wseq!WseqInit
    PROVE  WseqInv'
  <1> USE WseqConstants
  <1>1. /\ ~Wseq!Ready /\ Wseq!Scan(Wseq!End, MaxSize).found = "yes"
        /\ params' = [rom |-> Len(Wseq!RomList), term |-> Wseq!Scan(Wseq!End, MaxSize).at,
                      size |-> Wseq!Scan(Wseq!End, MaxSize).at + 1]
        /\ wanted' = Wseq!Replayed(memory) /\ intact' = TRUE
        /\ memory' = memory /\ rom' = rom /\ failed' = failed
    BY Zenon DEF Wseq!WseqInit
  <1>2. rom \in BOOLEAN /\ memory \in Memory /\ memory[RomLen].key = Wseq!End
        /\ memory[RomLen].part = 1 /\ (rom => memory[0].key = Wseq!Low /\ memory[0].part = 1
                                              /\ memory[1].value \in Data)
    BY <1>1, Zenon DEF WseqInv, WseqTyped, WseqClosed, WseqRom
  <1>3. Wseq!Width(Wseq!End) = 1 /\ Wseq!Width(Wseq!Low) = 2 /\ Wseq!Low # Wseq!End /\ Wseq!Low \in Wseq!Keys
    BY WidthTyped
  <1>4. Wseq!Scan(Wseq!End, MaxSize).at = RomLen
    <2>1. PICK f : Scans(f, Wseq!End, MaxSize) /\ Wseq!Scan(Wseq!End, MaxSize) = f[0]
      <3>1. MaxSize \in 0..MaxSize
        OBVIOUS
      <3> QED BY <3>1, <1>2, ScanUnfolds, Zenon
    <2>2. f[RomLen] = [found |-> "yes", at |-> RomLen]
      <3>1. RomLen \in 0..MaxSize /\ RomLen # MaxSize /\ ~(RomLen + Wseq!Width(memory[RomLen].key) > MaxSize)
        BY <1>2, <1>3, RomLength
      <3> QED BY <3>1, <1>2, <2>1 DEF Scans
    <2>3. CASE rom
      <3>1. 0 \in 0..MaxSize /\ 0 # MaxSize /\ ~(0 + Wseq!Width(memory[0].key) > MaxSize)
            /\ 0 + Wseq!Width(memory[0].key) = 2 /\ memory[0].key # Wseq!End /\ RomLen = 2
        BY <2>3, <1>2, <1>3, RomLength
      <3>2. f[0] = f[RomLen]
        BY <3>1, <2>1, <2>3, <1>2 DEF Scans
      <3> QED BY <3>2, <2>1, <2>2
    <2>4. CASE ~rom
      BY <2>4, <2>1, <2>2, RomLength, <1>2
    <2> QED BY <2>3, <2>4
  <1>5. params' = [rom |-> RomLen, term |-> RomLen, size |-> RomLen + 1]
        /\ RomLen \in Nat /\ RomLen < MaxSize
    BY <1>1, <1>2, <1>4, RomLength
  <1> DEFINE list == IF rom THEN <<<<Wseq!Low, memory[1].value>>>> ELSE <<>>
             pos == IF rom THEN <<0, 2>> ELSE <<0>>
  <1>6. list \in Seq(Wseq!Keys \X Data) /\ Laid(memory, list, pos, RomLen)
    <2>1. CASE rom
      <3>1. RomLen = 2 /\ list = <<<<Wseq!Low, memory[1].value>>>> /\ pos = <<0, 2>>
        BY <2>1, <1>2, RomLength
      <3>2. list \in Seq(Wseq!Keys \X Data) /\ Len(list) = 1 /\ list[1][1] = Wseq!Low
            /\ list[1][2] = memory[1].value
        BY <3>1, <2>1, <1>2, <1>3
      <3>3. pos[1] = 0 /\ pos[2] = 2
        BY <3>1
      <3> HIDE DEF list, pos
      <3>4. \A i \in 1..Len(list) + 1 : pos[i] \in Nat /\ pos[i] < MaxSize
        <4>1. \A i \in 1..Len(list) + 1 : i = 1 \/ i = 2
          BY <3>2
        <4> QED BY <4>1, <3>3
      <3>5. \A i \in 1..Len(list) :
              /\ pos[i + 1] = pos[i] + Wseq!Width(list[i][1])
              /\ memory[pos[i]].key = list[i][1] /\ memory[pos[i]].part = 1
              /\ memory[pos[i + 1] - 1].value = list[i][2]
        <4>1. \A i \in 1..Len(list) : i = 1
          BY <3>2
        <4>2. pos[1 + 1] = pos[1] + Wseq!Width(list[1][1]) /\ pos[1 + 1] - 1 = 1
          BY <3>2, <3>3, <1>3
        <4> QED BY <4>1, <4>2, <3>2, <3>3, <2>1, <1>2
      <3>6. \A i \in 1..Len(list) : \A j \in 1..Len(list) + 1 :
              i < j => pos[i] + Wseq!Width(list[i][1]) <= pos[j]
        <4>1. \A i \in 1..Len(list) : \A j \in 1..Len(list) + 1 : i < j => i = 1 /\ j = 2
          BY <3>2
        <4>2. pos[1] + Wseq!Width(list[1][1]) <= pos[2]
          BY <3>2, <3>3, <1>3
        <4> QED BY <4>1, <4>2
      <3>7. pos[Len(list) + 1] = RomLen
        BY <3>1, <3>2, <3>3
      <3> QED BY <3>2, <3>3, <3>4, <3>5, <3>6, <3>7, <1>2, Zenon DEF Laid
    <2>2. CASE ~rom
      <3>1. RomLen = 0 /\ list = <<>> /\ pos = <<0>>
        BY <2>2, <1>2, RomLength
      <3>2. list \in Seq(Wseq!Keys \X Data) /\ Len(list) = 0 /\ pos[1] = 0
        BY <3>1
      <3> HIDE DEF list, pos
      <3> QED BY <3>1, <3>2, <1>2 DEF Laid
    <2> QED BY <2>1, <2>2
  <1>7. wanted' = list
    <2> HIDE DEF list, pos
    <2>1. Wseq!Replayed(memory) = list
      BY <1>2, <1>5, <1>6, LaidReplayed, Zenon
    <2> QED BY <2>1, <1>1
  <1> HIDE DEF list, pos
  <1>8. /\ params'.rom = RomLen /\ params'.term = RomLen /\ params'.size = RomLen + 1
        /\ params' \in Params
    BY <1>5 DEF Params
  <1>9. RomLen' = RomLen
    BY <1>1 DEF RomLen
  <1>10. WseqTyped'
    <2>1. intact' \in BOOLEAN
      BY <1>1, Zenon
    <2> QED BY <2>1, <1>1, <1>2, <1>6, <1>7, <1>8, Zenon DEF WseqInv, WseqTyped
  <1>11. WseqRom'
    BY <1>1, Zenon DEF WseqInv, WseqRom
  <1>12. Wseq!Ready'
    BY <1>5, <1>8 DEF Wseq!Ready
  <1>13. WseqClosed' /\ WseqEnds'
    <2>1. RomLen <= RomLen /\ RomLen < RomLen + 1 /\ RomLen + 1 <= MaxSize
      BY <1>5
    <2> QED BY <2>1, <1>8, <1>9, <1>12, Zenon DEF WseqClosed, WseqEnds
  <1>14. WseqListed'
    <2>1. Laid(memory', wanted', pos, params'.term)
      BY <1>1, <1>6, <1>7, <1>8
    <2> QED BY <2>1, <1>8, Zenon DEF WseqListed
  <1> QED BY <1>10, <1>11, <1>13, <1>14, Zenon DEF WseqInv

(* What a scan found of a list in use *)
LEMMA WseqFound ==
    ASSUME WseqInv, Wseq!Ready, NEW key \in Wseq!Keys, Wseq!Scan(key, params.size).found = "yes"
    PROVE  /\ Wseq!Scan(key, params.size).at \in Nat
           /\ rom => (Wseq!Scan(key, params.size).at = 0 /\ key = Wseq!Low) \/ Wseq!Scan(key, params.size).at >= 2
  <1>1. params.size \in 0..MaxSize /\ params.size <= MaxSize
    BY WseqConstants DEF WseqInv, WseqTyped, WseqEnds, Params
  <1> QED BY <1>1, ScanFinds, Zenon DEF WseqInv

(* Words of an operation, all or some of them, take the place of the one that was found. *)
LEMMA ReplacedRom ==
    ASSUME WseqInv, Wseq!Ready, NEW key \in Wseq!Keys, Wseq!Scan(key, params.size).found = "yes",
           NEW v \in Data, NEW n \in 0..Wseq!Width(key)
    PROVE  LET m == Wseq!Put(memory, Wseq!Scan(key, params.size).at, SubSeq(Wseq!Words(key, v), 1, n))
           IN  m \in Memory /\ RomKept(m)
  <1> DEFINE w == SubSeq(Wseq!Words(key, v), 1, n)
             from == Wseq!Scan(key, params.size).at
  <1>1. key \in Named /\ v \in Data \cup {0}
    BY WidthTyped
  <1>2. Wseq!Words(key, v) \in Seq(Cells) /\ Len(Wseq!Words(key, v)) = Wseq!Width(key)
    BY <1>1, WordsTyped
  <1>3. w \in Seq(Cells)
    BY <1>2, PartTyped
  <1>4. from \in Nat /\ (rom => (from = 0 /\ key = Wseq!Low) \/ from >= 2)
    BY WseqFound, Zenon
  <1>5. memory \in Memory /\ RomKept(memory)
    BY Zenon DEF WseqInv, WseqTyped, WseqRom, RomKept
  <1>6. Wseq!Put(memory, from, w) \in Memory
    <2> HIDE DEF from, w
    <2> QED BY <1>3, <1>4, <1>5, PutTyped
  <1>7. CASE rom /\ from = 0 /\ key = Wseq!Low
    <2>1. n \in 0..2
      BY <1>7, WidthTyped
    <2>2. RomKept(Wseq!Put(memory, 0, SubSeq(Wseq!Words(Wseq!Low, v), 1, n)))
      BY <2>1, <1>5, <1>7, RomReplaced, Zenon
    <2> QED BY <2>2, <1>6, <1>7
  <1>8. CASE rom => from >= 2
    <2> HIDE DEF from, w
    <2>1. RomKept(Wseq!Put(memory, from, w))
      BY <1>3, <1>4, <1>5, <1>8, RomApart, Zenon
    <2> QED BY <2>1, <1>6 DEF from, w
  <1> QED BY <1>4, <1>7, <1>8

LEMMA WholePart ==
    ASSUME NEW S, NEW s \in Seq(S)
    PROVE  SubSeq(s, 1, Len(s)) = s /\ Len(s) \in 0..Len(s)
  OBVIOUS

(* The first write of its register is the one that was found. *)
LEMMA FirstIs ==
    ASSUME NEW key, wanted \in Seq(Wseq!Keys \X Data), NEW j \in 1..Len(wanted), wanted[j][1] = key,
           \A l \in 1..j - 1 : wanted[l][1] # key
    PROVE  Wseq!First(key) = j
  <1> DEFINE P(i) == wanted[i][1] = key /\ \A l \in 1..i - 1 : wanted[l][1] # key
  <1>1. ASSUME NEW i \in 1..Len(wanted), P(i) PROVE i = j
    <2>1. ~(i < j)
      <3> SUFFICES ASSUME i < j PROVE FALSE
        OBVIOUS
      <3>1. i \in 1..j - 1
        OBVIOUS
      <3> QED BY <3>1, <1>1
    <2>2. ~(j < i)
      <3> SUFFICES ASSUME j < i PROVE FALSE
        OBVIOUS
      <3>1. j \in 1..i - 1
        OBVIOUS
      <3> QED BY <3>1, <1>1
    <2> QED BY <2>1, <2>2
  <1>2. P(j)
    OBVIOUS
  <1>3. Wseq!First(key) = CHOOSE i \in 1..Len(wanted) : P(i)
    BY DEF Wseq!First
  <1> HIDE DEF P
  <1> QED BY <1>1, <1>2, <1>3

LEMMA WseqReplaces ==
    ASSUME WseqInv, Wseq!Ready, NEW key \in Wseq!Keys, NEW v \in Data, Wseq!Update(key),
           Wseq!Scan(key, params.size).found = "yes", Wseq!Replace(key, v), UNCHANGED rom
    PROVE  WseqInv'
  <1> DEFINE from == Wseq!Scan(key, params.size).at
             w == Wseq!Words(key, v)
  <1>1. key \in Named /\ v \in Data \cup {0} /\ w \in Seq(Cells) /\ Len(w) = Wseq!Width(key)
        /\ Wseq!Width(key) \in {1, 2, 3}
    BY WidthTyped, WordsTyped
  <1>2. params' = params /\ rom' = rom /\ Wseq!Ready' /\ RomLen' = RomLen
    BY DEF Wseq!Replace, Wseq!Ready, RomLen
  <1>3. \/ memory' = Wseq!Put(memory, from, w) /\ Wseq!Asked(key, v) /\ failed' = failed /\ intact' = intact
        \/ Wseq!PartOf(memory, from, w) /\ Wseq!Fault /\ wanted' = wanted
    BY Zenon DEF Wseq!Replace, Wseq!NoFault
  <1>4. PICK n \in 0..Wseq!Width(key) : memory' = Wseq!Put(memory, from, SubSeq(w, 1, n))
    <2>1. CASE memory' = Wseq!Put(memory, from, w)
      <3>1. SubSeq(w, 1, Len(w)) = w /\ Len(w) \in 0..Len(w)
        BY <1>1, WholePart
      <3> QED BY <3>1, <2>1, <1>1
    <2>2. CASE Wseq!PartOf(memory, from, w)
      BY <2>2, <1>1, Zenon DEF Wseq!PartOf
    <2> QED BY <2>1, <2>2, <1>3
  <1>5. memory' \in Memory /\ RomKept(memory')
    BY <1>4, ReplacedRom
  <1>6. WseqTyped'
    <2>1. wanted' \in Seq(Wseq!Keys \X Data)
      BY <1>3, AskedTyped, Zenon DEF WseqInv, WseqTyped
    <2>2. failed' \in Nat /\ failed' <= Faults /\ intact' \in BOOLEAN
      <3>1. CASE failed' = failed /\ intact' = intact
        BY <3>1, Zenon DEF WseqInv, WseqTyped
      <3>2. CASE Wseq!Fault
        <4>1. intact' \in BOOLEAN
          BY <3>2, Zenon DEF Wseq!Fault
        <4>2. failed' \in Nat /\ failed' <= Faults
          BY <3>2, WseqConstants DEF Wseq!Fault, WseqInv, WseqTyped
        <4> QED BY <4>1, <4>2
      <3> QED BY <3>1, <3>2, <1>3
    <2> QED BY <2>1, <2>2, <1>2, <1>5, Zenon DEF WseqInv, WseqTyped
  <1>7. WseqRom' /\ WseqClosed' /\ WseqEnds'
    <2>1. ASSUME rom'
          PROVE  memory'[0].key = Wseq!Low /\ memory'[0].part = 1 /\ memory'[1].value \in Data
      BY <2>1, <1>2, <1>5 DEF RomKept
    <2>2. WseqRom'
      BY <2>1, Zenon DEF WseqRom
    <2> QED BY <2>2, <1>2, Zenon DEF WseqInv, WseqClosed, WseqEnds
  <1>8. WseqListed'
    <2>1. CASE Wseq!PartOf(memory, from, w) /\ Wseq!Fault /\ wanted' = wanted
      BY <2>1, Zenon DEF Wseq!Fault, WseqListed
    <2>2. CASE memory' = Wseq!Put(memory, from, w) /\ Wseq!Asked(key, v) /\ failed' = failed
               /\ intact' = intact
      <3> SUFFICES ASSUME intact PROVE WseqListed'
        BY <2>2, Zenon DEF WseqListed
      <3>1. params.size = params.term + 1 /\ \E pos : Laid(memory, wanted, pos, params.term)
        BY Zenon DEF WseqInv, WseqListed
      <3>2. PICK pos : Laid(memory, wanted, pos, params.term)
        BY <3>1
      <3>3. WseqTyped /\ params.size <= MaxSize
        BY Zenon DEF WseqInv, WseqEnds
      <3>4. PICK j \in 1..Len(wanted) :
              from = pos[j] /\ wanted[j][1] = key /\ \A l \in 1..j - 1 : wanted[l][1] # key
        <4>1. Searched(Wseq!Scan(key, params.size), pos, key)
          BY <3>1, <3>2, <3>3, ScanFirst, Zenon
        <4> QED BY <4>1 DEF Searched
      <3>5. Wseq!First(key) = j
        BY <3>3, <3>4, FirstIs, Zenon DEF WseqTyped
      <3>6. wanted' = [wanted EXCEPT ![j] = <<key, v>>]
        BY <2>2, <3>4, <3>5 DEF Wseq!Asked
      <3>7. Laid(Wseq!Put(memory, pos[j], Wseq!Words(key, v)), [wanted EXCEPT ![j] = <<key, v>>], pos,
                 params.term)
        <4>1. params.term \in Nat /\ memory \in Memory /\ wanted \in Seq(Wseq!Keys \X Data)
          BY <3>3 DEF WseqTyped, Params
        <4> QED BY <4>1, <3>2, <3>4, LaidReplaced, Zenon
      <3>8. Laid(memory', wanted', pos, params'.term)
        BY <2>2, <3>4, <3>6, <3>7, <1>2
      <3> QED BY <3>1, <3>8, <1>2, Zenon DEF WseqListed
    <2> QED BY <2>1, <2>2, <1>3
  <1> QED BY <1>6, <1>7, <1>8, Zenon DEF WseqInv

LEMMA WseqExtends ==
    ASSUME WseqInv, Wseq!Ready, NEW key \in Wseq!Keys, NEW v \in Data, Wseq!Extend(key, v), UNCHANGED rom,
           \/ Wseq!Scan(key, params.size).found = "no"
           \/ Wseq!Scan(key, params.size).found = "yes" /\ ~Wseq!Update(key)
    PROVE  WseqInv' \/ UNCHANGED wseq_vars
  <1> USE WseqConstants
  <1> DEFINE w == Wseq!Words(key, v)
             W == Wseq!Width(key)
             longer == [params EXCEPT !.size = @ + W]
  <1>1. /\ key \in Named /\ v \in Data \cup {0} /\ w \in Seq(Cells) /\ Len(w) = W
        /\ W \in {1, 2, 3}
    BY WidthTyped, WordsTyped
  <1>2. /\ params \in Params /\ memory \in Memory /\ wanted \in Seq(Wseq!Keys \X Data)
        /\ rom \in BOOLEAN /\ intact \in BOOLEAN /\ failed \in Nat /\ failed <= Faults
        /\ RomKept(memory)
    BY Zenon DEF WseqInv, WseqTyped, WseqRom, RomKept
  <1>3. /\ params.rom \in Nat /\ params.term \in Nat /\ params.size \in Nat
        /\ longer.rom = params.rom /\ longer.term = params.term /\ longer.size = params.size + W
        /\ longer \in Params
    BY <1>1, <1>2 DEF Params
  <1>4. params.rom = RomLen /\ RomLen <= params.term /\ params.term < params.size
    BY Zenon DEF WseqInv, WseqEnds
  <1>5. rom' = rom /\ RomLen' = RomLen
    BY DEF RomLen
  <1>6. \/ longer.size > MaxSize /\ UNCHANGED <<memory, params, wanted, failed, intact>>
        \/ /\ ~(longer.size > MaxSize) /\ memory' = Wseq!Put(memory, params.term, w \o Wseq!Terminator)
           /\ params' = [longer EXCEPT !.term = @ + W] /\ Wseq!Asked(key, v)
           /\ failed' = failed /\ intact' = intact
        \/ /\ ~(longer.size > MaxSize) /\ Wseq!PartOf(memory, params.term, w)
           /\ params' = longer /\ Wseq!Fault /\ wanted' = wanted
    BY Zenon DEF Wseq!Extend, Wseq!NoFault
  <1>7. CASE UNCHANGED <<memory, params, wanted, failed, intact>>
    BY <1>7 DEF wseq_vars
  <1>8. rom => params.term >= 2
    BY <1>2, <1>3, <1>4, RomLength
  <1>9. CASE /\ ~(longer.size > MaxSize) /\ memory' = Wseq!Put(memory, params.term, w \o Wseq!Terminator)
             /\ params' = [longer EXCEPT !.term = @ + W] /\ Wseq!Asked(key, v)
             /\ failed' = failed /\ intact' = intact
    <2>1. /\ params'.rom = params.rom /\ params'.term = params.term + W
          /\ params'.size = params.size + W /\ params' \in Params
      <3> HIDE DEF longer, W
      <3>1. params.term + W \in Nat
        BY <1>1, <1>3
      <3> QED BY <3>1, <1>3, <1>9 DEF Params
    <2>2. w \o Wseq!Terminator \in Seq(Cells)
      BY <1>1, JoinedTyped
    <2> HIDE DEF longer, w
    <2>3. memory' \in Memory /\ RomKept(memory')
      BY <2>2, <1>2, <1>3, <1>8, <1>9, PutTyped, RomApart
    <2>4. wanted' \in Seq(Wseq!Keys \X Data)
      BY <1>2, <1>9, AskedTyped, Zenon
    <2>5. WseqTyped'
      BY <2>1, <2>3, <2>4, <1>2, <1>5, <1>9, Zenon DEF WseqTyped
    <2>6. WseqRom'
      <3>1. ASSUME rom'
            PROVE  memory'[0].key = Wseq!Low /\ memory'[0].part = 1 /\ memory'[1].value \in Data
        BY <3>1, <2>3, <1>5 DEF RomKept
      <3> QED BY <3>1, Zenon DEF WseqRom
    <2>7. params'.size # 0 /\ params'.size <= MaxSize /\ RomLen <= params'.term
          /\ params'.term < params'.size
      <3>1. RomLen \in Nat
        BY <1>2, RomLength
      <3> QED BY <3>1, <2>1, <1>1, <1>3, <1>4, <1>9
    <2>8. Wseq!Ready'
      BY <2>7 DEF Wseq!Ready
    <2>9. WseqClosed' /\ WseqEnds'
      BY <2>1, <2>7, <2>8, <1>4, <1>5, Zenon DEF WseqClosed, WseqEnds
    <2>10. WseqListed'
      <3> SUFFICES ASSUME intact PROVE WseqListed'
        BY <1>9, Zenon DEF WseqListed
      <3>1. params.size = params.term + 1 /\ \E pos : Laid(memory, wanted, pos, params.term)
        BY Zenon DEF WseqInv, WseqListed
      <3>2. PICK pos : Laid(memory, wanted, pos, params.term)
        BY <3>1
      <3>3. params.term + Wseq!Width(key) < MaxSize
        BY <3>1, <2>1, <2>7, <1>1, <1>3
      <3>4. PICK q : Laid(Wseq!Put(memory, params.term, Wseq!Words(key, v) \o Wseq!Terminator),
                          Append(wanted, <<key, v>>), q, params.term + Wseq!Width(key))
        BY <3>2, <3>3, <1>2, <1>3, LaidExtended, Zenon
      <3>5. wanted' = Append(wanted, <<key, v>>)
        <4>1. ~(Wseq!Update(key) /\ \E i \in 1..Len(wanted) : wanted[i][1] = key)
          <5>1. WseqTyped /\ params.size <= MaxSize
            BY Zenon DEF WseqInv, WseqEnds
          <5>2. Searched(Wseq!Scan(key, params.size), pos, key)
            BY <3>1, <3>2, <5>1, ScanFirst, Zenon
          <5> QED BY <5>2 DEF Searched
        <4> QED BY <4>1, <1>9 DEF Wseq!Asked
      <3>6. Laid(memory', wanted', q, params'.term)
        BY <3>4, <3>5, <2>1, <1>9 DEF w
      <3>7. params'.size = params'.term + 1
        BY <3>1, <2>1, <1>1, <1>3
      <3> QED BY <3>6, <3>7, Zenon DEF WseqListed
    <2> QED BY <2>5, <2>6, <2>9, <2>10, Zenon DEF WseqInv
  <1>10. CASE /\ ~(longer.size > MaxSize) /\ Wseq!PartOf(memory, params.term, w)
              /\ params' = longer /\ Wseq!Fault /\ wanted' = wanted
    <2>1. PICK n \in 0..Len(w) : memory' = Wseq!Put(memory, params.term, SubSeq(w, 1, n))
      BY <1>10, Zenon DEF Wseq!PartOf
    <2>2. SubSeq(w, 1, n) \in Seq(Cells)
      BY <1>1, PartTyped
    <2>3. memory' \in Memory /\ RomKept(memory')
      <3> HIDE DEF w, longer
      <3> QED BY <2>1, <2>2, <1>2, <1>3, <1>8, PutTyped, RomApart
    <2>4. intact' = FALSE /\ failed' \in Nat /\ failed' <= Faults
      BY <1>2, <1>10 DEF Wseq!Fault
    <2> HIDE DEF w
    <2>5. params'.rom = params.rom /\ params'.term = params.term /\ params'.size = params.size + W
          /\ params' \in Params
      BY <1>3, <1>10, Zenon
    <2>6. WseqTyped'
      <3>1. intact' \in BOOLEAN
        BY <2>4, Zenon
      <3> QED BY <3>1, <2>3, <2>4, <2>5, <1>2, <1>5, <1>10, Zenon DEF WseqTyped
    <2>7. WseqRom'
      <3>1. ASSUME rom'
            PROVE  memory'[0].key = Wseq!Low /\ memory'[0].part = 1 /\ memory'[1].value \in Data
        BY <3>1, <2>3, <1>5 DEF RomKept
      <3> QED BY <3>1, Zenon DEF WseqRom
    <2>8. params'.size # 0 /\ params'.size <= MaxSize /\ RomLen <= params'.term
          /\ params'.term < params'.size
      <3>1. RomLen \in Nat
        BY <1>2, RomLength
      <3> HIDE DEF longer
      <3> QED BY <3>1, <2>5, <1>1, <1>3, <1>4, <1>10
    <2>9. Wseq!Ready'
      BY <2>8 DEF Wseq!Ready
    <2>10. WseqClosed' /\ WseqEnds' /\ WseqListed'
      BY <2>4, <2>5, <2>8, <2>9, <1>4, <1>5, Zenon DEF WseqClosed, WseqEnds, WseqListed
    <2> QED BY <2>6, <2>7, <2>10, Zenon DEF WseqInv
  <1> QED BY <1>6, <1>7, <1>9, <1>10

LEMMA WseqClears ==
    ASSUME WseqInv, Wseq!WseqClear
    PROVE  WseqInv'
  <1> USE WseqConstants
  <1>1. /\ params \in Params /\ memory \in Memory /\ wanted \in Seq(Wseq!Keys \X Data)
        /\ rom \in BOOLEAN /\ intact \in BOOLEAN /\ failed \in Nat /\ failed <= Faults
        /\ RomKept(memory)
    BY Zenon DEF WseqInv, WseqTyped, WseqRom, RomKept
  <1>2. Wseq!Ready /\ rom' = rom /\ RomLen' = RomLen /\ wanted' = wanted
    BY DEF Wseq!WseqClear, RomLen
  <1>3. params.rom = RomLen
    BY <1>2, Zenon DEF WseqInv, WseqEnds
  <1>4. params.term \in Nat /\ RomLen \in Nat /\ RomLen < MaxSize /\ (rom => RomLen >= 2)
    BY <1>1, RomLength DEF Params
  <1> DEFINE z == Wseq!Zeros(RomLen, params.term)
  <1>5. z \in Seq(Cells)
    BY <1>4, ZerosTyped
  <1>6. \/ /\ memory' = Wseq!Put(Wseq!Put(memory, RomLen, z), RomLen, Wseq!Terminator)
           /\ params' = Wseq!None /\ failed' = failed /\ intact' = intact
        \/ Wseq!PartOf(memory, RomLen, z) /\ Wseq!Fault /\ params' = params
    BY <1>3, Zenon DEF Wseq!WseqClear, Wseq!NoFault
  <1> HIDE DEF z
  <1>7. CASE /\ memory' = Wseq!Put(Wseq!Put(memory, RomLen, z), RomLen, Wseq!Terminator)
             /\ params' = Wseq!None /\ failed' = failed /\ intact' = intact
    <2>1. Wseq!Put(memory, RomLen, z) \in Memory /\ RomKept(Wseq!Put(memory, RomLen, z))
      BY <1>1, <1>4, <1>5, PutTyped, RomApart
    <2>2. memory' \in Memory /\ RomKept(memory')
      BY <2>1, <1>4, <1>7, TerminatorTyped, PutTyped, RomApart
    <2>3. memory'[RomLen] = Wseq!Terminator[1]
      <3>1. RomLen \in 0..MaxSize - 1 /\ RomLen = RomLen + 1 - 1
            /\ 1 \in 1..Len(Wseq!Terminator)
        BY <1>4, TerminatorTyped
      <3>2. Wseq!Put(Wseq!Put(memory, RomLen, z), RomLen, Wseq!Terminator)[RomLen] = Wseq!Terminator[1]
        BY <3>1, <2>1, <1>4, TerminatorTyped, PutAt, Zenon
      <3> QED BY <3>2, <1>7
    <2>4. Wseq!None \in Params /\ Wseq!None.size = 0
      BY DEF Wseq!None, Params
    <2>5. ~Wseq!Ready'
      BY <2>4, <1>7 DEF Wseq!Ready
    <2>6. WseqTyped'
      BY <2>2, <2>4, <1>1, <1>2, <1>7, Zenon DEF WseqTyped
    <2>7. WseqRom'
      BY <2>2, <1>2, Zenon DEF WseqRom, RomKept
    <2>8. WseqClosed'
      BY <2>3, <1>2, <1>7, TerminatorTyped, Zenon DEF WseqClosed
    <2> QED BY <2>5, <2>6, <2>7, <2>8, Zenon DEF WseqInv, WseqEnds, WseqListed
  <1>8. CASE Wseq!PartOf(memory, RomLen, z) /\ Wseq!Fault /\ params' = params
    <2>1. PICK n \in 0..Len(z) : memory' = Wseq!Put(memory, RomLen, SubSeq(z, 1, n))
      BY <1>8, Zenon DEF Wseq!PartOf
    <2>2. SubSeq(z, 1, n) \in Seq(Cells)
      BY <1>5, PartTyped
    <2>3. memory' \in Memory /\ RomKept(memory')
      BY <2>1, <2>2, <1>1, <1>4, PutTyped, RomApart
    <2>4. intact' = FALSE /\ failed' \in Nat /\ failed' <= Faults
      BY <1>1, <1>8 DEF Wseq!Fault
    <2>5. WseqTyped'
      <3>1. intact' \in BOOLEAN
        BY <2>4, Zenon
      <3> QED BY <3>1, <2>3, <2>4, <1>1, <1>2, <1>8, Zenon DEF WseqTyped
    <2>6. Wseq!Ready'
      BY <1>2, <1>8 DEF Wseq!Ready
    <2>7. WseqRom'
      BY <2>3, <1>2, Zenon DEF WseqRom, RomKept
    <2>8. WseqClosed' /\ WseqEnds' /\ WseqListed'
      BY <2>4, <2>6, <1>2, <1>8, Zenon DEF WseqInv, WseqClosed, WseqEnds, WseqListed
    <2> QED BY <2>5, <2>7, <2>8, Zenon DEF WseqInv
  <1> QED BY <1>6, <1>7, <1>8

LEMMA WseqResets ==
    ASSUME WseqInv, Wseq!ChipReset
    PROVE  WseqInv'
  <1>1. memory' = Wseq!Image /\ intact' = FALSE /\ rom' = rom /\ params' = params
        /\ failed' = failed /\ wanted' = wanted /\ RomLen' = RomLen
    BY DEF Wseq!ChipReset, RomLen
  <1>2. rom \in BOOLEAN
    BY Zenon DEF WseqInv, WseqTyped
  <1>3. memory' \in Memory /\ RomKept(memory') /\ memory'[RomLen].key = Wseq!End
        /\ memory'[RomLen].part = 1
    BY <1>1, <1>2, ImageTyped, Zenon
  <1>4. Wseq!Ready' <=> Wseq!Ready
    BY <1>1 DEF Wseq!Ready
  <1>5. WseqTyped'
    <2>1. intact' \in BOOLEAN
      BY <1>1, Zenon
    <2> QED BY <2>1, <1>1, <1>3, Zenon DEF WseqInv, WseqTyped
  <1>6. WseqRom'
    BY <1>1, <1>3, Zenon DEF WseqRom, RomKept
  <1>7. WseqClosed' /\ WseqEnds' /\ WseqListed'
    BY <1>1, <1>3, <1>4, Zenon DEF WseqInv, WseqClosed, WseqEnds, WseqListed
  <1> QED BY <1>5, <1>6, <1>7, Zenon DEF WseqInv

LEMMA WseqStutters ==
    ASSUME WseqInv, UNCHANGED wseq_vars
    PROVE  WseqInv'
  <1>1. memory' = memory /\ rom' = rom /\ params' = params /\ failed' = failed
        /\ intact' = intact /\ wanted' = wanted
    BY DEF wseq_vars
  <1>2. Wseq!Ready' = Wseq!Ready /\ RomLen' = RomLen
    BY <1>1 DEF Wseq!Ready, RomLen
  <1>3. WseqTyped' /\ WseqRom' /\ WseqClosed' /\ WseqEnds'
    BY <1>1, <1>2, Zenon DEF WseqInv, WseqTyped, WseqRom, WseqClosed, WseqEnds
  <1>4. WseqListed'
    BY <1>1, <1>2, Zenon DEF WseqInv, WseqListed
  <1> QED BY <1>3, <1>4, Zenon DEF WseqInv

LEMMA WseqStep ==
    ASSUME WseqInv, [Wseq!Next]_wseq_vars
    PROVE  WseqInv'
  <1>1. CASE Wseq!WseqInit
    BY <1>1, WseqReads
  <1>2. CASE Wseq!WseqClear
    BY <1>2, WseqClears
  <1>3. CASE Wseq!ChipReset
    BY <1>3, WseqResets
  <1>4. CASE \E key \in Wseq!Keys, v \in Data : Wseq!WseqWrite(key, v)
    <2>1. PICK key \in Wseq!Keys, v \in Data : Wseq!WseqWrite(key, v)
      BY <1>4
    <2>2. /\ Wseq!Ready /\ UNCHANGED rom
          /\ \/ /\ Wseq!Scan(key, params.size).found = "yes" /\ Wseq!Update(key) /\ Wseq!Replace(key, v)
             \/ /\ \/ Wseq!Scan(key, params.size).found = "no"
                   \/ Wseq!Scan(key, params.size).found = "yes" /\ ~Wseq!Update(key)
                /\ Wseq!Extend(key, v)
             \/ UNCHANGED <<memory, params, wanted, failed, intact>>
      BY <2>1, Zenon DEF Wseq!WseqWrite
    <2>3. CASE UNCHANGED <<memory, params, wanted, failed, intact>>
      <3>1. UNCHANGED wseq_vars
        BY <2>2, <2>3 DEF wseq_vars
      <3> QED BY <3>1, WseqStutters
    <2> QED BY <2>2, <2>3, WseqReplaces, WseqExtends, WseqStutters
  <1>5. CASE UNCHANGED wseq_vars
    BY <1>5, WseqStutters
  <1> QED BY <1>1, <1>2, <1>3, <1>4, <1>5, Zenon DEF Wseq!Next

(* The write sequence is what the driver wanted; one that was cleared is the ROM's. *)
LEMMA WseqSafe ==
    ASSUME WseqInv
    PROVE  Wseq!TypeOK /\ Wseq!Replays /\ Wseq!ClearedToRom
  <1> USE WseqConstants
  <1>1. Wseq!TypeOK
    <2>1. \A i \in 0..MaxSize - 1 : memory[i].key \in Wseq!Keys \cup {Wseq!End, Wseq!Empty} /\ memory[i].part \in 1..3
      <3>1. ASSUME NEW i \in 0..MaxSize - 1
            PROVE  memory[i].key \in Wseq!Keys \cup {Wseq!End, Wseq!Empty} /\ memory[i].part \in 1..3
        <4>1. memory[i].key \in Named /\ memory[i].part \in {1, 2, 3}
          BY CellAt, Zenon DEF WseqInv, WseqTyped
        <4> QED BY <4>1 DEF Named
      <3> QED BY <3>1
    <2>2. params.rom \in Nat /\ params.term \in Nat /\ params.size \in 0..MaxSize
      <3>1. params.rom \in Nat /\ params.term \in Nat /\ params.size \in Nat
        BY DEF WseqInv, WseqTyped, Params
      <3>2. CASE Wseq!Ready
        BY <3>1, <3>2 DEF WseqInv, WseqEnds
      <3>3. CASE ~Wseq!Ready
        BY <3>1, <3>3 DEF Wseq!Ready
      <3> QED BY <3>1, <3>2, <3>3
    <2>3. Wseq!Ready => params.term < params.size
      BY Zenon DEF WseqInv, WseqEnds
    <2>4. failed \in 0..Faults
      BY DEF WseqInv, WseqTyped
    <2> QED BY <2>1, <2>2, <2>3, <2>4, Zenon DEF WseqInv, WseqTyped, Wseq!TypeOK
  <1>2. Wseq!Replays
    <2> SUFFICES ASSUME Wseq!Ready, intact PROVE Wseq!Replayed(memory) = wanted
      BY DEF Wseq!Replays
    <2>1. PICK pos : Laid(memory, wanted, pos, params.term)
      BY Zenon DEF WseqInv, WseqListed
    <2>2. params.term \in Nat /\ memory \in Memory /\ wanted \in Seq(Wseq!Keys \X Data)
      BY DEF WseqInv, WseqTyped, Params
    <2> QED BY <2>1, <2>2, LaidReplayed, Zenon
  <1>3. Wseq!ClearedToRom
    <2> SUFFICES ASSUME params = Wseq!None
                 PROVE  [i \in DOMAIN Wseq!Replayed(memory) |-> Wseq!Replayed(memory)[i][1]]
                          = IF rom THEN <<Wseq!Low>> ELSE <<>>
      BY DEF Wseq!ClearedToRom
    <2>1. ~Wseq!Ready
      BY DEF Wseq!Ready, Wseq!None
    <2>2. /\ memory \in Memory /\ rom \in BOOLEAN /\ memory[RomLen].key = Wseq!End
          /\ (rom => memory[0].key = Wseq!Low /\ memory[0].part = 1)
      BY <2>1, Zenon DEF WseqInv, WseqTyped, WseqClosed, WseqRom
    <2>3. PICK f : ReplayFrom(f, memory) /\ Wseq!Replayed(memory) = f[0]
      BY <2>2, ReplayUnfolds, Zenon
    <2>4. f[RomLen] = <<>>
      <3>1. RomLen \in 0..MaxSize - 1
        BY <2>2, RomLength
      <3> QED BY <3>1, <2>2, <2>3 DEF ReplayFrom
    <2>5. CASE rom
      <3>1. RomLen = 2 /\ 0 \in 0..MaxSize - 1 /\ Wseq!Width(memory[0].key) = 2 /\ memory[0].key # Wseq!End
        BY <2>5, <2>2, RomLength, WidthTyped
      <3>2. ~Stops(memory, 0)
        BY <3>1, <2>2, <2>5 DEF Stops
      <3>3. f[0] = <<<<memory[0].key, memory[0 + Wseq!Width(memory[0].key) - 1].value>>>>
                   \o f[0 + Wseq!Width(memory[0].key)]
        BY <3>1, <3>2, <2>3 DEF ReplayFrom
      <3> DEFINE e == <<memory[0].key, memory[0 + Wseq!Width(memory[0].key) - 1].value>>
      <3>4. f[0] = <<e>> \o <<>> /\ e[1] = Wseq!Low
        <4>1. f[0 + Wseq!Width(memory[0].key)] = <<>>
          BY <3>1, <2>4
        <4> QED BY <4>1, <3>3, <2>2, <2>5
      <3> HIDE DEF e
      <3>5. f[0] = <<e>>
        <4>1. <<e>> \o <<>> = <<e>>
          OBVIOUS
        <4> QED BY <4>1, <3>4
      <3>6. [i \in DOMAIN <<e>> |-> <<e>>[i][1]] = <<Wseq!Low>>
        BY <3>4
      <3> QED BY <3>5, <3>6, <2>3, <2>5
    <2>6. CASE ~rom
      <3>1. Wseq!Replayed(memory) = <<>>
        BY <2>6, <2>2, <2>3, <2>4, RomLength
      <3> QED BY <3>1, <2>6
    <2> QED BY <2>5, <2>6
  <1> QED BY <1>1, <1>2, <1>3

--------------------------------------------------------------------------------
(* The services *)

ServicesInv == CalibInv /\ AspInv /\ Mbox!Inv /\ PmInv /\ WseqInv

LEMMA ServicesStart ==
    ASSUME Init
    PROVE  ServicesInv
  <1>1. Mbox!Init /\ Pm!Init /\ Calib!Init /\ Asp!Init /\ Wseq!Init
    BY Zenon DEF Init
  <1> QED BY <1>1, MboxInit, PmInit, CalibInit, AspInit, WseqInitial, Zenon DEF ServicesInv

LEMMA ServicesGoOn ==
    ASSUME [Next]_vars
    PROVE  /\ [Mbox!Next]_mbox_vars /\ [Pm!Next]_pm_vars /\ [Wseq!Next]_wseq_vars
           /\ [Calib!Next]_calib_vars /\ [Asp!Next]_asp_vars
  <1>1. CASE part = "mbox" /\ Mbox!Next /\ Others("mbox")
    <2>1. /\ UNCHANGED pm_vars /\ UNCHANGED calib_vars
          /\ UNCHANGED asp_vars /\ UNCHANGED wseq_vars
      BY <1>1 DEF Others
    <2> QED BY <1>1, <2>1, Zenon
  <1>2. CASE part = "pm" /\ Pm!Next /\ Others("pm")
    <2>1. /\ UNCHANGED mbox_vars /\ UNCHANGED calib_vars
          /\ UNCHANGED asp_vars /\ UNCHANGED wseq_vars
      BY <1>2 DEF Others
    <2> QED BY <1>2, <2>1, Zenon
  <1>3. CASE part = "calib" /\ Calib!Next /\ Others("calib")
    <2>1. /\ UNCHANGED mbox_vars /\ UNCHANGED pm_vars
          /\ UNCHANGED asp_vars /\ UNCHANGED wseq_vars
      BY <1>3 DEF Others
    <2> QED BY <1>3, <2>1, Zenon
  <1>4. CASE part = "asp" /\ Asp!Next /\ Others("asp")
    <2>1. /\ UNCHANGED mbox_vars /\ UNCHANGED pm_vars
          /\ UNCHANGED calib_vars /\ UNCHANGED wseq_vars
      BY <1>4 DEF Others
    <2> QED BY <1>4, <2>1, Zenon
  <1>5. CASE part = "wseq" /\ Wseq!Next /\ Others("wseq")
    <2>1. /\ UNCHANGED mbox_vars /\ UNCHANGED pm_vars
          /\ UNCHANGED calib_vars /\ UNCHANGED asp_vars
      BY <1>5 DEF Others
    <2> QED BY <1>5, <2>1, Zenon
  <1>6. CASE \E p \in Parts \ {"mbox", "pm", "calib", "asp", "wseq"} : Others(p)
    <2>1. /\ UNCHANGED mbox_vars /\ UNCHANGED pm_vars /\ UNCHANGED wseq_vars
          /\ UNCHANGED calib_vars /\ UNCHANGED asp_vars
      BY <1>6 DEF Others
    <2> QED BY <2>1, Zenon
  <1>7. CASE UNCHANGED vars
    BY <1>7, Zenon DEF vars
  <1>8. {"chunk", "config", "composite"} \subseteq Parts \ {"mbox", "pm", "calib", "asp", "wseq"}
    BY DEF Parts
  <1> QED BY <1>1, <1>2, <1>3, <1>4, <1>5, <1>6, <1>7, <1>8 DEF Next

LEMMA ServicesKeep ==
    ASSUME ServicesInv, [Next]_vars
    PROVE  ServicesInv'
  <1>1. CalibInv' /\ AspInv'
    BY ServicesGoOn, CalibStep, AspStep, Zenon DEF ServicesInv
  <1>2. (Mbox!Inv)' /\ PmInv' /\ WseqInv'
    BY ServicesGoOn, MboxStep, PmStep, WseqStep, Zenon DEF ServicesInv
  <1> QED BY <1>1, <1>2, Zenon DEF ServicesInv

LEMMA ServicesAlways == Spec => []ServicesInv
  <1>1. Init => ServicesInv
    BY ServicesStart
  <1>2. ServicesInv /\ [Next]_vars => ServicesInv'
    BY ServicesKeep
  <1> QED BY <1>1, <1>2, PTL DEF Spec

(* cs40l26_pm_state_transition and trigger_calibration_store: for any number of attempts, a
   chip in use does not hibernate; for any writers, kinds and number of measurements, a request
   that succeeds was carried out, and one whose end was reported, while no other of its kind
   was outstanding, does not time out. *)
THEOREM RequestsKept == Spec => []RequestsMet
  <1>1. ServicesInv => RequestsMet
    BY PmSafe, Zenon DEF ServicesInv, CalibInv, RequestsMet
  <1> QED BY <1>1, ServicesAlways, PTL

(* cs40l26_asp_ev, cs40l26_clk_en and the messages of streams: for any gains and any length of
   the ring, the PLL is left as it was found when no effects play, a gain set between streams is
   honoured, and the wait for a stream is woken by a message that will come. *)
THEOREM StreamsKept == Spec => []StreamsSound
  <1>1. ServicesInv => StreamsSound
    BY AspSafe, Zenon DEF ServicesInv, StreamsSound
  <1> QED BY <1>1, ServicesAlways, PTL

(* cs40l26_mbox_buffer_read: each message is dispatched once and in the order the DSP sent it,
   for a ring of any length, however many messages it sends and whatever fails. *)
THEOREM DispatchedInOrder == Spec => []Mbox!InOrder
  <1>1. ServicesInv => Mbox!InOrder
    BY Zenon DEF ServicesInv, Mbox!Inv
  <1> QED BY <1>1, ServicesAlways, PTL

(* cs40l26_wseq_write, cs40l26_wseq_clear: for any data, any size of the chip's memory and
   whatever fails, the list holds what was asked for since it was last initialised, unless an
   access failed meanwhile, and one that is cleared is the ROM's again. *)
THEOREM WriteSequenceKept == Spec => [](Wseq!Replays /\ Wseq!ClearedToRom)
  <1>1. ServicesInv => Wseq!Replays /\ Wseq!ClearedToRom
    BY WseqSafe, Zenon DEF ServicesInv
  <1> QED BY <1>1, ServicesAlways, PTL

(* cs40l26_mbox_buffer_read and cs40l26_handle_mbox_buffer: what the DSP sent and was not
   dispatched is in the ring or in the thread's hands. *)
THEOREM NothingLost == Spec => []Mbox!Kept
  <1>1. ServicesInv => Mbox!Kept
    BY MboxKept, Zenon DEF ServicesInv
  <1> QED BY <1>1, ServicesAlways, PTL
================================================================================
