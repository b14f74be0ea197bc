--------------------------- MODULE Foundations_proofs ---------------------------
(***************************************************************************)
(* What entities rest on: lifetimes and signals.                           *)
(*                                                                         *)
(* A lifetime runs what it has accepted once and in reverse order, however *)
(* many threads terminate it.  What was accepted waits in the map or with  *)
(* the one call that took it; a terminated lifetime accepts nothing, so    *)
(* that its map stays empty once it was taken.  A nested lifetime that     *)
(* only its parent ends is ended by a call of the one that runs the        *)
(* parent's actions, which has the older ones still to run.                *)
(*                                                                         *)
(* A signal calls its living listeners in the order they subscribed in.    *)
(* What is said of it depends on what handlers have done: always, that the *)
(* calls of fire are inside each other and only a listener that runs is    *)
(* FIRING; unless one threw, that the innermost call in a queue erases all *)
(* whose action is to be released; unless one fired, that the living are   *)
(* in a queue in order, with those called so far before the others; unless *)
(* one did anything, that whoever is due was called or is still to come.   *)
(***************************************************************************)
EXTENDS Lifetime, Signal, SequenceTheorems, FiniteSetTheorems, TLAPS

\* LIFETIMES

\* What the maps of lifetimes have in them.
Nested == Lifetimes \ {Root}
Items == [kind : {"user"}, of : Actions] \cup [kind : {"end", "detach"}, of : Nested]

\* The lifetime in whose map an item is kept.
Home(x) == IF x.kind = "user" THEN Owner[x.of] ELSE IF x.kind = "end" THEN Parent[x.of] ELSE x.of

CallTypes ==
  [do : {"add", "erase"}, on : Lifetimes, item : Items, inside : BOOLEAN]
    \cup [do : {"take"}, on : Lifetimes, inside : BOOLEAN]
    \cup [do : {"run"}, on : Lifetimes, left : Seq(Items), inside : BOOLEAN]

Accepted(x) == \E i \in DOMAIN accepted : accepted[i] = x
Before(x, y) == \E i, j \in DOMAIN accepted : i < j /\ accepted[i] = x /\ accepted[j] = y

\* Items of l that were accepted, in that order.
KeptFor(s, l) ==
  /\ \A k \in DOMAIN s : Home(s[k]) = l /\ Accepted(s[k])
  /\ \A i, j \in DOMAIN s : i < j => Before(s[i], s[j])

\* Somebody is about to add x.
Adding(t, i, x) == i \in DOMAIN calls[t] /\ calls[t][i].do = "add" /\ calls[t][i].item = x
Known(x) ==
  \/ x.kind = "user" /\ x.of \in given
  \/ x.kind = "end" /\ x.of \in nested
  \/ x.kind = "detach" /\ Accepted(EndOf(x.of))

\* An item is added once.
AddedOnce ==
  /\ \A i, j \in DOMAIN accepted : accepted[i] = accepted[j] => i = j
  /\ \A i \in DOMAIN accepted : Known(accepted[i])
  /\ \A t \in LifetimeThreads : \A i \in DOMAIN calls[t] :
       calls[t][i].do = "add" =>
         /\ Known(calls[t][i].item) /\ ~Accepted(calls[t][i].item)
         /\ \A u \in LifetimeThreads : \A j \in DOMAIN calls[u] :
              Adding(u, j, calls[t][i].item) => u = t /\ j = i

\* What a call has, and what it rests on.
CallFits(c) ==
  /\ c.do = "add" => c.on = Home(c.item)
  /\ c.do = "erase" => c.item.kind = "end" /\ c.on = Home(c.item) /\ terminated[c.item.of]
  /\ c.do \in {"take", "run"} => terminated[c.on]
  /\ c.do = "run" => actions[c.on] = <<>> /\ KeptFor(c.left, c.on)

\* The items of a lifetime are run by one call.
Full(c) == c.do = "run" /\ c.left # <<>>
OneRuns ==
  \A t, u \in LifetimeThreads : \A i \in DOMAIN calls[t], j \in DOMAIN calls[u] :
    Full(calls[t][i]) /\ Full(calls[u][j]) /\ calls[t][i].on = calls[u][j].on => t = u /\ i = j

Waiting(x) ==
  \/ Contains(actions[Home(x)], x)
  \/ \E t \in LifetimeThreads : WillRun(t, x)

Ran(a) == \E i \in DOMAIN ran : ran[i] = a

\* An action that ran was waiting and is not any more.
RanRight ==
  /\ \A i, j \in DOMAIN ran : ran[i] = ran[j] => i = j
  /\ \A i \in DOMAIN ran : /\ terminated[Owner[ran[i]]] /\ Accepted(User(ran[i]))
                           /\ ~Waiting(User(ran[i]))

NoneLost == \A a \in Actions : Accepted(User(a)) => Ran(a) \/ Waiting(User(a))
Fetched == \A l \in Lifetimes : terminated[l] /\ actions[l] # <<>> => WillTake(l)

InReverse ==
  \A a \in Actions : Ran(a) =>
    \A x \in Items : Before(User(a), x) /\ Home(x) = Owner[a] => ~Waiting(x)

OnItsOwn(m) == \E t \in LifetimeThreads : <<t, m>> \in terminating

\* A nested lifetime that nobody has terminated but its parent: the call that ends
\* it was made by the one that runs what its parent has, in its turn.
InTurn(t, i, m) ==
  /\ m \in Nested /\ Accepted(EndOf(m))
  /\ i > 1 /\ calls[t][i - 1].do = "run" /\ calls[t][i - 1].on = Parent[m]
  /\ \A a \in Actions : Before(User(a), EndOf(m)) /\ Owner[a] = Parent[m]
                           => Contains(calls[t][i - 1].left, User(a))

EndedInTurn ==
  \A t \in LifetimeThreads : \A i \in DOMAIN calls[t] :
    calls[t][i].do \in {"take", "run"} =>
      OnItsOwn(calls[t][i].on) \/ InTurn(t, i, calls[t][i].on)

EndCalled ==
  \A m \in Nested : Accepted(EndOf(m)) /\ ~OnItsOwn(m) /\ ~Waiting(EndOf(m)) => terminated[m]

LifetimeTypeOK ==
  /\ terminated \in [Lifetimes -> BOOLEAN]
  /\ actions \in [Lifetimes -> Seq(Items)]
  /\ calls \in [LifetimeThreads -> Seq(CallTypes)]
  /\ nested \subseteq Nested /\ given \subseteq Actions
  /\ terminating \subseteq LifetimeThreads \X Lifetimes
  /\ accepted \in Seq(Items) /\ ran \in Seq(Actions)

InMaps == \A l \in Lifetimes : KeptFor(actions[l], l)
CallsFit == \A t \in LifetimeThreads : \A i \in DOMAIN calls[t] : CallFits(calls[t][i])

LifetimeInv ==
  /\ LifetimeTypeOK /\ AddedOnce /\ InMaps /\ CallsFit /\ OneRuns
  /\ Fetched /\ RanRight /\ NoneLost /\ InReverse /\ EndedInTurn /\ EndCalled
-----------------------------------------------------------------------------
\* All but the last of a sequence, and the last.
LEMMA FrontIs ==
  ASSUME NEW S, NEW s \in Seq(S), s # <<>>
  PROVE  /\ Len(s) \in Nat /\ Len(s) >= 1 /\ Last(s) = s[Len(s)] /\ Last(s) \in S
         /\ Front(s) \in Seq(S) /\ Len(Front(s)) = Len(s) - 1
         /\ \A i \in 1 .. Len(s) - 1 : Front(s)[i] = s[i]
<1>1. Len(s) \in Nat /\ Len(s) # 0 BY EmptySeq
<1>2. PICK n : n = Len(s) /\ n \in Nat /\ n >= 1 BY <1>1
<1>3. \A i \in 1 .. n : s[i] \in S BY <1>2
<1>4. n - 1 \in Int /\ 1 \in Int /\ \A i \in 1 .. n - 1 : s[i] \in S BY <1>2, <1>3
<1>5. /\ SubSeq(s, 1, n - 1) \in Seq(S)
      /\ Len(SubSeq(s, 1, n - 1)) = IF 1 <= n - 1 THEN n - 1 - 1 + 1 ELSE 0
      /\ \A i \in 1 .. n - 1 - 1 + 1 : SubSeq(s, 1, n - 1)[i] = s[1 + i - 1]
  BY <1>4, SubSeqProperties
<1>. DEFINE f == SubSeq(s, 1, n - 1)
<1>. HIDE DEF f
<1>6. Len(f) = n - 1 BY <1>2, <1>5 DEF f
<1>7. \A i \in 1 .. n - 1 : f[i] = s[i] BY <1>2, <1>5 DEF f
<1>8. f \in Seq(S) BY <1>5 DEF f
<1>9. f = Front(s) BY <1>2 DEF f, Front
<1>10. Last(s) = s[n] /\ s[n] \in S BY <1>2, <1>3 DEF Last
<1>. QED BY <1>2, <1>6, <1>7, <1>8, <1>9, <1>10

\* What a sequence is without its k-th element.
LEMMA RemovedAt ==
  ASSUME NEW S, NEW s \in Seq(S), NEW k \in 1 .. Len(s)
  PROVE  /\ RemoveAt(s, k) \in Seq(S) /\ Len(s) \in Nat /\ Len(RemoveAt(s, k)) = Len(s) - 1
         /\ \A i \in 1 .. Len(s) - 1 : RemoveAt(s, k)[i] = IF i < k THEN s[i] ELSE s[i + 1]
<1>1. PICK n : n = Len(s) /\ n \in Nat OBVIOUS
<1>2. k \in Nat /\ k >= 1 /\ k <= n BY <1>1
<1>3. \A i \in 1 .. n : s[i] \in S BY <1>1
<1>4. /\ 1 \in Int /\ k - 1 \in Int /\ k + 1 \in Int /\ n \in Int
      /\ \A i \in 1 .. k - 1 : s[i] \in S
      /\ \A i \in k + 1 .. n : s[i] \in S
  BY <1>1, <1>2, <1>3
<1>5. PICK p : p = SubSeq(s, 1, k - 1) OBVIOUS
<1>6. PICK q : q = SubSeq(s, k + 1, n) OBVIOUS
<1>7. /\ p \in Seq(S) /\ Len(p) = IF 1 <= k - 1 THEN k - 1 - 1 + 1 ELSE 0
      /\ \A i \in 1 .. k - 1 - 1 + 1 : p[i] = s[1 + i - 1]
  BY <1>4, <1>5, SubSeqProperties
<1>8. /\ q \in Seq(S) /\ Len(q) = IF k + 1 <= n THEN n - (k + 1) + 1 ELSE 0
      /\ \A i \in 1 .. n - (k + 1) + 1 : q[i] = s[(k + 1) + i - 1]
  BY <1>4, <1>6, SubSeqProperties
<1>9. Len(p) = k - 1 /\ \A i \in 1 .. k - 1 : p[i] = s[i] BY <1>2, <1>7
<1>10. Len(q) = n - k /\ \A i \in 1 .. n - k : q[i] = s[k + i] BY <1>1, <1>2, <1>8
<1>11. /\ p \o q \in Seq(S) /\ Len(p \o q) = Len(p) + Len(q)
       /\ \A i \in 1 .. Len(p) + Len(q) : (p \o q)[i] = IF i <= Len(p) THEN p[i] ELSE q[i - Len(p)]
  BY <1>7, <1>8, ConcatProperties
<1>12. PICK r : r = p \o q OBVIOUS
<1>13. r = RemoveAt(s, k) BY <1>1, <1>5, <1>6, <1>12 DEF RemoveAt
<1>14. Len(r) = n - 1
  <2>1. Len(p) = k - 1 /\ Len(q) = n - k BY <1>9, <1>10
  <2>2. Len(r) = Len(p) + Len(q) BY <1>11, <1>12
  <2>. QED BY <2>1, <2>2, <1>1, <1>2
<1>15. \A i \in 1 .. n - 1 : r[i] = IF i <= k - 1 THEN p[i] ELSE q[i - (k - 1)]
  <2>1. Len(p) = k - 1 /\ Len(p) + Len(q) = n - 1 BY <1>1, <1>2, <1>9, <1>10
  <2>. QED BY <1>11, <1>12, <2>1
<1>16. ASSUME NEW i \in 1 .. n - 1 PROVE r[i] = IF i < k THEN s[i] ELSE s[i + 1]
  <2>1. CASE i < k BY <1>1, <1>2, <1>9, <1>15, <2>1
  <2>2. CASE i >= k
    <3>1. i - (k - 1) \in 1 .. n - k /\ k + (i - (k - 1)) = i + 1 BY <1>1, <1>2, <2>2
    <3>2. r[i] = q[i - (k - 1)] BY <1>1, <1>2, <1>15, <2>2
    <3>3. q[i - (k - 1)] = s[k + (i - (k - 1))] BY <1>10, <3>1
    <3>4. ~(i < k) BY <1>2, <2>2
    <3>. QED BY <3>1, <3>2, <3>3, <3>4
  <2>. QED BY <1>2, <2>1, <2>2
<1>. QED BY <1>1, <1>11, <1>12, <1>13, <1>14, <1>16

\* A map without one of its items, each of which it has once.
LEMMA WithoutIs ==
  ASSUME NEW s \in Seq(Items), NEW y, \A i, j \in 1 .. Len(s) : s[i] = s[j] => i = j
  PROVE  /\ Without(s, y) \in Seq(Items)
         /\ \A x : Contains(Without(s, y), x) <=> Contains(s, x) /\ x # y
         /\ \A i, j \in DOMAIN Without(s, y) : i < j =>
              \E k, l \in DOMAIN s : k < l /\ Without(s, y)[i] = s[k] /\ Without(s, y)[j] = s[l]
<1>1. CASE ~Contains(s, y) BY <1>1 DEF Without, Contains
<1>2. CASE Contains(s, y)
  <2>1. PICK k \in 1 .. Len(s) : s[k] = y /\ Without(s, y) = RemoveAt(s, k)
    BY <1>2 DEF Without, Contains
  <2>. DEFINE r == RemoveAt(s, k)
  <2>2. /\ r \in Seq(Items) /\ Len(s) \in Nat /\ Len(r) = Len(s) - 1
        /\ \A i \in 1 .. Len(s) - 1 : r[i] = IF i < k THEN s[i] ELSE s[i + 1]
    BY RemovedAt
  <2>. HIDE DEF r
  <2>3. DOMAIN r = 1 .. Len(s) - 1 /\ DOMAIN s = 1 .. Len(s) BY <2>2
  <2>4. ASSUME NEW x PROVE Contains(r, x) <=> Contains(s, x) /\ x # y
    <3>1. ASSUME NEW i \in 1 .. Len(r), r[i] = x PROVE Contains(s, x) /\ x # y
      <4>1. CASE i < k BY <2>1, <2>2, <3>1, <4>1 DEF Contains
      <4>2. CASE i >= k
        <5>1. i + 1 \in 1 .. Len(s) /\ s[i + 1] = x /\ i + 1 # k BY <2>1, <2>2, <3>1, <4>2
        <5>. QED BY <2>1, <5>1 DEF Contains
      <4>. QED BY <4>1, <4>2
    <3>2. ASSUME NEW i \in 1 .. Len(s), s[i] = x, x # y PROVE Contains(r, x)
      <4>1. CASE i < k BY <2>1, <2>2, <3>2, <4>1 DEF Contains
      <4>2. CASE i > k
        <5>1. i - 1 \in 1 .. Len(r) /\ r[i - 1] = x BY <2>1, <2>2, <3>2, <4>2
        <5>. QED BY <5>1 DEF Contains
      <4>. QED BY <2>1, <3>2, <4>1, <4>2
    <3>. QED BY <3>1, <3>2 DEF Contains
  <2>5. ASSUME NEW i \in DOMAIN r, NEW j \in DOMAIN r, i < j
        PROVE  \E f, l \in DOMAIN s : f < l /\ r[i] = s[f] /\ r[j] = s[l]
    <3>. DEFINE f == IF i < k THEN i ELSE i + 1
                l == IF j < k THEN j ELSE j + 1
    <3>1. f \in DOMAIN s /\ l \in DOMAIN s /\ f < l BY <2>2, <2>3, <2>5
    <3>2. r[i] = s[f] /\ r[j] = s[l] BY <2>2, <2>3
    <3>. QED BY <3>1, <3>2
  <2>. QED BY <2>1, <2>2, <2>4, <2>5 DEF r
<1>. QED BY <1>1, <1>2
-----------------------------------------------------------------------------
\* Where two stacks of calls are the same: but for those of t from the n-th on.
SameBut(t, n) ==
  \A u \in LifetimeThreads :
    /\ \A i \in DOMAIN calls'[u] : (u # t \/ i < n) => i \in DOMAIN calls[u] /\ calls'[u][i] = calls[u][i]
    /\ \A i \in DOMAIN calls[u] : (u # t \/ i < n) => i \in DOMAIN calls'[u] /\ calls'[u][i] = calls[u][i]

\* A thread that did nothing has one call.
LEMMA Begun ==
  ASSUME LifetimeTypeOK, NEW t \in LifetimeThreads, NEW c \in CallTypes, calls[t] = <<>>, Call(t, c)
  PROVE  /\ calls' \in [LifetimeThreads -> Seq(CallTypes)]
         /\ SameBut(t, 1) /\ DOMAIN calls'[t] = {1} /\ calls'[t][1] = c /\ DOMAIN calls[t] = {}
<1>1. calls' = [calls EXCEPT ![t] = <<c>>] /\ calls \in [LifetimeThreads -> Seq(CallTypes)]
  BY DEF Call, LifetimeTypeOK
<1>2. calls'[t] = <<c>> /\ \A u \in LifetimeThreads : u # t => calls'[u] = calls[u] BY <1>1
<1>3. calls' \in [LifetimeThreads -> Seq(CallTypes)] BY <1>1
<1>4. DOMAIN <<c>> = {1} /\ <<c>>[1] = c /\ DOMAIN calls[t] = {} OBVIOUS
<1>. QED BY <1>2, <1>3, <1>4 DEF SameBut

\* The innermost call of a thread is replaced.
LEMMA Became ==
  ASSUME LifetimeTypeOK, NEW t \in LifetimeThreads, NEW c \in CallTypes, calls[t] # <<>>, Become(t, c)
  PROVE  LET n == Len(calls[t]) IN
         /\ calls' \in [LifetimeThreads -> Seq(CallTypes)] /\ n \in Nat /\ n >= 1
         /\ SameBut(t, n) /\ DOMAIN calls'[t] = 1 .. n /\ calls'[t][n] = c
         /\ DOMAIN calls[t] = 1 .. n /\ Top(t) = calls[t][n] /\ Top(t) \in CallTypes
<1>. DEFINE s == calls[t]
            n == Len(s)
<1>1. s \in Seq(CallTypes) BY DEF LifetimeTypeOK
<1>2. /\ n \in Nat /\ n >= 1 /\ Last(s) = s[n] /\ Last(s) \in CallTypes /\ Front(s) \in Seq(CallTypes)
      /\ Len(Front(s)) = n - 1 /\ \A i \in 1 .. n - 1 : Front(s)[i] = s[i]
  BY <1>1, FrontIs
<1>. DEFINE r == Append(Front(s), c)
<1>3. r \in Seq(CallTypes) /\ Len(r) = n /\ r[n] = c /\ \A i \in 1 .. n - 1 : r[i] = s[i] BY <1>2
<1>4. calls' = [calls EXCEPT ![t] = r] BY DEF Become
<1>. HIDE DEF r
<1>5. calls'[t] = r /\ \A u \in LifetimeThreads : u # t => calls'[u] = calls[u]
  BY <1>4 DEF LifetimeTypeOK
<1>6. calls' \in [LifetimeThreads -> Seq(CallTypes)] BY <1>3, <1>4 DEF LifetimeTypeOK
<1>7. DOMAIN r = 1 .. n /\ DOMAIN s = 1 .. n BY <1>1, <1>3
<1>8. SameBut(t, n) BY <1>2, <1>3, <1>5, <1>7 DEF SameBut
<1>. QED BY <1>2, <1>3, <1>5, <1>6, <1>7, <1>8 DEF Top

\* The innermost call of a thread is replaced by one that has called another.
LEMMA CalledThen ==
  ASSUME LifetimeTypeOK, NEW t \in LifetimeThreads, NEW b \in CallTypes, NEW c \in CallTypes, calls[t] # <<>>,
         calls' = [calls EXCEPT ![t] = Front(@) \o <<b, c>>]
  PROVE  LET n == Len(calls[t]) IN
         /\ calls' \in [LifetimeThreads -> Seq(CallTypes)] /\ n \in Nat /\ n >= 1
         /\ SameBut(t, n) /\ DOMAIN calls'[t] = 1 .. n + 1 /\ calls'[t][n] = b /\ calls'[t][n + 1] = c
         /\ DOMAIN calls[t] = 1 .. n /\ Top(t) = calls[t][n] /\ Top(t) \in CallTypes
<1>. DEFINE s == calls[t]
            n == Len(s)
<1>1. s \in Seq(CallTypes) BY DEF LifetimeTypeOK
<1>2. /\ n \in Nat /\ n >= 1 /\ Last(s) = s[n] /\ Last(s) \in CallTypes /\ Front(s) \in Seq(CallTypes)
      /\ Len(Front(s)) = n - 1 /\ \A i \in 1 .. n - 1 : Front(s)[i] = s[i]
  BY <1>1, FrontIs
<1>. DEFINE r == Front(s) \o <<b, c>>
<1>3. /\ r \in Seq(CallTypes) /\ Len(r) = n + 1 /\ r[n] = b /\ r[n + 1] = c
      /\ \A i \in 1 .. n - 1 : r[i] = s[i]
  <2>1. PICK q : q = <<b, c>> OBVIOUS
  <2>2. q \in Seq(CallTypes) /\ Len(q) = 2 /\ q[1] = b /\ q[2] = c BY <2>1
  <2>3. PICK f : f = Front(s) OBVIOUS
  <2>4. f \in Seq(CallTypes) /\ Len(f) = n - 1 /\ \A i \in 1 .. n - 1 : f[i] = s[i] BY <1>2, <2>3
  <2>5. /\ f \o q \in Seq(CallTypes) /\ Len(f \o q) = Len(f) + Len(q)
        /\ \A i \in 1 .. Len(f) + Len(q) : (f \o q)[i] = IF i <= Len(f) THEN f[i] ELSE q[i - Len(f)]
    BY <2>2, <2>4, ConcatProperties
  <2>6. PICK m : m = n /\ m \in Nat /\ m >= 1 BY <1>2
  <2>7. PICK g : g = f \o q OBVIOUS
  <2>13. Len(f) = m - 1 /\ Len(q) = 2 /\ \A i \in 1 .. m - 1 : f[i] = s[i] BY <2>2, <2>4, <2>6
  <2>14. Len(f) + Len(q) = m + 1 BY <2>6, <2>13
  <2>8. \A i \in 1 .. m + 1 : g[i] = IF i <= m - 1 THEN f[i] ELSE q[i - (m - 1)]
    BY <2>5, <2>7, <2>13, <2>14
  <2>9. g[m] = b /\ g[m + 1] = c
    <3>1. m \in 1 .. m + 1 /\ m + 1 \in 1 .. m + 1 /\ m - (m - 1) = 1 /\ (m + 1) - (m - 1) = 2
          /\ ~(m <= m - 1) /\ ~(m + 1 <= m - 1)
      BY <2>6
    <3>. QED BY <2>2, <2>8, <3>1
  <2>10. ASSUME NEW i \in 1 .. m - 1 PROVE g[i] = s[i]
    <3>1. i \in 1 .. m + 1 /\ i <= m - 1 BY <2>6
    <3>. QED BY <2>8, <2>13, <3>1
  <2>11. Len(g) = m + 1 BY <2>2, <2>4, <2>5, <2>6, <2>7
  <2>12. g = r BY <2>1, <2>3, <2>7
  <2>. HIDE DEF r
  <2>. QED BY <2>5, <2>6, <2>7, <2>9, <2>10, <2>11, <2>12
<1>4. calls' = [calls EXCEPT ![t] = r] OBVIOUS
<1>. HIDE DEF r
<1>5. calls'[t] = r /\ \A u \in LifetimeThreads : u # t => calls'[u] = calls[u]
  BY <1>4 DEF LifetimeTypeOK
<1>6. calls' \in [LifetimeThreads -> Seq(CallTypes)] BY <1>3, <1>4 DEF LifetimeTypeOK
<1>7. DOMAIN r = 1 .. n + 1 /\ DOMAIN s = 1 .. n BY <1>1, <1>3
<1>8. SameBut(t, n)
  <2>. HIDE DEF n
  <2>1. \A i \in DOMAIN r : i < n => i \in DOMAIN s /\ r[i] = s[i] BY <1>2, <1>3, <1>7
  <2>2. \A i \in DOMAIN s : i < n => i \in DOMAIN r /\ r[i] = s[i] BY <1>2, <1>3, <1>7
  <2>. QED BY <1>5, <2>1, <2>2 DEF SameBut
<1>. QED BY <1>2, <1>3, <1>5, <1>6, <1>7, <1>8 DEF Top

\* The innermost call of a thread ends.
LEMMA Left ==
  ASSUME LifetimeTypeOK, NEW t \in LifetimeThreads, calls[t] # <<>>, Leave(t)
  PROVE  LET n == Len(calls[t]) IN
         /\ calls' \in [LifetimeThreads -> Seq(CallTypes)] /\ n \in Nat /\ n >= 1
         /\ SameBut(t, n) /\ DOMAIN calls'[t] = 1 .. n - 1
         /\ DOMAIN calls[t] = 1 .. n /\ Top(t) = calls[t][n] /\ Top(t) \in CallTypes
<1>. DEFINE s == calls[t]
            n == Len(s)
            r == Front(s)
<1>1. s \in Seq(CallTypes) BY DEF LifetimeTypeOK
<1>2. /\ n \in Nat /\ n >= 1 /\ Last(s) = s[n] /\ Last(s) \in CallTypes /\ r \in Seq(CallTypes)
      /\ Len(r) = n - 1 /\ \A i \in 1 .. n - 1 : r[i] = s[i]
  BY <1>1, FrontIs
<1>4. calls' = [calls EXCEPT ![t] = r] BY DEF Leave
<1>. HIDE DEF r
<1>5. calls'[t] = r /\ \A u \in LifetimeThreads : u # t => calls'[u] = calls[u]
  BY <1>4 DEF LifetimeTypeOK
<1>6. calls' \in [LifetimeThreads -> Seq(CallTypes)] BY <1>2, <1>4 DEF LifetimeTypeOK
<1>7. DOMAIN r = 1 .. n - 1 /\ DOMAIN s = 1 .. n BY <1>1, <1>2
<1>8. SameBut(t, n)
  <2>. HIDE DEF n
  <2>1. \A i \in DOMAIN r : i < n => i \in DOMAIN s /\ r[i] = s[i] BY <1>2, <1>7
  <2>2. \A i \in DOMAIN s : i < n => i \in DOMAIN r /\ r[i] = s[i] BY <1>2, <1>7
  <2>. QED BY <1>5, <2>1, <2>2 DEF SameBut
<1>. QED BY <1>2, <1>5, <1>6, <1>7, <1>8 DEF Top

\* What a call has.
LEMMA CallFields ==
  ASSUME NEW c \in CallTypes
  PROVE  /\ c.on \in Lifetimes /\ c.do \in {"add", "erase", "take", "run"}
         /\ c.do = "run" => c.left \in Seq(Items)
         /\ c.do \in {"add", "erase"} => c.item \in Items
  BY DEF CallTypes

\* What the items of maps are, and where they are kept.
LEMMA ItemsAre ==
  /\ \A x \in Items : /\ Home(x) \in Lifetimes /\ x.kind \in {"user", "end", "detach"}
                      /\ x.kind = "user" => x.of \in Actions /\ x = User(x.of)
                      /\ x.kind = "end" => x.of \in Nested /\ x = EndOf(x.of)
                      /\ x.kind = "detach" => x.of \in Nested /\ x = Detach(x.of)
  /\ \A a \in Actions : User(a) \in Items /\ Home(User(a)) = Owner[a] /\ User(a).kind = "user" /\ User(a).of = a
  /\ \A m \in Nested : /\ EndOf(m) \in Items /\ Home(EndOf(m)) = Parent[m] /\ EndOf(m).kind = "end" /\ EndOf(m).of = m
                       /\ Detach(m) \in Items /\ Home(Detach(m)) = m /\ Detach(m).kind = "detach" /\ Detach(m).of = m
  BY LifetimeAssumption DEF Items, Nested, Home, User, EndOf, Detach

\* The stacks have types.
LEMMA OnStacks ==
  ASSUME LifetimeTypeOK, NEW t \in LifetimeThreads
  PROVE  /\ calls[t] \in Seq(CallTypes) /\ Len(calls[t]) \in Nat /\ DOMAIN calls[t] = 1 .. Len(calls[t])
         /\ \A i \in DOMAIN calls[t] : calls[t][i] \in CallTypes
<1>1. calls[t] \in Seq(CallTypes) BY DEF LifetimeTypeOK
<1>. QED BY <1>1

\* What only grows.
LifeGrows ==
  /\ \A l \in Lifetimes : terminated[l] => terminated'[l] /\ (actions[l] = <<>> => actions'[l] = <<>>)
  /\ \A i \in DOMAIN accepted : i \in DOMAIN accepted' /\ accepted'[i] = accepted[i]
  /\ given \subseteq given' /\ nested \subseteq nested' /\ terminating \subseteq terminating'

\* What was accepted, in which order, and what is known, stays so.
LEMMA LifeStays ==
  ASSUME LifeGrows
  PROVE  /\ \A x : Accepted(x) => Accepted(x)'
         /\ \A x, y : Before(x, y) => Before(x, y)'
         /\ \A q, l : KeptFor(q, l) => KeptFor(q, l)'
         /\ \A x : Known(x) => Known(x)'
<1>1. \A x : Accepted(x) => Accepted(x)' BY DEF LifeGrows, Accepted
<1>2. \A x, y : Before(x, y) => Before(x, y)' BY DEF LifeGrows, Before
<1>3. \A q, l : KeptFor(q, l) => KeptFor(q, l)' BY <1>1, <1>2 DEF KeptFor
<1>4. \A x : Known(x) => Known(x)' BY <1>1 DEF Known, LifeGrows
<1>. QED BY <1>1, <1>2, <1>3, <1>4

\* A call that fits goes on to fit.
LEMMA FitsStays ==
  ASSUME LifeGrows, NEW c \in CallTypes, CallFits(c)
  PROVE  CallFits(c)'
<1>1. c.on \in Lifetimes /\ (c.do = "erase" => c.item \in Items) BY CallFields
<1>2. c.do = "erase" => c.item.of \in Lifetimes /\ terminated[c.item.of]
  BY <1>1, ItemsAre DEF CallFits, Nested
<1>3. c.do = "erase" => terminated'[c.item.of] BY <1>2 DEF LifeGrows
<1>4. c.do \in {"take", "run"} => terminated'[c.on] BY <1>1 DEF CallFits, LifeGrows
<1>5. c.do = "run" => actions'[c.on] = <<>> /\ KeptFor(c.left, c.on)'
  BY <1>1, LifeStays DEF CallFits, LifeGrows
<1>. QED BY <1>3, <1>4, <1>5 DEF CallFits

\* The calls that did not change fit as before.
LEMMA CallsStayFit ==
  ASSUME LifetimeTypeOK, LifeGrows, CallsFit, NEW t \in LifetimeThreads, NEW n \in Nat, SameBut(t, n),
         \A i \in DOMAIN calls'[t] : i < n \/ CallFits(calls[t][i])'
  PROVE  CallsFit'
<1>. SUFFICES ASSUME NEW u \in LifetimeThreads, NEW i \in DOMAIN calls'[u] PROVE CallFits(calls[u][i])'
  BY DEF CallsFit
<1>1. CASE u # t \/ i < n
  <2>1. i \in DOMAIN calls[u] /\ calls'[u][i] = calls[u][i] BY <1>1 DEF SameBut
  <2>2. PICK c : c = calls[u][i] OBVIOUS
  <2>3. c \in CallTypes /\ CallFits(c) BY <2>1, <2>2, OnStacks DEF CallsFit
  <2>4. CallFits(c)' BY <2>3, FitsStays
  <2>. QED BY <2>1, <2>2, <2>4 DEF CallFits
<1>. QED BY <1>1

\* Only one call still runs the items of its lifetime.
LEMMA OneStillRuns ==
  ASSUME OneRuns, NEW t \in LifetimeThreads, NEW n \in Nat, SameBut(t, n),
         \A i \in DOMAIN calls'[t] : (i >= n /\ Full(calls'[t][i])) =>
           /\ i = n
           /\ \A u \in LifetimeThreads : \A j \in DOMAIN calls[u] :
                Full(calls[u][j]) /\ calls[u][j].on = calls'[t][i].on => u = t /\ j = n,
         \A u \in LifetimeThreads : DOMAIN calls'[u] \subseteq Nat
  PROVE  OneRuns'
<1>. SUFFICES ASSUME NEW u \in LifetimeThreads, NEW v \in LifetimeThreads,
                     NEW i \in DOMAIN calls'[u], NEW j \in DOMAIN calls'[v],
                     Full(calls'[u][i]), Full(calls'[v][j]), calls'[u][i].on = calls'[v][j].on
              PROVE  u = v /\ i = j
  BY DEF OneRuns, Full
<1>1. CASE (u # t \/ i < n) /\ (v # t \/ j < n)
  <2>1. i \in DOMAIN calls[u] /\ calls'[u][i] = calls[u][i] BY <1>1 DEF SameBut
  <2>2. j \in DOMAIN calls[v] /\ calls'[v][j] = calls[v][j] BY <1>1 DEF SameBut
  <2>. QED BY <2>1, <2>2 DEF OneRuns
<1>2. CASE u = t /\ i >= n /\ ~(v = t /\ j >= n)
  <2>1. j \in DOMAIN calls[v] /\ calls'[v][j] = calls[v][j] BY <1>2 DEF SameBut
  <2>. QED BY <1>2, <2>1
<1>3. CASE v = t /\ j >= n /\ ~(u = t /\ i >= n)
  <2>1. i \in DOMAIN calls[u] /\ calls'[u][i] = calls[u][i] BY <1>3 DEF SameBut
  <2>. QED BY <1>3, <2>1
<1>4. CASE u = t /\ i >= n /\ v = t /\ j >= n BY <1>4
<1>. QED BY <1>1, <1>2, <1>3, <1>4

\* Nobody else adds what is being added, or what nobody knew.
LEMMA StillAddedOnce ==
  ASSUME AddedOnce, LifeGrows, NEW t \in LifetimeThreads, NEW n \in Nat, SameBut(t, n),
         \A u \in LifetimeThreads : DOMAIN calls'[u] \subseteq Nat,
         \A i, j \in DOMAIN accepted' : accepted'[i] = accepted'[j] => i = j,
         \A i \in DOMAIN accepted' : Known(accepted[i])',
         \A x : Accepted(x)' /\ ~Accepted(x) => n \in DOMAIN calls[t] /\ Adding(t, n, x),
         \A i \in DOMAIN calls'[t] : (i >= n /\ calls'[t][i].do = "add") =>
           /\ i = n /\ Known(calls[t][i].item)' /\ ~Accepted(calls[t][i].item)'
           /\ (n \in DOMAIN calls[t] /\ Adding(t, n, calls'[t][i].item)) \/ ~Known(calls'[t][i].item)
  PROVE  AddedOnce'
<1>. SUFFICES ASSUME NEW u \in LifetimeThreads, NEW i \in DOMAIN calls'[u], calls'[u][i].do = "add"
              PROVE  /\ Known(calls[u][i].item)' /\ ~Accepted(calls[u][i].item)'
                     /\ \A v \in LifetimeThreads : \A j \in DOMAIN calls'[v] :
                          Adding(v, j, calls[u][i].item)' => v = u /\ j = i
  BY DEF AddedOnce
<1>. PICK x : x = calls'[u][i].item OBVIOUS
<1>1. CASE u # t \/ i < n
  <2>1. i \in DOMAIN calls[u] /\ calls'[u][i] = calls[u][i] BY <1>1 DEF SameBut
  <2>2. Known(x) /\ ~Accepted(x) /\ calls[u][i].item = x BY <2>1 DEF AddedOnce
  <2>3. \A v \in LifetimeThreads : \A j \in DOMAIN calls[v] : Adding(v, j, x) => v = u /\ j = i
    BY <2>1, <2>2 DEF AddedOnce
  <2>4. ~Accepted(x)' BY <1>1, <2>2, <2>3
  <2>5. ASSUME NEW v \in LifetimeThreads, NEW j \in DOMAIN calls'[v], Adding(v, j, x)' PROVE v = u /\ j = i
    <3>1. CASE v # t \/ j < n
      <4>1. j \in DOMAIN calls[v] /\ calls'[v][j] = calls[v][j] BY <3>1 DEF SameBut
      <4>2. Adding(v, j, x) BY <2>5, <4>1 DEF Adding
      <4>. QED BY <2>3, <4>1, <4>2
    <3>2. CASE v = t /\ j >= n
      <4>1. calls'[t][j].do = "add" /\ calls'[t][j].item = x BY <2>5, <3>2 DEF Adding
      <4>2. j = n /\ ((n \in DOMAIN calls[t] /\ Adding(t, n, x)) \/ ~Known(x)) BY <3>2, <4>1
      <4>. QED BY <2>2, <2>3, <3>2, <4>2
    <3>. QED BY <3>1, <3>2
  <2>6. Known(x)' BY <2>2, LifeStays
  <2>. QED BY <2>4, <2>5, <2>6
<1>2. CASE u = t /\ i >= n
  <2>1. /\ i = n /\ Known(x)' /\ ~Accepted(x)'
        /\ (n \in DOMAIN calls[t] /\ Adding(t, n, x)) \/ ~Known(x)
    BY <1>2
  <2>2. ASSUME NEW v \in LifetimeThreads, NEW j \in DOMAIN calls'[v], Adding(v, j, x)' PROVE v = u /\ j = i
    <3>1. CASE v # t \/ j < n
      <4>1. j \in DOMAIN calls[v] /\ calls'[v][j] = calls[v][j] BY <3>1 DEF SameBut
      <4>2. Adding(v, j, x) /\ calls[v][j].do = "add" /\ calls[v][j].item = x BY <2>2, <4>1 DEF Adding
      <4>3. Known(x) BY <4>1, <4>2 DEF AddedOnce
      <4>4. n \in DOMAIN calls[t] /\ Adding(t, n, x) BY <2>1, <4>3
      <4>5. t = v /\ n = j BY <4>1, <4>2, <4>4 DEF AddedOnce
      <4>. QED BY <1>2, <2>1, <4>5
    <3>2. CASE v = t /\ j >= n
      <4>1. calls'[t][j].do = "add" BY <2>2, <3>2 DEF Adding
      <4>. QED BY <1>2, <2>1, <3>2, <4>1
    <3>. QED BY <3>1, <3>2
  <2>. QED BY <2>1, <2>2
<1>. QED BY <1>1, <1>2

\* Ends that were called in their turn were, and still are.
LEMMA StillInTurn ==
  ASSUME EndedInTurn, LifeGrows, NEW t \in LifetimeThreads, NEW n \in Nat, SameBut(t, n),
         LifetimeTypeOK, LifetimeTypeOK',
         \A x, y : Accepted(y) /\ Before(x, y)' => Before(x, y),
         \A i \in DOMAIN calls'[t] : (i >= n /\ calls'[t][i].do \in {"take", "run"}) =>
           \/ i = n /\ n \in DOMAIN calls[t] /\ calls[t][n].do \in {"take", "run"} /\ calls[t][n].on = calls'[t][i].on
           \/ OnItsOwn(calls[t][i].on)' \/ InTurn(t, i, calls[t][i].on)'
  PROVE  EndedInTurn'
<1>. SUFFICES ASSUME NEW u \in LifetimeThreads, NEW i \in DOMAIN calls'[u], calls'[u][i].do \in {"take", "run"}
              PROVE  OnItsOwn(calls[u][i].on)' \/ InTurn(u, i, calls[u][i].on)'
  BY DEF EndedInTurn
<1>. PICK m : m = calls'[u][i].on OBVIOUS
<1>1. CASE i \in DOMAIN calls[u] /\ (u # t \/ i < n \/ i = n) /\ calls[u][i].do \in {"take", "run"} /\ calls[u][i].on = m
  <2>1. OnItsOwn(m) \/ InTurn(u, i, m) BY <1>1 DEF EndedInTurn
  <2>2. OnItsOwn(m) => OnItsOwn(m)' BY DEF OnItsOwn, LifeGrows
  <2>3. ASSUME InTurn(u, i, m) PROVE InTurn(u, i, m)'
    <3>1. Accepted(EndOf(m)) /\ Accepted(EndOf(m))' BY <2>3, LifeStays DEF InTurn
    <3>2. i > 1 /\ i \in Nat /\ i - 1 \in DOMAIN calls[u] BY <1>1, <2>3, OnStacks DEF InTurn
    <3>3. calls'[u][i - 1] = calls[u][i - 1]
      <4>1. u # t \/ i - 1 < n BY <1>1, <3>2
      <4>. QED BY <3>2, <4>1 DEF SameBut
    <3>4. \A a \in Actions : Before(User(a), EndOf(m))' => Before(User(a), EndOf(m)) BY <3>1
    <3>. QED BY <2>3, <3>1, <3>3, <3>4 DEF InTurn
  <2>. QED BY <2>1, <2>2, <2>3
<1>2. CASE u # t \/ i < n
  <2>1. i \in DOMAIN calls[u] /\ calls'[u][i] = calls[u][i] BY <1>2 DEF SameBut
  <2>. QED BY <1>1, <1>2, <2>1
<1>3. CASE u = t /\ ~(i < n)
  <2>1. i >= n
    <3>1. calls'[t] \in Seq(CallTypes) BY DEF LifetimeTypeOK
    <3>2. i \in Nat BY <1>3, <3>1
    <3>. QED BY <1>3, <3>2
  <2>. QED BY <1>1, <1>3, <2>1
<1>. QED BY <1>2, <1>3
-----------------------------------------------------------------------------
\* Is x about to be run by a call that stays as it is, or by one of t from the
\* n-th on?
RunElsewhere(t, n, x) ==
  \E u \in LifetimeThreads : \E i \in DOMAIN calls[u] :
    (u # t \/ i < n) /\ calls[u][i].do = "run" /\ Contains(calls[u][i].left, x)
RunHere(t, n, x) ==
  \E i \in DOMAIN calls[t] : ~(i < n) /\ calls[t][i].do = "run" /\ Contains(calls[t][i].left, x)

\* What waits, does so in its map, in a call that stays or in one that may change.
LEMMA WaitingIs ==
  ASSUME NEW t \in LifetimeThreads, NEW n, SameBut(t, n), NEW x
  PROVE  /\ Waiting(x) <=> Contains(actions[Home(x)], x) \/ RunElsewhere(t, n, x) \/ RunHere(t, n, x)
         /\ Waiting(x)' <=> Contains(actions'[Home(x)], x) \/ RunElsewhere(t, n, x) \/ RunHere(t, n, x)'
<1>1. Waiting(x) <=> Contains(actions[Home(x)], x) \/ RunElsewhere(t, n, x) \/ RunHere(t, n, x)
  BY DEF Waiting, WillRun, RunElsewhere, RunHere
<1>2. Waiting(x)' <=> Contains(actions'[Home(x)], x) \/ RunElsewhere(t, n, x)' \/ RunHere(t, n, x)'
  BY DEF Waiting, WillRun, RunElsewhere, RunHere
<1>3. RunElsewhere(t, n, x)' <=> RunElsewhere(t, n, x) BY DEF RunElsewhere, SameBut
<1>. QED BY <1>1, <1>2, <1>3

\* What was said of the past still is when nothing is added and no action of a user runs.
LEMMA HistoryKept ==
  ASSUME LifetimeTypeOK, LifeGrows, RanRight, NoneLost, InReverse, EndCalled,
         accepted' = accepted, ran' = ran,
         \A x \in Items : Waiting(x)' => Waiting(x),
         \A a \in Actions : Waiting(User(a)) => Waiting(User(a))',
         \A m \in Nested : Waiting(EndOf(m)) => Waiting(EndOf(m))' \/ terminated'[m]
  PROVE  RanRight' /\ NoneLost' /\ InReverse' /\ EndCalled'
<1>1. \A i \in DOMAIN ran : ran[i] \in Actions /\ Owner[ran[i]] \in Lifetimes /\ User(ran[i]) \in Items
  BY LifetimeAssumption, ItemsAre DEF LifetimeTypeOK
<1>2. /\ \A x : Accepted(x)' <=> Accepted(x)
      /\ \A x, y : Before(x, y)' <=> Before(x, y)
      /\ \A a : Ran(a)' <=> Ran(a)
  BY DEF Accepted, Before, Ran
<1>3. RanRight'
  <2>1. ASSUME NEW i \in DOMAIN ran'
        PROVE  terminated'[Owner[ran'[i]]] /\ Accepted(User(ran[i]))' /\ ~Waiting(User(ran[i]))'
    <3>1. i \in DOMAIN ran /\ ran'[i] = ran[i] OBVIOUS
    <3>2. PICK a : a = ran[i] OBVIOUS
    <3>3. a \in Actions /\ Owner[a] \in Lifetimes /\ User(a) \in Items BY <1>1, <3>1, <3>2
    <3>4. terminated[Owner[a]] /\ Accepted(User(a)) /\ ~Waiting(User(a)) BY <3>1, <3>2 DEF RanRight
    <3>5. terminated'[Owner[a]] BY <3>3, <3>4 DEF LifeGrows
    <3>6. Accepted(User(a))' /\ ~Waiting(User(a))' BY <1>2, <3>3, <3>4
    <3>7. a = ran'[i] BY <3>1, <3>2
    <3>. QED BY <3>5, <3>6, <3>7
  <2>2. \A i, j \in DOMAIN ran' : ran'[i] = ran'[j] => i = j BY DEF RanRight
  <2>. QED BY <2>1, <2>2 DEF RanRight
<1>4. NoneLost' BY <1>2 DEF NoneLost
<1>5. InReverse' BY <1>2 DEF InReverse
<1>6. EndCalled'
  <2>1. ASSUME NEW m \in Nested, Accepted(EndOf(m))', ~OnItsOwn(m)', ~Waiting(EndOf(m))' PROVE terminated'[m]
    <3>1. ~OnItsOwn(m) BY <2>1 DEF OnItsOwn, LifeGrows
    <3>2. Accepted(EndOf(m)) BY <1>2, <2>1
    <3>3. m \in Lifetimes BY DEF Nested
    <3>4. terminated[m] => terminated'[m] BY <3>3 DEF LifeGrows
    <3>. QED BY <2>1, <3>1, <3>2, <3>4 DEF EndCalled
  <2>. QED BY <2>1 DEF EndCalled
<1>. QED BY <1>3, <1>4, <1>5, <1>6

\* Likewise when an action runs that waited with nothing of its lifetime behind it.
LEMMA HistoryRan ==
  ASSUME LifetimeTypeOK, RanRight, NoneLost, InReverse, EndCalled, AddedOnce,
         NEW b \in Actions, Waiting(User(b)), Accepted(User(b)), terminated[Owner[b]],
         \A x \in Items : Before(User(b), x) /\ Home(x) = Owner[b] => ~Waiting(x),
         \A x \in Items : Waiting(x)' <=> Waiting(x) /\ x # User(b),
         accepted' = accepted, ran' = Append(ran, b), terminated' = terminated, terminating' = terminating
  PROVE  RanRight' /\ NoneLost' /\ InReverse' /\ EndCalled'
<1>1. ran \in Seq(Actions) BY DEF LifetimeTypeOK
<1>2. PICK n : n = Len(ran) /\ n \in Nat BY <1>1
<1>3. /\ DOMAIN ran = 1 .. n /\ DOMAIN ran' = 1 .. n + 1 /\ ran'[n + 1] = b
      /\ \A i \in 1 .. n : ran'[i] = ran[i] /\ ran[i] \in Actions
  BY <1>1, <1>2
<1>4. \A i \in 1 .. n + 1 : i = n + 1 \/ i \in 1 .. n BY <1>2
<1>5. /\ \A x : Accepted(x)' <=> Accepted(x)
      /\ \A x, y : Before(x, y)' <=> Before(x, y)
  BY DEF Accepted, Before
<1>6. \A a : Ran(a)' <=> Ran(a) \/ a = b
  <2>1. \A i \in 1 .. n : i \in 1 .. n + 1 BY <1>2
  <2>2. n + 1 \in 1 .. n + 1 BY <1>2
  <2>. QED BY <1>3, <1>4, <2>1, <2>2 DEF Ran
<1>7. ~Ran(b) BY <1>3 DEF RanRight, Ran
<1>8. RanRight'
  <2>1. ASSUME NEW i \in 1 .. n + 1, NEW j \in 1 .. n + 1, ran'[i] = ran'[j] PROVE i = j
    <3>1. \A k \in 1 .. n : ran'[k] # b BY <1>3, <1>7 DEF Ran
    <3>2. CASE i = n + 1 BY <1>3, <1>4, <2>1, <3>1, <3>2
    <3>3. CASE j = n + 1 BY <1>3, <1>4, <2>1, <3>1, <3>3
    <3>4. CASE i \in 1 .. n /\ j \in 1 .. n BY <1>3, <2>1, <3>4 DEF RanRight
    <3>. QED BY <1>4, <3>2, <3>3, <3>4
  <2>2. ASSUME NEW i \in 1 .. n + 1, NEW a, a = ran'[i]
        PROVE  terminated'[Owner[a]] /\ Accepted(User(a))' /\ ~Waiting(User(a))'
    <3>1. CASE i = n + 1
      <4>1. a = b BY <1>3, <2>2, <3>1
      <4>. QED BY <1>5, <4>1, ItemsAre
    <3>2. CASE i \in 1 .. n
      <4>1. a = ran[i] /\ a \in Actions BY <1>3, <2>2, <3>2
      <4>2. terminated[Owner[a]] /\ Accepted(User(a)) /\ ~Waiting(User(a)) BY <1>3, <3>2, <4>1 DEF RanRight
      <4>. QED BY <1>5, <4>1, <4>2, ItemsAre
    <3>. QED BY <1>4, <3>1, <3>2
  <2>3. \A i \in DOMAIN ran' : /\ terminated'[Owner[ran'[i]]] /\ Accepted(User(ran[i]))'
                               /\ ~Waiting(User(ran[i]))'
    BY <1>3, <2>2
  <2>. QED BY <1>3, <2>1, <2>3 DEF RanRight
<1>9. NoneLost'
  <2>1. ASSUME NEW a \in Actions, Accepted(User(a)) PROVE Ran(a)' \/ Waiting(User(a))'
    <3>1. Ran(a) \/ Waiting(User(a)) BY <2>1 DEF NoneLost
    <3>2. User(a) = User(b) => a = b BY DEF User
    <3>. QED BY <1>6, <3>1, <3>2, ItemsAre
  <2>. QED BY <1>5, <2>1 DEF NoneLost
<1>10. InReverse'
  <2>1. ASSUME NEW a \in Actions, Ran(a) \/ a = b, NEW x \in Items, Before(User(a), x), Home(x) = Owner[a]
        PROVE  ~Waiting(x)'
    BY <2>1 DEF InReverse
  <2>. QED BY <1>5, <1>6, <2>1 DEF InReverse
<1>11. EndCalled'
  <2>1. \A m \in Nested : EndOf(m) \in Items /\ EndOf(m) # User(b) BY ItemsAre DEF EndOf, User
  <2>2. \A m \in Nested : OnItsOwn(m)' <=> OnItsOwn(m) BY DEF OnItsOwn
  <2>. QED BY <1>5, <2>1, <2>2 DEF EndCalled
<1>. QED BY <1>8, <1>9, <1>10, <1>11

\* Likewise when an item is added to a lifetime that is not terminated.
LEMMA HistoryAdded ==
  ASSUME LifetimeTypeOK, RanRight, NoneLost, InReverse, EndCalled,
         NEW y \in Items, ~Accepted(y), ~terminated[Home(y)],
         \A x \in Items : Waiting(x)' <=> Waiting(x) \/ x = y,
         accepted' = Append(accepted, y), ran' = ran, terminated' = terminated, terminating' = terminating
  PROVE  RanRight' /\ NoneLost' /\ InReverse' /\ EndCalled'
<1>1. accepted \in Seq(Items) BY DEF LifetimeTypeOK
<1>2. PICK n : n = Len(accepted) /\ n \in Nat BY <1>1
<1>3. /\ DOMAIN accepted = 1 .. n /\ DOMAIN accepted' = 1 .. n + 1 /\ accepted'[n + 1] = y
      /\ \A i \in 1 .. n : accepted'[i] = accepted[i]
  BY <1>1, <1>2
<1>4. \A x : Accepted(x)' <=> Accepted(x) \/ x = y
  <2>1. \A i \in 1 .. n + 1 : i = n + 1 \/ i \in 1 .. n BY <1>2
  <2>2. \A i \in 1 .. n : i \in 1 .. n + 1 BY <1>2
  <2>3. n + 1 \in 1 .. n + 1 BY <1>2
  <2>. QED BY <1>3, <2>1, <2>2, <2>3 DEF Accepted
<1>5. ASSUME NEW x, NEW z, z # y, Before(x, z)' PROVE Before(x, z)
  <2>1. PICK i \in 1 .. n + 1, j \in 1 .. n + 1 : i < j /\ accepted'[i] = x /\ accepted'[j] = z
    BY <1>3, <1>5 DEF Before
  <2>2. j # n + 1 BY <1>3, <1>5, <2>1
  <2>3. i \in 1 .. n /\ j \in 1 .. n BY <1>2, <2>1, <2>2
  <2>. QED BY <1>3, <2>1, <2>3 DEF Before
<1>6. \A a : Ran(a)' <=> Ran(a) BY DEF Ran
<1>7. \A i \in DOMAIN ran : ran[i] \in Actions /\ User(ran[i]) \in Items /\ User(ran[i]) # y
  BY ItemsAre DEF LifetimeTypeOK, RanRight
<1>8. RanRight'
  <2>1. ASSUME NEW i \in DOMAIN ran'
        PROVE  terminated'[Owner[ran'[i]]] /\ Accepted(User(ran[i]))' /\ ~Waiting(User(ran[i]))'
    <3>1. PICK a : a = ran[i] OBVIOUS
    <3>2. i \in DOMAIN ran /\ ran'[i] = a BY <3>1
    <3>3. terminated[Owner[a]] /\ Accepted(User(a)) /\ ~Waiting(User(a)) BY <3>1, <3>2 DEF RanRight
    <3>4. User(a) \in Items /\ User(a) # y BY <1>7, <3>1, <3>2
    <3>5. Accepted(User(a))' /\ ~Waiting(User(a))' BY <1>4, <3>3, <3>4
    <3>. QED BY <3>2, <3>3, <3>5
  <2>2. \A i, j \in DOMAIN ran' : ran'[i] = ran'[j] => i = j BY DEF RanRight
  <2>. QED BY <2>1, <2>2 DEF RanRight
<1>9. NoneLost'
  <2>1. \A a \in Actions : User(a) \in Items BY ItemsAre
  <2>. QED BY <1>4, <1>6, <2>1 DEF NoneLost
<1>10. InReverse'
  <2>1. ASSUME NEW a \in Actions, Ran(a), NEW x \in Items, Before(User(a), x)', Home(x) = Owner[a]
        PROVE  ~Waiting(x)'
    <3>1. terminated[Owner[a]] BY <2>1 DEF Ran, RanRight
    <3>2. x # y BY <2>1, <3>1
    <3>3. Before(User(a), x) BY <1>5, <2>1, <3>2
    <3>. QED BY <2>1, <3>2, <3>3 DEF InReverse
  <2>. QED BY <1>6, <2>1 DEF InReverse
<1>11. EndCalled'
  <2>1. \A m \in Nested : EndOf(m) \in Items BY ItemsAre
  <2>2. \A m \in Nested : OnItsOwn(m)' <=> OnItsOwn(m) BY DEF OnItsOwn
  <2>. QED BY <1>4, <2>1, <2>2 DEF EndCalled
<1>. QED BY <1>8, <1>9, <1>10, <1>11

\* Whoever was to take the actions of a lifetime still is.
LEMMA StillFetched ==
  ASSUME Fetched, NEW t \in LifetimeThreads, NEW n, SameBut(t, n),
         \A l \in Lifetimes : terminated'[l] /\ actions'[l] # <<>> =>
           \/ WillTake(l)'
           \/ /\ terminated[l] /\ actions[l] # <<>>
              /\ \A i \in DOMAIN calls[t] : ~(i < n) /\ calls[t][i].do = "take" => calls[t][i].on # l
  PROVE  Fetched'
<1>. SUFFICES ASSUME NEW l \in Lifetimes, terminated'[l], actions'[l] # <<>>, ~WillTake(l)' PROVE FALSE
  BY DEF Fetched
<1>1. WillTake(l) BY DEF Fetched
<1>2. PICK u \in LifetimeThreads : \E i \in DOMAIN calls[u] : calls[u][i].do = "take" /\ calls[u][i].on = l
  BY <1>1 DEF WillTake
<1>3. PICK i \in DOMAIN calls[u] : calls[u][i].do = "take" /\ calls[u][i].on = l BY <1>2
<1>4. u # t \/ i < n BY <1>3
<1>5. i \in DOMAIN calls'[u] /\ calls'[u][i] = calls[u][i] BY <1>4 DEF SameBut
<1>. QED BY <1>3, <1>5 DEF WillTake

\* What holds after a step that leaves maps, history and what calls have to run.
LEMMA QuietStep ==
  ASSUME LifetimeInv, LifeGrows, NEW t \in LifetimeThreads, NEW n, SameBut(t, n),
         actions' = actions, accepted' = accepted, ran' = ran,
         \A x \in Items : RunHere(t, n, x)' <=> RunHere(t, n, x)
  PROVE  InMaps' /\ RanRight' /\ NoneLost' /\ InReverse' /\ EndCalled'
<1>1. \A x \in Items : Waiting(x)' <=> Waiting(x) BY WaitingIs
<1>2. \A a \in Actions : User(a) \in Items BY ItemsAre
<1>3. \A m \in Nested : EndOf(m) \in Items BY ItemsAre
<1>4. RanRight' /\ NoneLost' /\ InReverse' /\ EndCalled' BY <1>1, <1>2, <1>3, HistoryKept DEF LifetimeInv
<1>5. InMaps' BY LifeStays DEF InMaps, LifetimeInv
<1>. QED BY <1>4, <1>5
-----------------------------------------------------------------------------
\* The stacks have the numbers of their calls for a domain.
LEMMA Numbers ==
  ASSUME NEW S, NEW f \in [LifetimeThreads -> Seq(S)]
  PROVE  \A u \in LifetimeThreads : DOMAIN f[u] \subseteq Nat
<1>. TAKE u \in LifetimeThreads
<1>1. f[u] \in Seq(S) OBVIOUS
<1>. QED BY <1>1

\* add_action, bracket or create_nested begins.
LEMMA BeginAdding ==
  ASSUME LifetimeInv, NEW t \in LifetimeThreads, NEW x \in Items, calls[t] = <<>>,
         Call(t, AddCall(Home(x), x)), ~Known(x), Known(x)',
         given \subseteq given', nested \subseteq nested', given' \subseteq Actions, nested' \subseteq Nested,
         UNCHANGED <<terminated, actions, terminating, accepted, ran>>
  PROVE  LifetimeInv'
<1>1. PICK c : c = AddCall(Home(x), x) OBVIOUS
<1>2. c \in CallTypes /\ c.do = "add" /\ c.on = Home(x) /\ c.item = x
  BY <1>1, ItemsAre DEF CallTypes, AddCall
<1>3. /\ calls' \in [LifetimeThreads -> Seq(CallTypes)]
      /\ SameBut(t, 1) /\ DOMAIN calls'[t] = {1} /\ calls'[t][1] = c /\ DOMAIN calls[t] = {}
  BY <1>1, <1>2, Begun DEF LifetimeInv
<1>4. LifetimeTypeOK' BY <1>3 DEF LifetimeTypeOK, LifetimeInv
<1>5. LifeGrows BY DEF LifeGrows
<1>6. \A u \in LifetimeThreads : DOMAIN calls'[u] \subseteq Nat BY <1>3, Numbers
<1>7. \A z : Accepted(z)' <=> Accepted(z) BY DEF Accepted
<1>8. ~Accepted(x) BY DEF Accepted, AddedOnce, LifetimeInv
<1>9. AddedOnce'
  <2>1. \A i, j \in DOMAIN accepted' : accepted'[i] = accepted'[j] => i = j BY DEF AddedOnce, LifetimeInv
  <2>2. \A i \in DOMAIN accepted' : Known(accepted[i])' BY <1>5, LifeStays DEF AddedOnce, LifetimeInv
  <2>3. \A i \in DOMAIN calls'[t] : (i >= 1 /\ calls'[t][i].do = "add") =>
           /\ i = 1 /\ Known(calls[t][i].item)' /\ ~Accepted(calls[t][i].item)' /\ ~Known(calls'[t][i].item)
    <3>. SUFFICES ASSUME NEW i \in DOMAIN calls'[t]
                  PROVE  i = 1 /\ Known(calls[t][i].item)' /\ ~Accepted(calls[t][i].item)' /\ ~Known(calls'[t][i].item)
      OBVIOUS
    <3>1. i = 1 /\ calls'[t][i].item = x BY <1>2, <1>3
    <3>2. Known(calls[t][i].item)' BY <3>1
    <3>3. ~Accepted(calls[t][i].item)' BY <1>7, <1>8, <3>1
    <3>. QED BY <3>1, <3>2, <3>3
  <2>4. \A z : ~(Accepted(z)' /\ ~Accepted(z)) BY <1>7
  <2>5. AddedOnce BY DEF LifetimeInv
  <2>. QED BY <1>3, <1>5, <1>6, <2>1, <2>2, <2>3, <2>4, <2>5, StillAddedOnce
<1>10. CallsFit'
  <2>1. \A i \in DOMAIN calls'[t] : CallFits(calls[t][i])'
    <3>. TAKE i \in DOMAIN calls'[t]
    <3>1. calls'[t][i] = c BY <1>3
    <3>. QED BY <1>2, <3>1 DEF CallFits
  <2>. QED BY <1>3, <1>5, <2>1, CallsStayFit DEF LifetimeInv
<1>11. OneRuns'
  <2>1. \A i \in DOMAIN calls'[t] : ~Full(calls'[t][i]) BY <1>2, <1>3 DEF Full
  <2>. QED BY <1>3, <1>6, <2>1, OneStillRuns DEF LifetimeInv
<1>12. Fetched' BY <1>3, StillFetched DEF LifetimeInv
<1>13. EndedInTurn'
  <2>1. \A i \in DOMAIN calls'[t] : ~(calls'[t][i].do \in {"take", "run"}) BY <1>2, <1>3
  <2>2. \A z, y : Before(z, y)' => Before(z, y) BY DEF Before
  <2>. QED BY <1>3, <1>4, <1>5, <2>1, <2>2, StillInTurn DEF LifetimeInv
<1>14. \A z \in Items : RunHere(t, 1, z)' <=> RunHere(t, 1, z) BY <1>2, <1>3 DEF RunHere
<1>15. InMaps' /\ RanRight' /\ NoneLost' /\ InReverse' /\ EndCalled' BY <1>3, <1>5, <1>14, QuietStep
<1>. QED BY <1>4, <1>9, <1>10, <1>11, <1>12, <1>13, <1>15 DEF LifetimeInv

\* add_action and bracket begin.
LEMMA AddActionKeeps ==
  ASSUME LifetimeInv, NEW t \in LifetimeThreads, NEW a \in Actions, AddAction(t, a) \/ Bracket(t, a)
  PROVE  LifetimeInv'
<1>1. /\ calls[t] = <<>> /\ a \notin given /\ given' = given \cup {a}
      /\ Call(t, AddCall(Owner[a], User(a)))
      /\ UNCHANGED <<terminated, actions, nested, terminating, accepted, ran>>
  BY DEF AddAction, Bracket, Free
<1>2. /\ User(a) \in Items /\ Home(User(a)) = Owner[a] /\ User(a).kind = "user" /\ User(a).of = a BY ItemsAre
<1>3. ~Known(User(a)) /\ Known(User(a))' BY <1>1, <1>2 DEF Known
<1>4. given' \subseteq Actions /\ nested \subseteq Nested BY <1>1 DEF LifetimeInv, LifetimeTypeOK
<1>. QED BY <1>1, <1>2, <1>3, <1>4, BeginAdding

\* create_nested begins.
LEMMA CreateNestedKeeps ==
  ASSUME LifetimeInv, NEW t \in LifetimeThreads, NEW l \in Lifetimes, CreateNested(t, l)
  PROVE  LifetimeInv'
<1>1. /\ calls[t] = <<>> /\ l \notin nested /\ nested' = nested \cup {l} /\ l \in Nested
      /\ Call(t, AddCall(Parent[l], EndOf(l)))
      /\ UNCHANGED <<terminated, actions, given, terminating, accepted, ran>>
  BY DEF CreateNested, Free, Nested
<1>2. /\ EndOf(l) \in Items /\ Home(EndOf(l)) = Parent[l] /\ EndOf(l).kind = "end" /\ EndOf(l).of = l
  BY <1>1, ItemsAre
<1>3. ~Known(EndOf(l)) /\ Known(EndOf(l))' BY <1>1, <1>2 DEF Known
<1>4. nested' \subseteq Nested /\ given \subseteq Actions BY <1>1 DEF LifetimeInv, LifetimeTypeOK
<1>. QED BY <1>1, <1>2, <1>3, <1>4, BeginAdding

\* terminate begins.
LEMMA TerminateKeeps ==
  ASSUME LifetimeInv, NEW t \in LifetimeThreads, NEW l \in Lifetimes, Terminate(t, l)
  PROVE  LifetimeInv'
<1>1. PICK c : c = TakeCall(l) OBVIOUS
<1>2. c \in CallTypes /\ c.do = "take" /\ c.on = l BY <1>1 DEF CallTypes, TakeCall
<1>3. /\ calls[t] = <<>> /\ Call(t, c) /\ terminating' = terminating \cup {<<t, l>>}
      /\ terminated' = [terminated EXCEPT ![l] = TRUE]
      /\ UNCHANGED <<actions, nested, given, opened, accepted, ran>>
  BY <1>1 DEF Terminate, Free
<1>4. /\ calls' \in [LifetimeThreads -> Seq(CallTypes)]
      /\ SameBut(t, 1) /\ DOMAIN calls'[t] = {1} /\ calls'[t][1] = c /\ DOMAIN calls[t] = {}
  BY <1>2, <1>3, Begun DEF LifetimeInv
<1>5. /\ terminated' \in [Lifetimes -> BOOLEAN] /\ terminated'[l]
      /\ \A m \in Lifetimes : m # l => terminated'[m] = terminated[m]
  BY <1>3 DEF LifetimeTypeOK, LifetimeInv
<1>6. LifetimeTypeOK' BY <1>3, <1>4, <1>5 DEF LifetimeTypeOK, LifetimeInv
<1>7. LifeGrows BY <1>3, <1>5 DEF LifeGrows
<1>8. \A u \in LifetimeThreads : DOMAIN calls'[u] \subseteq Nat BY <1>4, Numbers
<1>9. \A z : Accepted(z)' <=> Accepted(z) BY <1>3 DEF Accepted
<1>10. AddedOnce'
  <2>1. \A i, j \in DOMAIN accepted' : accepted'[i] = accepted'[j] => i = j BY <1>3 DEF AddedOnce, LifetimeInv
  <2>2. \A i \in DOMAIN accepted' : Known(accepted[i])' BY <1>3, <1>7, LifeStays DEF AddedOnce, LifetimeInv
  <2>3. \A i \in DOMAIN calls'[t] : calls'[t][i].do # "add" BY <1>2, <1>4
  <2>5. AddedOnce BY DEF LifetimeInv
  <2>. QED BY <1>4, <1>7, <1>8, <1>9, <2>1, <2>2, <2>3, <2>5, StillAddedOnce
<1>11. CallsFit'
  <2>1. \A i \in DOMAIN calls'[t] : CallFits(calls[t][i])'
    <3>. TAKE i \in DOMAIN calls'[t]
    <3>1. calls'[t][i] = c BY <1>4
    <3>. QED BY <1>2, <1>5, <3>1 DEF CallFits
  <2>. QED BY <1>4, <1>7, <2>1, CallsStayFit DEF LifetimeInv
<1>12. OneRuns'
  <2>1. \A i \in DOMAIN calls'[t] : ~Full(calls'[t][i]) BY <1>2, <1>4 DEF Full
  <2>. QED BY <1>4, <1>8, <2>1, OneStillRuns DEF LifetimeInv
<1>13. Fetched'
  <2>1. WillTake(l)'
    <3>1. calls'[t][1].do = "take" /\ calls'[t][1].on = l /\ 1 \in DOMAIN calls'[t] BY <1>2, <1>4
    <3>. QED BY <3>1 DEF WillTake
  <2>. QED BY <1>3, <1>4, <1>5, <2>1, StillFetched DEF LifetimeInv
<1>14. EndedInTurn'
  <2>1. ASSUME NEW i \in DOMAIN calls'[t] PROVE OnItsOwn(calls[t][i].on)'
    <3>1. calls'[t][i].on = l BY <1>2, <1>4
    <3>. QED BY <1>3, <3>1 DEF OnItsOwn
  <2>2. \A z, y : Before(z, y)' => Before(z, y) BY <1>3 DEF Before
  <2>. QED BY <1>4, <1>6, <1>7, <2>1, <2>2, StillInTurn DEF LifetimeInv
<1>15. \A z \in Items : RunHere(t, 1, z)' <=> RunHere(t, 1, z) BY <1>2, <1>4 DEF RunHere
<1>16. InMaps' /\ RanRight' /\ NoneLost' /\ InReverse' /\ EndCalled' BY <1>3, <1>4, <1>7, <1>15, QuietStep
<1>. QED BY <1>6, <1>10, <1>11, <1>12, <1>13, <1>14, <1>16 DEF LifetimeInv
-----------------------------------------------------------------------------
\* The innermost call of a thread that has one.
LEMMA TopIs ==
  ASSUME LifetimeTypeOK, NEW t \in LifetimeThreads, calls[t] # <<>>
  PROVE  LET n == Len(calls[t]) IN
         n \in Nat /\ n >= 1 /\ DOMAIN calls[t] = 1 .. n /\ Top(t) = calls[t][n] /\ Top(t) \in CallTypes
<1>1. calls[t] \in Seq(CallTypes) BY DEF LifetimeTypeOK
<1>. QED BY <1>1, FrontIs DEF Top

\* A call that gets at its map is otherwise what it was.
LEMMA Entered ==
  ASSUME NEW c \in CallTypes, c.do # "run"
  PROVE  LET d == [c EXCEPT !.inside = TRUE] IN
         /\ d \in CallTypes /\ d.do = c.do /\ d.on = c.on
         /\ c.do \in {"add", "erase"} => d.item = c.item
<1>1. CASE c \in [do : {"add", "erase"}, on : Lifetimes, item : Items, inside : BOOLEAN] BY <1>1 DEF CallTypes
<1>2. CASE c \in [do : {"take"}, on : Lifetimes, inside : BOOLEAN] BY <1>2 DEF CallTypes
<1>. QED BY <1>1, <1>2 DEF CallTypes

\* A thread gets at the map of a lifetime.
LEMMA EnterKeeps ==
  ASSUME LifetimeInv, NEW t \in LifetimeThreads, Enter(t)
  PROVE  LifetimeInv'
<1>1. /\ calls[t] # <<>> /\ Top(t).do # "run" /\ Become(t, [Top(t) EXCEPT !.inside = TRUE])
      /\ UNCHANGED <<terminated, actions, nested, given, terminating, opened, accepted, ran>>
  BY DEF Enter, histVars
<1>2. PICK n : n = Len(calls[t]) OBVIOUS
<1>3. n \in Nat /\ n >= 1 /\ DOMAIN calls[t] = 1 .. n /\ Top(t) = calls[t][n] /\ Top(t) \in CallTypes
  BY <1>1, <1>2, TopIs DEF LifetimeInv
<1>4. PICK c : c = Top(t) OBVIOUS
<1>5. PICK d : d = [c EXCEPT !.inside = TRUE] OBVIOUS
<1>6. /\ d \in CallTypes /\ d.do = c.do /\ d.on = c.on /\ c.do # "run"
      /\ c.do \in {"add", "erase"} => d.item = c.item
  BY <1>1, <1>3, <1>4, <1>5, Entered
<1>7. /\ calls' \in [LifetimeThreads -> Seq(CallTypes)]
      /\ SameBut(t, n) /\ DOMAIN calls'[t] = 1 .. n /\ calls'[t][n] = d
  BY <1>1, <1>2, <1>4, <1>5, <1>6, Became DEF LifetimeInv
<1>8. calls[t][n] = c /\ n \in DOMAIN calls[t] BY <1>3, <1>4
<1>9. \A i \in 1 .. n : i < n \/ i = n BY <1>3
<1>10. LifetimeTypeOK' BY <1>1, <1>7 DEF LifetimeTypeOK, LifetimeInv
<1>11. LifeGrows BY <1>1 DEF LifeGrows
<1>12. \A u \in LifetimeThreads : DOMAIN calls'[u] \subseteq Nat BY <1>7, Numbers
<1>13. \A z : Accepted(z)' <=> Accepted(z) BY <1>1 DEF Accepted
<1>14. AddedOnce'
  <2>1. \A i, j \in DOMAIN accepted' : accepted'[i] = accepted'[j] => i = j BY <1>1 DEF AddedOnce, LifetimeInv
  <2>2. \A i \in DOMAIN accepted' : Known(accepted[i])' BY <1>1, <1>11, LifeStays DEF AddedOnce, LifetimeInv
  <2>3. ASSUME NEW i \in DOMAIN calls'[t], i >= n, calls'[t][i].do = "add"
        PROVE  /\ i = n /\ Known(calls[t][i].item)' /\ ~Accepted(calls[t][i].item)'
               /\ n \in DOMAIN calls[t] /\ Adding(t, n, calls'[t][i].item)
    <3>1. i = n BY <1>3, <1>7, <2>3
    <3>2. calls'[t][i].item = c.item /\ c.do = "add" /\ d.item = c.item BY <1>6, <1>7, <2>3, <3>1
    <3>3. Known(c.item) /\ ~Accepted(c.item) BY <1>8, <3>2 DEF AddedOnce, LifetimeInv
    <3>4. Known(c.item)' BY <1>11, <3>3, LifeStays
    <3>5. Known(calls[t][i].item)' BY <3>2, <3>4
    <3>6. ~Accepted(calls[t][i].item)' BY <1>13, <3>2, <3>3
    <3>. QED BY <1>8, <3>1, <3>2, <3>5, <3>6 DEF Adding
  <2>5. AddedOnce BY DEF LifetimeInv
  <2>. QED BY <1>3, <1>7, <1>11, <1>12, <1>13, <2>1, <2>2, <2>3, <2>5, StillAddedOnce
<1>15. CallsFit'
  <2>1. CallFits(c) BY <1>8 DEF CallsFit, LifetimeInv
  <2>2. CallFits(c)' BY <1>3, <1>4, <1>11, <2>1, FitsStays
  <2>3. c.do \in {"add", "erase", "take", "run"} BY <1>3, <1>4, CallFields
  <2>4. CallFits(d)' BY <1>6, <2>2, <2>3 DEF CallFits
  <2>5. ASSUME NEW i \in DOMAIN calls'[t] PROVE i < n \/ CallFits(calls[t][i])'
    <3>1. i = n => calls'[t][i] = d BY <1>7
    <3>. QED BY <1>7, <1>9, <2>4, <3>1 DEF CallFits
  <2>. QED BY <1>3, <1>7, <1>11, <2>5, CallsStayFit DEF LifetimeInv
<1>16. OneRuns'
  <2>1. \A i \in DOMAIN calls'[t] : i >= n => ~Full(calls'[t][i])
    <3>. SUFFICES ASSUME NEW i \in DOMAIN calls'[t], i >= n PROVE ~Full(calls'[t][i]) OBVIOUS
    <3>1. i = n BY <1>3, <1>7
    <3>. QED BY <1>6, <1>7, <3>1 DEF Full
  <2>. QED BY <1>3, <1>7, <1>12, <2>1, OneStillRuns DEF LifetimeInv
<1>17. Fetched'
  <2>1. ASSUME NEW l \in Lifetimes, terminated'[l], actions'[l] # <<>>
        PROVE  \/ WillTake(l)'
               \/ /\ terminated[l] /\ actions[l] # <<>>
                  /\ \A i \in DOMAIN calls[t] : ~(i < n) /\ calls[t][i].do = "take" => calls[t][i].on # l
    <3>1. CASE c.do = "take" /\ c.on = l
      <4>1. n \in DOMAIN calls'[t] /\ calls'[t][n].do = "take" /\ calls'[t][n].on = l BY <1>3, <1>6, <1>7, <3>1
      <4>. QED BY <4>1 DEF WillTake
    <3>2. CASE ~(c.do = "take" /\ c.on = l) BY <1>1, <1>3, <1>8, <1>9, <2>1, <3>2
    <3>. QED BY <3>1, <3>2
  <2>. QED BY <1>7, <2>1, StillFetched DEF LifetimeInv
<1>18. EndedInTurn'
  <2>1. ASSUME NEW i \in DOMAIN calls'[t], i >= n, calls'[t][i].do \in {"take", "run"}
        PROVE  /\ i = n /\ n \in DOMAIN calls[t] /\ calls[t][n].do \in {"take", "run"}
               /\ calls[t][n].on = calls'[t][i].on
    <3>1. i = n BY <1>3, <1>7, <2>1
    <3>. QED BY <1>6, <1>7, <1>8, <2>1, <3>1
  <2>2. \A z, y : Before(z, y)' => Before(z, y) BY <1>1 DEF Before
  <2>. QED BY <1>3, <1>7, <1>10, <1>11, <2>1, <2>2, StillInTurn DEF LifetimeInv
<1>19. \A z \in Items : RunHere(t, n, z)' <=> RunHere(t, n, z) BY <1>3, <1>6, <1>7, <1>8, <1>9 DEF RunHere
<1>20. InMaps' /\ RanRight' /\ NoneLost' /\ InReverse' /\ EndCalled' BY <1>1, <1>7, <1>11, <1>19, QuietStep
<1>. QED BY <1>10, <1>14, <1>15, <1>16, <1>17, <1>18, <1>20 DEF LifetimeInv

\* A call ends that has nothing left to run and is not to take.
LEMMA LeavingKeeps ==
  ASSUME LifetimeInv, NEW t \in LifetimeThreads, calls[t] # <<>>, Leave(t), Top(t).do # "take", ~Full(Top(t)),
         UNCHANGED <<terminated, actions, nested, given, terminating, accepted, ran>>
  PROVE  LifetimeInv'
<1>2. PICK n : n = Len(calls[t]) OBVIOUS
<1>3. /\ calls' \in [LifetimeThreads -> Seq(CallTypes)] /\ n \in Nat /\ n >= 1
      /\ SameBut(t, n) /\ DOMAIN calls'[t] = 1 .. n - 1
      /\ DOMAIN calls[t] = 1 .. n /\ Top(t) = calls[t][n] /\ Top(t) \in CallTypes
  BY <1>2, Left DEF LifetimeInv
<1>9. \A i \in 1 .. n - 1 : i < n /\ ~(i >= n) BY <1>3
<1>10. LifetimeTypeOK' BY <1>3 DEF LifetimeTypeOK, LifetimeInv
<1>11. LifeGrows BY DEF LifeGrows
<1>12. \A u \in LifetimeThreads : DOMAIN calls'[u] \subseteq Nat BY <1>3, Numbers
<1>13. \A z : Accepted(z)' <=> Accepted(z) BY DEF Accepted
<1>14. AddedOnce'
  <2>1. \A i, j \in DOMAIN accepted' : accepted'[i] = accepted'[j] => i = j BY DEF AddedOnce, LifetimeInv
  <2>2. \A i \in DOMAIN accepted' : Known(accepted[i])' BY <1>11, LifeStays DEF AddedOnce, LifetimeInv
  <2>5. AddedOnce BY DEF LifetimeInv
  <2>. QED BY <1>3, <1>9, <1>11, <1>12, <1>13, <2>1, <2>2, <2>5, StillAddedOnce
<1>15. CallsFit' BY <1>3, <1>9, <1>11, CallsStayFit DEF LifetimeInv
<1>16. OneRuns' BY <1>3, <1>9, <1>12, OneStillRuns DEF LifetimeInv
<1>17. Fetched'
  <2>1. \A i \in DOMAIN calls[t] : ~(i < n) => calls[t][i].do # "take"
    <3>. SUFFICES ASSUME NEW i \in DOMAIN calls[t], ~(i < n) PROVE calls[t][i].do # "take" OBVIOUS
    <3>1. i = n BY <1>3
    <3>. QED BY <1>3, <3>1
  <2>. QED BY <1>3, <2>1, StillFetched DEF LifetimeInv
<1>18. EndedInTurn'
  <2>2. \A z, y : Before(z, y)' => Before(z, y) BY DEF Before
  <2>. QED BY <1>3, <1>9, <1>10, <1>11, <2>2, StillInTurn DEF LifetimeInv
<1>19. ASSUME NEW z \in Items PROVE RunHere(t, n, z)' <=> RunHere(t, n, z)
  <2>1. ~RunHere(t, n, z)' BY <1>3, <1>9 DEF RunHere
  <2>2. ASSUME NEW i \in DOMAIN calls[t], ~(i < n), calls[t][i].do = "run", Contains(calls[t][i].left, z) PROVE FALSE
    <3>1. i = n BY <1>3, <2>2
    <3>2. calls[t][n].left = <<>> BY <1>3, <2>2, <3>1 DEF Full
    <3>3. ~Contains(<<>>, z) BY DEF Contains
    <3>. QED BY <2>2, <3>1, <3>2, <3>3
  <2>. QED BY <2>1, <2>2 DEF RunHere
<1>20. InMaps' /\ RanRight' /\ NoneLost' /\ InReverse' /\ EndCalled' BY <1>3, <1>11, <1>19, QuietStep
<1>. QED BY <1>10, <1>14, <1>15, <1>16, <1>17, <1>18, <1>20 DEF LifetimeInv

\* add_action throws.
LEMMA AddRefusedKeeps ==
  ASSUME LifetimeInv, NEW t \in LifetimeThreads, AddRefused(t)
  PROVE  LifetimeInv'
<1>1. /\ calls[t] # <<>> /\ Top(t).do = "add" /\ Leave(t)
      /\ UNCHANGED <<terminated, actions, nested, given, terminating, accepted, ran>>
  BY DEF AddRefused, Doing, Top, histVars
<1>. QED BY <1>1, LeavingKeeps DEF Full

\* terminate has run all.
LEMMA FinishKeeps ==
  ASSUME LifetimeInv, NEW t \in LifetimeThreads, Finish(t)
  PROVE  LifetimeInv'
<1>1. /\ calls[t] # <<>> /\ Top(t).do = "run" /\ Top(t).left = <<>> /\ Leave(t)
      /\ UNCHANGED <<terminated, actions, nested, given, terminating, accepted, ran>>
  BY DEF Finish, Doing, Top, histVars
<1>. QED BY <1>1, LeavingKeeps DEF Full
-----------------------------------------------------------------------------
\* What is accepted comes last of all.
LEMMA AcceptedLast ==
  ASSUME LifetimeTypeOK, NEW y \in Items, accepted' = Append(accepted, y)
  PROVE  /\ accepted' \in Seq(Items)
         /\ \A i \in DOMAIN accepted : i \in DOMAIN accepted' /\ accepted'[i] = accepted[i]
         /\ \A x : Accepted(x)' <=> Accepted(x) \/ x = y
         /\ \A x : Accepted(x) => Before(x, y)'
         /\ \A x, z : z # y /\ Before(x, z)' => Before(x, z)
         /\ \A i \in DOMAIN accepted' : i \in DOMAIN accepted \/ (accepted'[i] = y /\ i \notin DOMAIN accepted)
         /\ \A i, j \in DOMAIN accepted' : i \notin DOMAIN accepted /\ j \notin DOMAIN accepted => i = j
<1>1. accepted \in Seq(Items) BY DEF LifetimeTypeOK
<1>2. PICK n : n = Len(accepted) /\ n \in Nat BY <1>1
<1>3. /\ accepted' \in Seq(Items)
      /\ DOMAIN accepted = 1 .. n /\ DOMAIN accepted' = 1 .. n + 1 /\ accepted'[n + 1] = y
      /\ \A i \in 1 .. n : accepted'[i] = accepted[i]
  BY <1>1, <1>2
<1>4. \A i \in 1 .. n + 1 : i \in 1 .. n \/ (i = n + 1 /\ i \notin 1 .. n) BY <1>2
<1>5. \A i \in 1 .. n : i \in 1 .. n + 1 /\ i < n + 1 BY <1>2
<1>6. n + 1 \in 1 .. n + 1 BY <1>2
<1>7. \A x : Accepted(x)' <=> Accepted(x) \/ x = y BY <1>3, <1>4, <1>5, <1>6 DEF Accepted
<1>8. \A x : Accepted(x) => Before(x, y)' BY <1>3, <1>5, <1>6 DEF Accepted, Before
<1>9. ASSUME NEW x, NEW z, z # y, Before(x, z)' PROVE Before(x, z)
  <2>1. PICK i \in 1 .. n + 1, j \in 1 .. n + 1 : i < j /\ accepted'[i] = x /\ accepted'[j] = z
    BY <1>3, <1>9 DEF Before
  <2>2. j # n + 1 BY <1>3, <1>9, <2>1
  <2>3. i \in 1 .. n /\ j \in 1 .. n BY <1>2, <2>1, <2>2
  <2>. QED BY <1>3, <2>1, <2>3 DEF Before
<1>10. \A i \in DOMAIN accepted : i \in DOMAIN accepted' /\ accepted'[i] = accepted[i] BY <1>3, <1>5
<1>11. \A i \in DOMAIN accepted' : i \in DOMAIN accepted \/ (accepted'[i] = y /\ i \notin DOMAIN accepted)
  BY <1>3, <1>4
<1>12. \A i, j \in DOMAIN accepted' : i \notin DOMAIN accepted /\ j \notin DOMAIN accepted => i = j
  BY <1>3, <1>4
<1>13. accepted' \in Seq(Items) BY <1>3
<1>. QED BY <1>7, <1>8, <1>9, <1>10, <1>11, <1>12, <1>13

\* The map an item was added to still has its lifetime's items in order.
LEMMA KeptAfterAdd ==
  ASSUME LifetimeTypeOK, NEW y \in Items, accepted' = Append(accepted, y), LifeGrows,
         NEW s \in Seq(Items), KeptFor(s, Home(y))
  PROVE  KeptFor(Append(s, y), Home(y))' /\ \A x : Contains(Append(s, y), x) <=> Contains(s, x) \/ x = y
<1>1. PICK n : n = Len(s) /\ n \in Nat OBVIOUS
<1>2. PICK r : r = Append(s, y) OBVIOUS
<1>3. /\ DOMAIN s = 1 .. n /\ DOMAIN r = 1 .. n + 1 /\ r[n + 1] = y /\ Len(r) = n + 1
      /\ \A i \in 1 .. n : r[i] = s[i]
  BY <1>1, <1>2
<1>4. \A i \in 1 .. n + 1 : i \in 1 .. n \/ i = n + 1 BY <1>1
<1>5. \A i \in 1 .. n : i \in 1 .. n + 1 BY <1>1
<1>6. n + 1 \in 1 .. n + 1 BY <1>1
<1>7. \A k \in 1 .. n : Home(s[k]) = Home(y) /\ Accepted(s[k]) BY <1>3 DEF KeptFor
<1>8. \A k \in 1 .. n + 1 : Home(r[k]) = Home(y) /\ Accepted(r[k])'
  BY <1>3, <1>4, <1>7, AcceptedLast
<1>9. ASSUME NEW i \in 1 .. n + 1, NEW j \in 1 .. n + 1, i < j PROVE Before(r[i], r[j])'
  <2>1. i \in 1 .. n BY <1>1, <1>9
  <2>2. CASE j = n + 1
    <3>1. Accepted(s[i]) BY <1>7, <2>1
    <3>2. Before(s[i], y)' BY <3>1, AcceptedLast
    <3>. QED BY <1>3, <2>1, <2>2, <3>2
  <2>3. CASE j \in 1 .. n
    <3>1. Before(s[i], s[j]) BY <1>3, <1>9, <2>1, <2>3 DEF KeptFor
    <3>2. Before(s[i], s[j])' BY <3>1, LifeStays
    <3>. QED BY <1>3, <2>1, <2>3, <3>2
  <2>. QED BY <1>4, <2>2, <2>3
<1>10. KeptFor(r, Home(y))' BY <1>3, <1>8, <1>9 DEF KeptFor
<1>11. \A x : Contains(r, x) <=> Contains(s, x) \/ x = y BY <1>1, <1>3, <1>4, <1>5, <1>6 DEF Contains
<1>. QED BY <1>2, <1>10, <1>11 DEF KeptFor

\* add_action puts the item into the map, and attach_nested goes on.
LEMMA AddKeeps ==
  ASSUME LifetimeInv, NEW t \in LifetimeThreads, Add(t)
  PROVE  LifetimeInv'
<1>1. PICK y : y = Top(t).item OBVIOUS
<1>2. PICK n : n = Len(calls[t]) OBVIOUS
<1>3. PICK c : c = Top(t) OBVIOUS
<1>4. /\ calls[t] # <<>> /\ c.do = "add" /\ ~terminated[c.on]
      /\ actions' = [actions EXCEPT ![c.on] = Append(@, y)]
      /\ accepted' = Append(accepted, y)
      /\ \/ y.kind = "end" /\ Become(t, AddCall(y.of, Detach(y.of)))
         \/ Leave(t)
      /\ UNCHANGED <<terminated, nested, given, terminating, opened, ran>>
  BY <1>1, <1>3 DEF Add, Doing, Refuses, Top, histVars
<1>5. n \in Nat /\ n >= 1 /\ DOMAIN calls[t] = 1 .. n /\ calls[t][n] = c /\ c \in CallTypes
  BY <1>2, <1>3, <1>4, TopIs DEF LifetimeInv
<1>6. n \in DOMAIN calls[t] /\ \A i \in 1 .. n : i < n \/ i = n BY <1>5
<1>7. y \in Items /\ c.item = y BY <1>1, <1>3, <1>4, <1>5, CallFields
<1>8. CallFits(c) BY <1>5, <1>6 DEF CallsFit, LifetimeInv
<1>9. c.on = Home(y) BY <1>4, <1>7, <1>8 DEF CallFits
<1>10. Known(y) /\ ~Accepted(y) /\ Adding(t, n, y)
  BY <1>4, <1>5, <1>6, <1>7 DEF AddedOnce, Adding, LifetimeInv
<1>11. LifetimeTypeOK BY DEF LifetimeInv
<1>12. Home(y) \in Lifetimes BY <1>7, ItemsAre
<1>13. /\ actions' \in [Lifetimes -> Seq(Items)]
       /\ actions'[Home(y)] = Append(actions[Home(y)], y)
       /\ \A l \in Lifetimes : l # Home(y) => actions'[l] = actions[l]
  BY <1>4, <1>7, <1>9, <1>12 DEF LifetimeTypeOK, LifetimeInv
<1>14. LifeGrows
  <2>1. \A l \in Lifetimes : terminated[l] => terminated'[l] /\ (actions[l] = <<>> => actions'[l] = <<>>)
    BY <1>4, <1>9, <1>13
  <2>. QED BY <1>4, <1>7, <1>11, <2>1, AcceptedLast DEF LifeGrows
\* attach_nested goes on, or the call ends.
<1>15. /\ calls' \in [LifetimeThreads -> Seq(CallTypes)] /\ SameBut(t, n)
       /\ \A i \in DOMAIN calls'[t] : i >= n =>
            /\ i = n /\ y.kind = "end" /\ calls'[t][i].do = "add" /\ calls'[t][i].on = y.of
            /\ calls'[t][i].item = Detach(y.of)
  <2>1. CASE y.kind = "end" /\ Become(t, AddCall(y.of, Detach(y.of)))
    <3>1. PICK d : d = AddCall(y.of, Detach(y.of)) OBVIOUS
    <3>2. y.of \in Nested /\ y.of \in Lifetimes /\ Detach(y.of) \in Items BY <1>7, <2>1, ItemsAre DEF Nested
    <3>3. d \in CallTypes /\ d.do = "add" /\ d.on = y.of /\ d.item = Detach(y.of)
      BY <3>1, <3>2 DEF AddCall, CallTypes
    <3>4. /\ calls' \in [LifetimeThreads -> Seq(CallTypes)] /\ SameBut(t, n)
          /\ DOMAIN calls'[t] = 1 .. n /\ calls'[t][n] = d
      BY <1>2, <1>4, <1>11, <2>1, <3>1, <3>3, Became
    <3>5. \A i \in 1 .. n : i >= n => i = n BY <1>5
    <3>. QED BY <2>1, <3>3, <3>4, <3>5
  <2>2. CASE Leave(t)
    <3>1. calls' \in [LifetimeThreads -> Seq(CallTypes)] /\ SameBut(t, n) /\ DOMAIN calls'[t] = 1 .. n - 1
      BY <1>2, <1>4, <1>11, <2>2, Left
    <3>2. \A i \in 1 .. n - 1 : ~(i >= n) BY <1>5
    <3>. QED BY <3>1, <3>2
  <2>. QED BY <1>4, <2>1, <2>2
<1>16. LifetimeTypeOK'
  <2>1. accepted' \in Seq(Items) BY <1>4, <1>7, <1>11, AcceptedLast
  <2>. QED BY <1>4, <1>11, <1>13, <1>15, <2>1 DEF LifetimeTypeOK
<1>17. \A u \in LifetimeThreads : DOMAIN calls'[u] \subseteq Nat BY <1>15, Numbers
<1>18. AddedOnce'
  <2>1. ASSUME NEW i \in DOMAIN accepted', NEW j \in DOMAIN accepted', accepted'[i] = accepted'[j] PROVE i = j
    <3>1. \A k \in DOMAIN accepted : accepted'[k] = accepted[k] /\ accepted[k] # y
      BY <1>10, <1>14 DEF Accepted, LifeGrows
    <3>2. \A k \in DOMAIN accepted' : k \in DOMAIN accepted \/ (accepted'[k] = y /\ k \notin DOMAIN accepted)
      BY <1>4, <1>7, <1>11, AcceptedLast
    <3>3. i \notin DOMAIN accepted /\ j \notin DOMAIN accepted => i = j BY <1>4, <1>7, <1>11, AcceptedLast
    <3>4. i \in DOMAIN accepted /\ j \in DOMAIN accepted => i = j BY <2>1, <3>1 DEF AddedOnce, LifetimeInv
    <3>. QED BY <2>1, <3>1, <3>2, <3>3, <3>4
  <2>2. ASSUME NEW i \in DOMAIN accepted' PROVE Known(accepted[i])'
    <3>1. i \in DOMAIN accepted \/ accepted'[i] = y BY <1>4, <1>7, <1>11, AcceptedLast
    <3>2. CASE accepted'[i] = y
      <4>1. Known(y)' BY <1>10, <1>14, LifeStays
      <4>. QED BY <3>2, <4>1
    <3>3. CASE i \in DOMAIN accepted
      <4>1. PICK z : z = accepted[i] OBVIOUS
      <4>2. Known(z) BY <3>3, <4>1 DEF AddedOnce, LifetimeInv
      <4>3. accepted'[i] = z BY <1>14, <3>3, <4>1 DEF LifeGrows
      <4>4. Known(z)' BY <1>14, <4>2, LifeStays
      <4>. QED BY <4>3, <4>4
    <3>. QED BY <3>1, <3>2, <3>3
  <2>3. \A z : Accepted(z)' /\ ~Accepted(z) => n \in DOMAIN calls[t] /\ Adding(t, n, z)
    BY <1>4, <1>6, <1>7, <1>10, <1>11, AcceptedLast
  <2>4. ASSUME NEW i \in DOMAIN calls'[t], i >= n, calls'[t][i].do = "add"
        PROVE  /\ i = n /\ Known(calls[t][i].item)' /\ ~Accepted(calls[t][i].item)'
               /\ ~Known(calls'[t][i].item)
    <3>1. i = n /\ y.kind = "end" /\ calls'[t][i].item = Detach(y.of) BY <1>15, <2>4
    <3>2. PICK z : z = Detach(y.of) OBVIOUS
    <3>3. y = EndOf(y.of) /\ z.kind = "detach" /\ z.of = y.of BY <1>7, <3>1, <3>2, ItemsAre
    <3>4. z # y BY <3>1, <3>3
    <3>5. ~Known(z) BY <1>10, <3>3 DEF Known
    <3>6. ~Accepted(z) BY <3>5 DEF Accepted, AddedOnce, LifetimeInv
    <3>7. Accepted(EndOf(z.of))' BY <1>4, <1>7, <1>11, <3>3, AcceptedLast
    <3>8. Known(z)' BY <3>3, <3>7 DEF Known
    <3>9. ~Accepted(z)' BY <1>4, <1>7, <1>11, <3>4, <3>6, AcceptedLast
    <3>10. calls'[t][i].item = z BY <3>1, <3>2
    <3>11. Known(calls[t][i].item)' BY <3>8, <3>10
    <3>12. ~Accepted(calls[t][i].item)' BY <3>9, <3>10
    <3>. QED BY <3>1, <3>5, <3>10, <3>11, <3>12
  <2>5. AddedOnce BY DEF LifetimeInv
  <2>. QED BY <1>5, <1>14, <1>15, <1>17, <2>1, <2>2, <2>3, <2>4, <2>5, StillAddedOnce
<1>19. InMaps'
  <2>1. ASSUME NEW l \in Lifetimes PROVE KeptFor(actions[l], l)'
    <3>1. PICK s : s = actions[l] OBVIOUS
    <3>2. s \in Seq(Items) /\ KeptFor(s, l) BY <3>1 DEF LifetimeInv, LifetimeTypeOK, InMaps
    <3>3. CASE l = Home(y)
      <4>1. KeptFor(Append(s, y), l)' BY <1>4, <1>7, <1>11, <1>14, <3>2, <3>3, KeptAfterAdd
      <4>2. actions'[l] = Append(s, y) BY <1>13, <3>1, <3>3
      <4>. QED BY <4>1, <4>2
    <3>4. CASE l # Home(y)
      <4>1. actions'[l] = s BY <1>13, <3>1, <3>4
      <4>2. KeptFor(s, l)' BY <1>14, <3>2, LifeStays
      <4>. QED BY <4>1, <4>2
    <3>. QED BY <3>3, <3>4
  <2>. QED BY <2>1 DEF InMaps
<1>20. CallsFit'
  <2>1. ASSUME NEW i \in DOMAIN calls'[t] PROVE i < n \/ CallFits(calls[t][i])'
    <3>1. i \in Nat BY <1>17
    <3>2. CASE i >= n
      <4>1. /\ y.kind = "end" /\ calls'[t][i].do = "add" /\ calls'[t][i].on = y.of
            /\ calls'[t][i].item = Detach(y.of)
        BY <1>15, <3>2
      <4>2. Home(Detach(y.of)) = y.of BY <1>7, <4>1, ItemsAre
      <4>. QED BY <4>1, <4>2 DEF CallFits
    <3>. QED BY <1>5, <3>1, <3>2
  <2>. QED BY <1>5, <1>11, <1>14, <1>15, <2>1, CallsStayFit DEF LifetimeInv
<1>21. OneRuns'
  <2>1. \A i \in DOMAIN calls'[t] : i >= n => ~Full(calls'[t][i]) BY <1>15 DEF Full
  <2>. QED BY <1>5, <1>15, <1>17, <2>1, OneStillRuns DEF LifetimeInv
<1>22. Fetched'
  <2>1. ASSUME NEW l \in Lifetimes, terminated'[l], actions'[l] # <<>>
        PROVE  /\ terminated[l] /\ actions[l] # <<>>
               /\ \A i \in DOMAIN calls[t] : ~(i < n) /\ calls[t][i].do = "take" => calls[t][i].on # l
    <3>1. terminated[l] /\ l # Home(y) BY <1>4, <1>9, <2>1
    <3>2. actions[l] # <<>> BY <1>13, <2>1, <3>1
    <3>. QED BY <1>4, <1>5, <1>6, <3>1, <3>2
  <2>. QED BY <1>15, <2>1, StillFetched DEF LifetimeInv
<1>23. EndedInTurn'
  <2>1. \A i \in DOMAIN calls'[t] : i >= n => ~(calls'[t][i].do \in {"take", "run"}) BY <1>15
  <2>2. \A x, z : Accepted(z) /\ Before(x, z)' => Before(x, z) BY <1>4, <1>7, <1>10, <1>11, AcceptedLast
  <2>. QED BY <1>5, <1>11, <1>14, <1>15, <1>16, <2>1, <2>2, StillInTurn DEF LifetimeInv
<1>24. RanRight' /\ NoneLost' /\ InReverse' /\ EndCalled'
  <2>1. ASSUME NEW x \in Items PROVE Waiting(x)' <=> Waiting(x) \/ x = y
    <3>1. ~RunHere(t, n, x) BY <1>4, <1>5, <1>6 DEF RunHere
    <3>2. ~RunHere(t, n, x)'
      <4>1. \A i \in DOMAIN calls'[t] : ~(i < n) => i >= n BY <1>5, <1>17
      <4>. QED BY <1>15, <4>1 DEF RunHere
    <3>3. Contains(actions'[Home(x)], x) <=> Contains(actions[Home(x)], x) \/ x = y
      <4>1. CASE Home(x) = Home(y)
        <5>1. PICK s : s = actions[Home(y)] OBVIOUS
        <5>2. s \in Seq(Items) /\ KeptFor(s, Home(y)) BY <1>12, <5>1 DEF LifetimeInv, LifetimeTypeOK, InMaps
        <5>3. Contains(Append(s, y), x) <=> Contains(s, x) \/ x = y
          BY <1>4, <1>7, <1>11, <1>14, <5>2, KeptAfterAdd
        <5>. QED BY <1>13, <4>1, <5>1, <5>3
      <4>2. CASE Home(x) # Home(y)
        <5>1. Home(x) \in Lifetimes BY ItemsAre
        <5>. QED BY <1>13, <4>2, <5>1
      <4>. QED BY <4>1, <4>2
    <3>. QED BY <1>15, <3>1, <3>2, <3>3, WaitingIs
  <2>. QED BY <1>4, <1>7, <1>9, <1>10, <1>11, <2>1, HistoryAdded DEF LifetimeInv
<1>. QED BY <1>16, <1>18, <1>19, <1>20, <1>21, <1>22, <1>23, <1>24 DEF LifetimeInv
-----------------------------------------------------------------------------
\* The items of a lifetime differ from each other.
LEMMA KeptOnce ==
  ASSUME AddedOnce, NEW s \in Seq(Items), NEW l, KeptFor(s, l), LifetimeTypeOK
  PROVE  \A i, j \in 1 .. Len(s) : s[i] = s[j] => i = j
<1>1. PICK n : n = Len(s) /\ n \in Nat /\ DOMAIN s = 1 .. n OBVIOUS
<1>2. DOMAIN accepted \subseteq Nat
  <2>1. accepted \in Seq(Items) BY DEF LifetimeTypeOK
  <2>. QED BY <2>1
<1>3. \A x : ~Before(x, x)
  <2>1. ASSUME NEW x, NEW i \in DOMAIN accepted, NEW j \in DOMAIN accepted,
               i < j, accepted[i] = x, accepted[j] = x
        PROVE  FALSE
    <3>1. i = j BY <2>1 DEF AddedOnce
    <3>2. i \in Nat BY <1>2
    <3>. QED BY <2>1, <3>1, <3>2
  <2>. QED BY <2>1 DEF Before
<1>4. ASSUME NEW i \in 1 .. n, NEW j \in 1 .. n, i < j PROVE s[i] # s[j]
  <2>1. Before(s[i], s[j]) BY <1>1, <1>4 DEF KeptFor
  <2>. QED BY <1>3, <2>1
<1>5. \A i, j \in 1 .. n : i < j \/ j < i \/ i = j BY <1>1
<1>. QED BY <1>1, <1>4, <1>5

\* Without one of its items a map still has its lifetime's items in order.
LEMMA KeptWithout ==
  ASSUME AddedOnce, LifetimeTypeOK, NEW s \in Seq(Items), NEW l, KeptFor(s, l), NEW y
  PROVE  /\ Without(s, y) \in Seq(Items) /\ KeptFor(Without(s, y), l)
         /\ \A x : Contains(Without(s, y), x) <=> Contains(s, x) /\ x # y
<1>1. PICK r : r = Without(s, y) OBVIOUS
<1>2. /\ r \in Seq(Items)
      /\ \A x : Contains(r, x) <=> Contains(s, x) /\ x # y
      /\ \A i, j \in DOMAIN r : i < j => \E k, m \in DOMAIN s : k < m /\ r[i] = s[k] /\ r[j] = s[m]
  BY <1>1, KeptOnce, WithoutIs
<1>3. DOMAIN r = 1 .. Len(r) /\ DOMAIN s = 1 .. Len(s) BY <1>2
<1>4. ASSUME NEW k \in DOMAIN r PROVE Home(r[k]) = l /\ Accepted(r[k])
  <2>1. Contains(r, r[k]) BY <1>3 DEF Contains
  <2>2. Contains(s, r[k]) BY <1>2, <2>1
  <2>3. PICK i \in DOMAIN s : s[i] = r[k] BY <1>3, <2>2 DEF Contains
  <2>. QED BY <2>3 DEF KeptFor
<1>5. \A i, j \in DOMAIN r : i < j => Before(r[i], r[j]) BY <1>2 DEF KeptFor
<1>6. KeptFor(r, l) BY <1>4, <1>5 DEF KeptFor
<1>. QED BY <1>1, <1>2, <1>6

\* An empty map contains nothing.
LEMMA NothingInEmpty == \A x : ~Contains(<<>>, x)
  BY DEF Contains

\* What a map has in it, if anything, does not make it empty.
LEMMA ContainsIs ==
  ASSUME NEW s \in Seq(Items), NEW x
  PROVE  Contains(s, x) <=> \E i \in DOMAIN s : s[i] = x
<1>1. DOMAIN s = 1 .. Len(s) OBVIOUS
<1>. QED BY <1>1 DEF Contains

\* What is kept for a lifetime has it for a home.
LEMMA KeptHome ==
  ASSUME NEW s \in Seq(Items), NEW l, KeptFor(s, l), NEW x, Contains(s, x)
  PROVE  Home(x) = l /\ Accepted(x) /\ s # <<>>
<1>1. PICK i \in DOMAIN s : s[i] = x BY ContainsIs
<1>2. Home(x) = l /\ Accepted(x) BY <1>1 DEF KeptFor
<1>3. s # <<>> BY NothingInEmpty
<1>. QED BY <1>2, <1>3

\* terminate moves the actions out of the map.
LEMMA TakeKeeps ==
  ASSUME LifetimeInv, NEW t \in LifetimeThreads, Take(t)
  PROVE  LifetimeInv'
<1>1. PICK c : c = Top(t) OBVIOUS
<1>2. PICK n : n = Len(calls[t]) OBVIOUS
<1>3. PICK s : s = actions[c.on] OBVIOUS
<1>4. PICK d : d = RunCall(c.on, s) OBVIOUS
<1>5. /\ calls[t] # <<>> /\ c.do = "take" /\ Become(t, d)
      /\ actions' = [actions EXCEPT ![c.on] = <<>>]
      /\ UNCHANGED <<terminated, nested, given, terminating, opened, accepted, ran>>
  BY <1>1, <1>3, <1>4 DEF Take, Doing, Top, histVars
<1>6. n \in Nat /\ n >= 1 /\ DOMAIN calls[t] = 1 .. n /\ calls[t][n] = c /\ c \in CallTypes
  BY <1>1, <1>2, <1>5, TopIs DEF LifetimeInv
<1>7. n \in DOMAIN calls[t] /\ \A i \in 1 .. n : i < n \/ i = n BY <1>6
<1>8. c.on \in Lifetimes BY <1>6, CallFields
<1>9. s \in Seq(Items) /\ KeptFor(s, c.on) BY <1>3, <1>8 DEF LifetimeInv, LifetimeTypeOK, InMaps
<1>10. d \in CallTypes /\ d.do = "run" /\ d.on = c.on /\ d.left = s
  BY <1>4, <1>8, <1>9 DEF CallTypes, RunCall
<1>11. /\ calls' \in [LifetimeThreads -> Seq(CallTypes)]
       /\ SameBut(t, n) /\ DOMAIN calls'[t] = 1 .. n /\ calls'[t][n] = d
  BY <1>2, <1>5, <1>10, Became DEF LifetimeInv
<1>12. LifetimeTypeOK BY DEF LifetimeInv
<1>13. /\ actions' \in [Lifetimes -> Seq(Items)] /\ actions'[c.on] = <<>>
       /\ \A l \in Lifetimes : l # c.on => actions'[l] = actions[l]
  BY <1>5, <1>8, <1>12 DEF LifetimeTypeOK
<1>14. LifeGrows BY <1>5, <1>13 DEF LifeGrows
<1>15. LifetimeTypeOK' BY <1>5, <1>11, <1>12, <1>13 DEF LifetimeTypeOK
<1>16. \A u \in LifetimeThreads : DOMAIN calls'[u] \subseteq Nat BY <1>11, Numbers
<1>17. \A z : Accepted(z)' <=> Accepted(z) BY <1>5 DEF Accepted
<1>18. \A i \in DOMAIN calls'[t] : i >= n => i = n /\ calls'[t][i] = d BY <1>6, <1>11
<1>19. AddedOnce'
  <2>1. \A i, j \in DOMAIN accepted' : accepted'[i] = accepted'[j] => i = j BY <1>5 DEF AddedOnce, LifetimeInv
  <2>2. \A i \in DOMAIN accepted' : Known(accepted[i])' BY <1>5, <1>14, LifeStays DEF AddedOnce, LifetimeInv
  <2>3. \A i \in DOMAIN calls'[t] : i >= n => calls'[t][i].do # "add" BY <1>10, <1>18
  <2>5. AddedOnce BY DEF LifetimeInv
  <2>. QED BY <1>6, <1>11, <1>14, <1>16, <1>17, <2>1, <2>2, <2>3, <2>5, StillAddedOnce
<1>20. InMaps'
  <2>1. ASSUME NEW l \in Lifetimes PROVE KeptFor(actions[l], l)'
    <3>1. CASE l = c.on
      <4>1. actions'[l] = <<>> BY <1>13, <3>1
      <4>. QED BY <4>1 DEF KeptFor
    <3>2. CASE l # c.on
      <4>1. PICK q : q = actions[l] OBVIOUS
      <4>2. KeptFor(q, l) /\ actions'[l] = q BY <1>13, <3>2, <4>1 DEF InMaps, LifetimeInv
      <4>3. KeptFor(q, l)' BY <1>14, <4>2, LifeStays
      <4>. QED BY <4>2, <4>3
    <3>. QED BY <3>1, <3>2
  <2>. QED BY <2>1 DEF InMaps
<1>21. CallsFit'
  <2>1. terminated[c.on] BY <1>5, <1>6, <1>7 DEF CallsFit, CallFits, LifetimeInv
  <2>2. KeptFor(s, c.on)' BY <1>9, <1>14, LifeStays
  <2>3. CallFits(d)' BY <1>5, <1>10, <1>13, <2>1, <2>2 DEF CallFits
  <2>4. ASSUME NEW i \in DOMAIN calls'[t] PROVE i < n \/ CallFits(calls[t][i])'
    <3>1. i < n \/ calls'[t][i] = d BY <1>7, <1>11
    <3>. QED BY <2>3, <3>1 DEF CallFits
  <2>. QED BY <1>6, <1>11, <1>12, <1>14, <2>4, CallsStayFit DEF LifetimeInv
<1>22. OneRuns'
  <2>1. ASSUME NEW i \in DOMAIN calls'[t], i >= n, Full(calls'[t][i])
        PROVE  /\ i = n
               /\ \A u \in LifetimeThreads : \A j \in DOMAIN calls[u] :
                    ~(Full(calls[u][j]) /\ calls[u][j].on = calls'[t][i].on)
    <3>1. i = n /\ calls'[t][i] = d BY <1>18, <2>1
    <3>2. actions[c.on] # <<>> BY <1>3, <1>10, <2>1, <3>1 DEF Full
    <3>3. ASSUME NEW u \in LifetimeThreads, NEW j \in DOMAIN calls[u], Full(calls[u][j]), calls[u][j].on = c.on
          PROVE  FALSE
      <4>1. CallFits(calls[u][j]) BY DEF CallsFit, LifetimeInv
      <4>2. actions[c.on] = <<>> BY <3>3, <4>1 DEF CallFits, Full
      <4>. QED BY <3>2, <4>2
    <3>. QED BY <1>10, <3>1, <3>3
  <2>. QED BY <1>6, <1>11, <1>16, <2>1, OneStillRuns DEF LifetimeInv
<1>23. Fetched'
  <2>1. ASSUME NEW l \in Lifetimes, terminated'[l], actions'[l] # <<>>
        PROVE  /\ terminated[l] /\ actions[l] # <<>>
               /\ \A i \in DOMAIN calls[t] : ~(i < n) /\ calls[t][i].do = "take" => calls[t][i].on # l
    <3>1. l # c.on BY <1>13, <2>1
    <3>2. terminated[l] /\ actions[l] # <<>> BY <1>5, <1>13, <2>1, <3>1
    <3>. QED BY <1>6, <1>7, <3>1, <3>2
  <2>. QED BY <1>11, <2>1, StillFetched DEF LifetimeInv
<1>24. EndedInTurn'
  <2>1. \A i \in DOMAIN calls'[t] : i >= n =>
          /\ i = n /\ n \in DOMAIN calls[t] /\ calls[t][n].do \in {"take", "run"}
          /\ calls[t][n].on = calls'[t][i].on
    BY <1>5, <1>6, <1>7, <1>10, <1>18
  <2>2. \A z, y : Before(z, y)' => Before(z, y) BY <1>5 DEF Before
  <2>. QED BY <1>6, <1>11, <1>12, <1>14, <1>15, <2>1, <2>2, StillInTurn DEF LifetimeInv
<1>25. RanRight' /\ NoneLost' /\ InReverse' /\ EndCalled'
  <2>1. ASSUME NEW x \in Items PROVE Waiting(x)' <=> Waiting(x)
    <3>1. ~RunHere(t, n, x) BY <1>5, <1>6, <1>7 DEF RunHere
    <3>2. RunHere(t, n, x)' <=> Contains(s, x)
      <4>1. \A i \in DOMAIN calls'[t] : ~(i < n) => i = n BY <1>7, <1>11
      <4>2. n \in DOMAIN calls'[t] /\ ~(n < n) BY <1>6, <1>11
      <4>. QED BY <1>10, <1>11, <4>1, <4>2 DEF RunHere
    <3>3. Contains(s, x) => Home(x) = c.on BY <1>9, KeptHome
    <3>4. Home(x) \in Lifetimes BY ItemsAre
    <3>5. Contains(actions[Home(x)], x) <=> Contains(actions'[Home(x)], x) \/ Contains(s, x)
      <4>1. CASE Home(x) = c.on
        <5>1. actions[Home(x)] = s /\ actions'[Home(x)] = <<>> BY <1>3, <1>13, <4>1
        <5>. QED BY <5>1, NothingInEmpty
      <4>2. CASE Home(x) # c.on
        <5>1. actions'[Home(x)] = actions[Home(x)] BY <1>13, <3>4, <4>2
        <5>. QED BY <3>3, <4>2, <5>1
      <4>. QED BY <4>1, <4>2
    <3>. QED BY <1>11, <3>1, <3>2, <3>5, WaitingIs
  <2>2. \A a \in Actions : User(a) \in Items BY ItemsAre
  <2>3. \A m \in Nested : EndOf(m) \in Items BY ItemsAre
  <2>. QED BY <1>5, <1>12, <1>14, <2>1, <2>2, <2>3, HistoryKept DEF LifetimeInv
<1>. QED BY <1>15, <1>19, <1>20, <1>21, <1>22, <1>23, <1>24, <1>25 DEF LifetimeInv

\* A nested lifetime takes its end off the map of its parent.
LEMMA EraseKeeps ==
  ASSUME LifetimeInv, NEW t \in LifetimeThreads, Erase(t)
  PROVE  LifetimeInv'
<1>1. PICK c : c = Top(t) OBVIOUS
<1>2. PICK n : n = Len(calls[t]) OBVIOUS
<1>3. PICK s : s = actions[c.on] OBVIOUS
<1>4. PICK e : e = c.item OBVIOUS
<1>5. /\ calls[t] # <<>> /\ c.do = "erase" /\ Leave(t)
      /\ actions' = [actions EXCEPT ![c.on] = Without(@, e)]
      /\ UNCHANGED <<terminated, nested, given, terminating, opened, accepted, ran>>
  BY <1>1, <1>4 DEF Erase, Doing, Top, histVars
<1>6. /\ calls' \in [LifetimeThreads -> Seq(CallTypes)] /\ n \in Nat /\ n >= 1
      /\ SameBut(t, n) /\ DOMAIN calls'[t] = 1 .. n - 1
      /\ DOMAIN calls[t] = 1 .. n /\ calls[t][n] = c /\ c \in CallTypes
  BY <1>1, <1>2, <1>5, Left DEF LifetimeInv
<1>7. n \in DOMAIN calls[t] /\ \A i \in 1 .. n : i < n \/ i = n BY <1>6
<1>8. c.on \in Lifetimes /\ e \in Items BY <1>4, <1>5, <1>6, CallFields
<1>9. \A i \in 1 .. n - 1 : i < n /\ ~(i >= n) BY <1>6
<1>10. s \in Seq(Items) /\ KeptFor(s, c.on) BY <1>3, <1>8 DEF LifetimeInv, LifetimeTypeOK, InMaps
<1>11. LifetimeTypeOK /\ AddedOnce BY DEF LifetimeInv
<1>12. PICK r : r = Without(s, e) OBVIOUS
<1>13. r \in Seq(Items) /\ KeptFor(r, c.on) /\ \A x : Contains(r, x) <=> Contains(s, x) /\ x # e
  BY <1>10, <1>11, <1>12, KeptWithout
<1>14. /\ actions' \in [Lifetimes -> Seq(Items)] /\ actions'[c.on] = r
       /\ \A l \in Lifetimes : l # c.on => actions'[l] = actions[l]
  <2>1. actions' = [actions EXCEPT ![c.on] = r] BY <1>3, <1>5, <1>8, <1>11, <1>12 DEF LifetimeTypeOK
  <2>. QED BY <1>8, <1>11, <1>13, <2>1 DEF LifetimeTypeOK
<1>15. s = <<>> => r = <<>>
  <2>1. ASSUME s = <<>> PROVE r = <<>>
    <3>1. ~Contains(s, e) BY <2>1, NothingInEmpty
    <3>. QED BY <1>12, <2>1, <3>1 DEF Without
  <2>. QED BY <2>1
<1>16. LifeGrows
  <2>1. \A l \in Lifetimes : actions[l] = <<>> => actions'[l] = <<>> BY <1>3, <1>14, <1>15
  <2>. QED BY <1>5, <2>1 DEF LifeGrows
<1>17. LifetimeTypeOK' BY <1>5, <1>6, <1>11, <1>14 DEF LifetimeTypeOK
<1>18. \A u \in LifetimeThreads : DOMAIN calls'[u] \subseteq Nat BY <1>6, Numbers
<1>19. \A z : Accepted(z)' <=> Accepted(z) BY <1>5 DEF Accepted
<1>20. AddedOnce'
  <2>1. \A i, j \in DOMAIN accepted' : accepted'[i] = accepted'[j] => i = j BY <1>5 DEF AddedOnce, LifetimeInv
  <2>2. \A i \in DOMAIN accepted' : Known(accepted[i])' BY <1>5, <1>16, LifeStays DEF AddedOnce, LifetimeInv
  <2>. QED BY <1>6, <1>9, <1>11, <1>16, <1>18, <1>19, <2>1, <2>2, StillAddedOnce
<1>21. InMaps'
  <2>1. ASSUME NEW l \in Lifetimes PROVE KeptFor(actions[l], l)'
    <3>1. CASE l = c.on
      <4>1. KeptFor(r, l)' BY <1>13, <1>16, <3>1, LifeStays
      <4>. QED BY <1>14, <3>1, <4>1
    <3>2. CASE l # c.on
      <4>1. PICK q : q = actions[l] OBVIOUS
      <4>2. KeptFor(q, l) /\ actions'[l] = q BY <1>14, <3>2, <4>1 DEF InMaps, LifetimeInv
      <4>3. KeptFor(q, l)' BY <1>16, <4>2, LifeStays
      <4>. QED BY <4>2, <4>3
    <3>. QED BY <3>1, <3>2
  <2>. QED BY <2>1 DEF InMaps
<1>22. CallsFit' BY <1>6, <1>9, <1>11, <1>16, CallsStayFit DEF LifetimeInv
<1>23. OneRuns' BY <1>6, <1>9, <1>18, OneStillRuns DEF LifetimeInv
<1>24. Fetched'
  <2>1. ASSUME NEW l \in Lifetimes, terminated'[l], actions'[l] # <<>>
        PROVE  /\ terminated[l] /\ actions[l] # <<>>
               /\ \A i \in DOMAIN calls[t] : ~(i < n) /\ calls[t][i].do = "take" => calls[t][i].on # l
    <3>1. terminated[l] /\ actions[l] # <<>> BY <1>3, <1>5, <1>14, <1>15, <2>1
    <3>. QED BY <1>5, <1>6, <1>7, <3>1
  <2>. QED BY <1>6, <2>1, StillFetched DEF LifetimeInv
<1>25. EndedInTurn'
  <2>2. \A z, y : Before(z, y)' => Before(z, y) BY <1>5 DEF Before
  <2>. QED BY <1>6, <1>9, <1>11, <1>16, <1>17, <2>2, StillInTurn DEF LifetimeInv
<1>26. RanRight' /\ NoneLost' /\ InReverse' /\ EndCalled'
  <2>1. CallFits(c) BY <1>6, <1>7 DEF CallsFit, LifetimeInv
  <2>2. e.kind = "end" /\ c.on = Home(e) /\ terminated[e.of] BY <1>4, <1>5, <2>1 DEF CallFits
  <2>3. ASSUME NEW x \in Items PROVE Waiting(x)' => Waiting(x)
    <3>1. ~RunHere(t, n, x) BY <1>5, <1>6, <1>7 DEF RunHere
    <3>2. ~RunHere(t, n, x)' BY <1>6, <1>9 DEF RunHere
    <3>3. Home(x) \in Lifetimes BY ItemsAre
    <3>4. Contains(actions'[Home(x)], x) => Contains(actions[Home(x)], x) BY <1>3, <1>13, <1>14, <3>3
    <3>. QED BY <1>6, <3>1, <3>2, <3>4, WaitingIs
  <2>4. ASSUME NEW x \in Items, x # e PROVE Waiting(x) => Waiting(x)'
    <3>1. ~RunHere(t, n, x) BY <1>5, <1>6, <1>7 DEF RunHere
    <3>2. ~RunHere(t, n, x)' BY <1>6, <1>9 DEF RunHere
    <3>3. Home(x) \in Lifetimes BY ItemsAre
    <3>4. Contains(actions[Home(x)], x) => Contains(actions'[Home(x)], x) BY <1>3, <1>13, <1>14, <2>4, <3>3
    <3>. QED BY <1>6, <3>1, <3>2, <3>4, WaitingIs
  <2>5. \A a \in Actions : User(a) \in Items /\ User(a) # e BY <2>2, ItemsAre
  <2>6. \A m \in Nested : EndOf(m) \in Items /\ (EndOf(m) = e => e.of = m) BY ItemsAre
  <2>7. \A m \in Nested : Waiting(EndOf(m)) => Waiting(EndOf(m))' \/ terminated'[m] BY <1>5, <2>2, <2>4, <2>6
  <2>. QED BY <1>5, <1>11, <1>16, <2>3, <2>4, <2>5, <2>7, HistoryKept DEF LifetimeInv
<1>. QED BY <1>17, <1>20, <1>21, <1>22, <1>23, <1>24, <1>25, <1>26 DEF LifetimeInv
-----------------------------------------------------------------------------
\* A call about to run its last item y: no other call has items of its lifetime,
\* so that y waits nowhere else, and nothing added to the lifetime after y waits.
LEMMA LastOfAll ==
  ASSUME LifetimeInv, NEW t \in LifetimeThreads, NEW n \in DOMAIN calls[t], Full(calls[t][n]),
         \A i \in DOMAIN calls[t] : i < n \/ i = n
  PROVE  LET c == calls[t][n]
             y == Last(c.left)
         IN /\ c.on \in Lifetimes /\ c.left \in Seq(Items) /\ y \in Items /\ Contains(c.left, y)
            /\ Home(y) = c.on /\ Accepted(y) /\ terminated[c.on] /\ actions[c.on] = <<>> /\ KeptFor(c.left, c.on)
            /\ \A x \in Items : Home(x) = c.on => (Waiting(x) <=> Contains(c.left, x))
            /\ \A x : Contains(c.left, x) => ~RunElsewhere(t, n, x)
            /\ \A x : Before(y, x) => ~Contains(c.left, x)
<1>1. PICK c : c = calls[t][n] OBVIOUS
<1>2. PICK s : s = c.left OBVIOUS
<1>3. PICK y : y = Last(s) OBVIOUS
<1>4. LifetimeTypeOK /\ AddedOnce BY DEF LifetimeInv
<1>5. c \in CallTypes BY <1>1, <1>4, OnStacks
<1>6. c.do = "run" /\ s # <<>> /\ s \in Seq(Items) /\ c.on \in Lifetimes
  BY <1>1, <1>2, <1>5, CallFields DEF Full
<1>7. CallFits(c) BY <1>1 DEF CallsFit, LifetimeInv
<1>8. terminated[c.on] /\ actions[c.on] = <<>> /\ KeptFor(s, c.on) BY <1>2, <1>6, <1>7 DEF CallFits
<1>9. Len(s) \in Nat /\ Len(s) >= 1 /\ y = s[Len(s)] /\ y \in Items BY <1>3, <1>6, FrontIs
<1>10. DOMAIN s = 1 .. Len(s) /\ Len(s) \in DOMAIN s BY <1>6, <1>9
<1>11. Contains(s, y) BY <1>6, <1>9, <1>10, ContainsIs
<1>12. Home(y) = c.on /\ Accepted(y) BY <1>6, <1>8, <1>11, KeptHome
<1>13. ASSUME NEW x, NEW u \in LifetimeThreads, NEW j \in DOMAIN calls[u],
              calls[u][j].do = "run", Contains(calls[u][j].left, x), Home(x) = c.on
       PROVE  u = t /\ j = n
  <2>1. PICK d : d = calls[u][j] OBVIOUS
  <2>2. d \in CallTypes /\ CallFits(d) BY <1>4, <2>1, OnStacks DEF CallsFit, LifetimeInv
  <2>3. d.left \in Seq(Items) /\ KeptFor(d.left, d.on) BY <1>13, <2>1, <2>2, CallFields DEF CallFits
  <2>4. Home(x) = d.on /\ d.left # <<>> BY <1>13, <2>1, <2>3, KeptHome
  <2>5. Full(calls[u][j]) /\ calls[u][j].on = calls[t][n].on BY <1>1, <1>13, <2>1, <2>4 DEF Full
  <2>6. OneRuns BY DEF LifetimeInv
  <2>. QED BY <2>5, <2>6 DEF OneRuns
<1>14. ASSUME NEW x \in Items, Home(x) = c.on PROVE Waiting(x) <=> Contains(s, x)
  <2>1. ~Contains(actions[Home(x)], x) BY <1>8, <1>14, NothingInEmpty
  <2>2. Contains(s, x) => WillRun(t, x) BY <1>1, <1>2, <1>6 DEF WillRun
  <2>3. ASSUME NEW u \in LifetimeThreads, WillRun(u, x) PROVE Contains(s, x)
    <3>1. PICK j \in DOMAIN calls[u] : calls[u][j].do = "run" /\ Contains(calls[u][j].left, x)
      BY <2>3 DEF WillRun
    <3>2. u = t /\ j = n BY <1>13, <1>14, <3>1
    <3>. QED BY <1>1, <1>2, <3>1, <3>2
  <2>. QED BY <2>1, <2>2, <2>3 DEF Waiting
<1>15. ASSUME NEW x, Contains(s, x) PROVE ~RunElsewhere(t, n, x)
  <2>1. Home(x) = c.on BY <1>6, <1>8, <1>15, KeptHome
  <2>2. n \in Nat
    <3>1. DOMAIN calls[t] \subseteq Nat BY <1>4, OnStacks
    <3>. QED BY <3>1
  <2>3. ~(n < n) BY <2>2
  <2>. QED BY <1>13, <2>1, <2>3 DEF RunElsewhere
<1>16. ASSUME NEW x, Before(y, x), Contains(s, x) PROVE FALSE
  <2>1. PICK k \in DOMAIN s : s[k] = x BY <1>6, <1>16, ContainsIs
  <2>2. PICK i \in DOMAIN accepted, j \in DOMAIN accepted : i < j /\ accepted[i] = y /\ accepted[j] = x
    BY <1>16 DEF Before
  <2>3. i \in Nat /\ j \in Nat
    <3>1. accepted \in Seq(Items) BY <1>4 DEF LifetimeTypeOK
    <3>. QED BY <3>1
  <2>4. k < Len(s) \/ k = Len(s) BY <1>9, <1>10
  <2>5. CASE k = Len(s)
    <3>1. i = j BY <1>4, <1>9, <2>1, <2>2, <2>5 DEF AddedOnce
    <3>. QED BY <2>2, <2>3, <3>1
  <2>6. CASE k < Len(s)
    <3>1. Before(x, y) BY <1>8, <1>9, <1>10, <2>1, <2>6 DEF KeptFor
    <3>2. PICK f \in DOMAIN accepted, g \in DOMAIN accepted : f < g /\ accepted[f] = x /\ accepted[g] = y
      BY <3>1 DEF Before
    <3>3. f = j /\ g = i BY <1>4, <2>2, <3>2 DEF AddedOnce
    <3>. QED BY <2>2, <2>3, <3>2, <3>3
  <2>. QED BY <2>4, <2>5, <2>6
<1>17. c.on \in Lifetimes /\ s \in Seq(Items) /\ y \in Items BY <1>6, <1>9
<1>. QED BY <1>1, <1>2, <1>3, <1>8, <1>11, <1>12, <1>14, <1>15, <1>16, <1>17

\* What RunNext does whatever it runs: c with s left becomes d with y off.
RunsLast(t, n, c, d, s, y) ==
  /\ n \in Nat /\ n >= 1 /\ DOMAIN calls[t] = 1 .. n /\ calls[t][n] = c /\ c \in CallTypes
  /\ c.do = "run" /\ s = c.left /\ s # <<>> /\ y = Last(s)
  /\ d \in CallTypes /\ d.do = "run" /\ d.on = c.on /\ d.left = Without(s, y)
  /\ calls' \in [LifetimeThreads -> Seq(CallTypes)] /\ SameBut(t, n)
  /\ DOMAIN calls'[t] \in {1 .. n, 1 .. n + 1} /\ calls'[t][n] = d
  /\ n + 1 \in DOMAIN calls'[t] => calls'[t][n + 1].do \in {"take", "erase"}

\* What holds after it, but for what is said of the past and of ends in their turn.
LEMMA RunsLastKeeps ==
  ASSUME LifetimeInv, NEW t \in LifetimeThreads, NEW n, NEW c, NEW d, NEW s, NEW y, RunsLast(t, n, c, d, s, y),
         UNCHANGED <<actions, nested, given, terminating, accepted>>,
         ran' \in Seq(Actions), terminated' \in [Lifetimes -> BOOLEAN],
         \A l \in Lifetimes : terminated[l] => terminated'[l],
         \A l \in Lifetimes : terminated'[l] /\ ~terminated[l] =>
           n + 1 \in DOMAIN calls'[t] /\ calls'[t][n + 1].do = "take" /\ calls'[t][n + 1].on = l,
         n + 1 \in DOMAIN calls'[t] => CallFits(calls[t][n + 1])'
  PROVE  /\ LifetimeTypeOK' /\ LifeGrows /\ AddedOnce' /\ InMaps' /\ CallsFit' /\ OneRuns' /\ Fetched'
         /\ \A x \in Items : Waiting(x)' <=> Waiting(x) /\ x # y
         /\ \A x \in Items : Before(y, x) /\ Home(x) = Home(y) => ~Waiting(x)
         /\ y \in Items /\ Waiting(y) /\ Accepted(y) /\ terminated[Home(y)] /\ c.on = Home(y)
         /\ \A i \in DOMAIN calls'[t] : i >= n => i = n \/ i = n + 1
<1>1. /\ n \in Nat /\ n >= 1 /\ DOMAIN calls[t] = 1 .. n /\ calls[t][n] = c /\ c \in CallTypes
      /\ c.do = "run" /\ s = c.left /\ s # <<>> /\ y = Last(s)
      /\ d \in CallTypes /\ d.do = "run" /\ d.on = c.on /\ d.left = Without(s, y)
      /\ calls' \in [LifetimeThreads -> Seq(CallTypes)] /\ SameBut(t, n)
      /\ DOMAIN calls'[t] \in {1 .. n, 1 .. n + 1} /\ calls'[t][n] = d
      /\ n + 1 \in DOMAIN calls'[t] => calls'[t][n + 1].do \in {"take", "erase"}
  BY DEF RunsLast
<1>2. n \in DOMAIN calls[t] /\ (\A i \in DOMAIN calls[t] : i < n \/ i = n) /\ n \in DOMAIN calls'[t] BY <1>1
<1>3. \A i \in DOMAIN calls'[t] : ~(i < n) => i = n \/ i = n + 1
  <2>1. CASE DOMAIN calls'[t] = 1 .. n BY <1>1, <2>1
  <2>2. CASE DOMAIN calls'[t] = 1 .. n + 1 BY <1>1, <2>2
  <2>. QED BY <1>1, <2>1, <2>2
<1>4. Full(calls[t][n]) BY <1>1 DEF Full
<1>5. /\ c.on \in Lifetimes /\ s \in Seq(Items) /\ y \in Items /\ Contains(s, y)
      /\ Home(y) = c.on /\ Accepted(y) /\ terminated[c.on] /\ actions[c.on] = <<>> /\ KeptFor(s, c.on)
      /\ \A x \in Items : Home(x) = c.on => (Waiting(x) <=> Contains(s, x))
      /\ \A x : Contains(s, x) => ~RunElsewhere(t, n, x)
      /\ \A x : Before(y, x) => ~Contains(s, x)
  BY <1>1, <1>2, <1>4, LastOfAll
<1>6. LifetimeTypeOK /\ AddedOnce /\ OneRuns BY DEF LifetimeInv
<1>7. /\ d.left \in Seq(Items) /\ KeptFor(d.left, c.on)
      /\ \A x : Contains(d.left, x) <=> Contains(s, x) /\ x # y
  BY <1>1, <1>5, <1>6, KeptWithout
<1>8. LifetimeTypeOK' BY <1>1, <1>6 DEF LifetimeTypeOK
<1>9. LifeGrows BY DEF LifeGrows
<1>10. \A u \in LifetimeThreads : DOMAIN calls'[u] \subseteq Nat BY <1>1, Numbers
<1>11. \A z : Accepted(z)' <=> Accepted(z) BY DEF Accepted
<1>12. \A i \in DOMAIN calls'[t] : i >= n => i = n \/ i = n + 1
  <2>1. \A i \in DOMAIN calls'[t] : i >= n => ~(i < n) BY <1>1, <1>10
  <2>. QED BY <1>3, <2>1
<1>13. AddedOnce'
  <2>1. \A i, j \in DOMAIN accepted' : accepted'[i] = accepted'[j] => i = j BY DEF AddedOnce, LifetimeInv
  <2>2. \A i \in DOMAIN accepted' : Known(accepted[i])' BY <1>9, LifeStays DEF AddedOnce, LifetimeInv
  <2>3. \A i \in DOMAIN calls'[t] : i >= n => calls'[t][i].do # "add" BY <1>1, <1>12
  <2>. QED BY <1>1, <1>6, <1>9, <1>10, <1>11, <2>1, <2>2, <2>3, StillAddedOnce
<1>14. InMaps' BY <1>9, LifeStays DEF InMaps, LifetimeInv
<1>15. CallsFit'
  <2>1. CallFits(d)'
    <3>1. KeptFor(d.left, c.on)' BY <1>7, <1>9, LifeStays
    <3>2. terminated'[c.on] /\ actions'[c.on] = <<>> BY <1>5
    <3>. QED BY <1>1, <3>1, <3>2 DEF CallFits
  <2>2. ASSUME NEW i \in DOMAIN calls'[t] PROVE i < n \/ CallFits(calls[t][i])'
    <3>1. i < n \/ i = n \/ i = n + 1 BY <1>3
    <3>2. i = n => calls'[t][i] = d BY <1>1
    <3>3. i = n => CallFits(calls[t][i])' BY <2>1, <3>2 DEF CallFits
    <3>4. i = n + 1 => CallFits(calls[t][i])' OBVIOUS
    <3>. QED BY <3>1, <3>3, <3>4
  <2>. QED BY <1>1, <1>6, <1>9, <2>2, CallsStayFit DEF LifetimeInv
<1>16. OneRuns'
  <2>1. ASSUME NEW i \in DOMAIN calls'[t], i >= n, Full(calls'[t][i])
        PROVE  /\ i = n
               /\ \A u \in LifetimeThreads : \A j \in DOMAIN calls[u] :
                    Full(calls[u][j]) /\ calls[u][j].on = calls'[t][i].on => u = t /\ j = n
    <3>1. i = n BY <1>1, <1>12, <2>1 DEF Full
    <3>2. calls'[t][i].on = calls[t][n].on BY <1>1, <3>1
    <3>. QED BY <1>2, <1>4, <1>6, <3>1, <3>2 DEF OneRuns
  <2>. QED BY <1>1, <1>6, <1>10, <2>1, OneStillRuns
<1>17. Fetched'
  <2>1. \A i \in DOMAIN calls[t] : ~(i < n) => calls[t][i].do # "take" BY <1>1, <1>2
  <2>2. ASSUME NEW l \in Lifetimes, terminated'[l], ~terminated[l] PROVE WillTake(l)'
    BY <2>2 DEF WillTake
  <2>. QED BY <1>1, <2>1, <2>2, StillFetched DEF LifetimeInv
<1>18. ASSUME NEW x \in Items PROVE Waiting(x)' <=> Waiting(x) /\ x # y
  <2>1. RunHere(t, n, x) <=> Contains(s, x)
    <3>1. \A i \in DOMAIN calls[t] : ~(i < n) => i = n BY <1>2
    <3>2. ~(n < n) BY <1>1
    <3>. QED BY <1>1, <1>2, <3>1, <3>2 DEF RunHere
  <2>2. RunHere(t, n, x)' <=> Contains(d.left, x)
    <3>1. n + 1 \in DOMAIN calls'[t] => calls'[t][n + 1].do # "run" BY <1>1
    <3>2. ~(n < n) BY <1>1
    <3>. QED BY <1>1, <1>2, <1>3, <3>1, <3>2 DEF RunHere
  <2>3. CASE x = y
    <3>1. ~RunElsewhere(t, n, x) BY <1>5, <2>3
    <3>2. ~Contains(actions'[Home(x)], x) BY <1>5, <2>3, NothingInEmpty
    <3>. QED BY <1>1, <1>7, <2>2, <2>3, <3>1, <3>2, WaitingIs
  <2>4. CASE x # y BY <1>1, <1>7, <2>1, <2>2, <2>4, WaitingIs
  <2>. QED BY <2>3, <2>4
<1>19. \A x \in Items : Before(y, x) /\ Home(x) = Home(y) => ~Waiting(x) BY <1>5
<1>20. y \in Items /\ Waiting(y) /\ Accepted(y) /\ terminated[Home(y)] /\ c.on = Home(y) BY <1>5
<1>21. InMaps' /\ CallsFit' /\ OneRuns' /\ Fetched' BY <1>14, <1>15, <1>16, <1>17
<1>. QED BY <1>8, <1>9, <1>12, <1>13, <1>18, <1>19, <1>20, <1>21

\* The ends that were in their turn, and are after the last item was run.
LEMMA RunsLastInTurn ==
  ASSUME LifetimeInv, NEW t \in LifetimeThreads, NEW n, NEW c, NEW d, NEW s, NEW y, RunsLast(t, n, c, d, s, y),
         LifetimeTypeOK', LifeGrows, accepted' = accepted,
         \A i \in DOMAIN calls'[t] : i >= n => i = n \/ i = n + 1,
         (n + 1 \in DOMAIN calls'[t] /\ calls'[t][n + 1].do = "take") =>
           OnItsOwn(calls[t][n + 1].on)' \/ InTurn(t, n + 1, calls[t][n + 1].on)'
  PROVE  EndedInTurn'
<1>1. /\ n \in Nat /\ DOMAIN calls[t] = 1 .. n /\ n >= 1 /\ calls[t][n] = c
      /\ c.do = "run" /\ d.on = c.on /\ SameBut(t, n) /\ calls'[t][n] = d
      /\ n + 1 \in DOMAIN calls'[t] => calls'[t][n + 1].do \in {"take", "erase"}
  BY DEF RunsLast
<1>2. LifetimeTypeOK /\ EndedInTurn BY DEF LifetimeInv
<1>3. n \in DOMAIN calls[t] BY <1>1
<1>4. ASSUME NEW i \in DOMAIN calls'[t], i >= n, calls'[t][i].do \in {"take", "run"}
      PROVE  \/ i = n /\ n \in DOMAIN calls[t] /\ calls[t][n].do \in {"take", "run"} /\ calls[t][n].on = calls'[t][i].on
             \/ OnItsOwn(calls[t][i].on)' \/ InTurn(t, i, calls[t][i].on)'
  <2>1. CASE i = n BY <1>1, <1>3, <2>1
  <2>2. CASE i = n + 1
    <3>1. calls'[t][n + 1].do = "take" BY <1>1, <1>4, <2>2
    <3>. QED BY <1>4, <2>2, <3>1
  <2>. QED BY <1>4, <2>1, <2>2
<1>5. \A x, z : Accepted(z) /\ Before(x, z)' => Before(x, z) BY DEF Before
<1>. QED BY <1>1, <1>2, <1>4, <1>5, StillInTurn

\* it->second() of an action of a user.
LEMMA RunUserKeeps ==
  ASSUME LifetimeInv, NEW t \in LifetimeThreads, calls[t] # <<>>, Top(t).do = "run", Top(t).left # <<>>,
         Last(Top(t).left).kind = "user", ran' = Append(ran, Last(Top(t).left).of),
         Become(t, RunCall(Top(t).on, Without(Top(t).left, Last(Top(t).left)))),
         UNCHANGED <<terminated, actions, nested, given, terminating, accepted>>
  PROVE  LifetimeInv'
<1>1. PICK c : c = Top(t) OBVIOUS
<1>2. PICK n : n = Len(calls[t]) OBVIOUS
<1>3. PICK s : s = c.left OBVIOUS
<1>4. PICK y : y = Last(s) OBVIOUS
<1>5. PICK d : d = RunCall(c.on, Without(s, y)) OBVIOUS
<1>6. LifetimeTypeOK BY DEF LifetimeInv
<1>7. n \in Nat /\ n >= 1 /\ DOMAIN calls[t] = 1 .. n /\ calls[t][n] = c /\ c \in CallTypes
  BY <1>1, <1>2, <1>6, TopIs
<1>8. c.do = "run" /\ s # <<>> BY <1>1, <1>3
<1>9. d \in CallTypes /\ d.do = "run" /\ d.on = c.on /\ d.left = Without(s, y)
      /\ y \in Items /\ Accepted(y) /\ Home(y) = c.on
  <2>1. n \in DOMAIN calls[t] /\ (\A i \in DOMAIN calls[t] : i < n \/ i = n) /\ Full(calls[t][n])
    BY <1>3, <1>7, <1>8 DEF Full
  <2>2. /\ c.on \in Lifetimes /\ s \in Seq(Items) /\ KeptFor(s, c.on) /\ y \in Items /\ Accepted(y)
        /\ Home(y) = c.on
    BY <1>3, <1>4, <1>7, <2>1, LastOfAll
  <2>3. Without(s, y) \in Seq(Items) BY <1>6, <2>2, KeptWithout DEF LifetimeInv
  <2>. QED BY <1>5, <2>2, <2>3 DEF RunCall, CallTypes
<1>10. /\ calls' \in [LifetimeThreads -> Seq(CallTypes)] /\ SameBut(t, n)
       /\ DOMAIN calls'[t] = 1 .. n /\ calls'[t][n] = d
  BY <1>1, <1>2, <1>3, <1>4, <1>5, <1>6, <1>9, Became
<1>11. n + 1 \notin DOMAIN calls'[t] BY <1>7, <1>10
<1>12. RunsLast(t, n, c, d, s, y) BY <1>3, <1>4, <1>7, <1>8, <1>9, <1>10, <1>11 DEF RunsLast
<1>13. PICK b : b = y.of OBVIOUS
<1>14. b \in Actions /\ y = User(b) /\ Home(y) = Owner[b] /\ ran' = Append(ran, b)
  BY <1>1, <1>3, <1>4, <1>9, <1>13, ItemsAre
<1>15. ran' \in Seq(Actions) BY <1>6, <1>14 DEF LifetimeTypeOK
<1>16. terminated' \in [Lifetimes -> BOOLEAN] /\ \A l \in Lifetimes : terminated'[l] = terminated[l]
  BY <1>6 DEF LifetimeTypeOK
<1>17. /\ LifetimeTypeOK' /\ LifeGrows /\ AddedOnce' /\ InMaps' /\ CallsFit' /\ OneRuns' /\ Fetched'
       /\ \A x \in Items : Waiting(x)' <=> Waiting(x) /\ x # y
       /\ \A x \in Items : Before(y, x) /\ Home(x) = Home(y) => ~Waiting(x)
       /\ Waiting(y) /\ Accepted(y) /\ terminated[Home(y)]
       /\ \A i \in DOMAIN calls'[t] : i >= n => i = n \/ i = n + 1
  BY <1>11, <1>12, <1>15, <1>16, RunsLastKeeps
<1>18. EndedInTurn' BY <1>11, <1>12, <1>17, RunsLastInTurn
<1>19. RanRight' /\ NoneLost' /\ InReverse' /\ EndCalled'
  BY <1>6, <1>14, <1>17, HistoryRan DEF LifetimeInv
<1>. QED BY <1>17, <1>18, <1>19 DEF LifetimeInv

\* The calls that an action of a map makes.
LEMMA CallsTyped ==
  /\ \A l \in Lifetimes : TakeCall(l) \in CallTypes /\ TakeCall(l).do = "take" /\ TakeCall(l).on = l
  /\ \A l \in Lifetimes : \A x \in Items :
       EraseCall(l, x) \in CallTypes /\ EraseCall(l, x).do = "erase" /\ EraseCall(l, x).on = l
         /\ EraseCall(l, x).item = x
  BY DEF CallTypes, TakeCall, EraseCall

\* it->second() of the end of a nested lifetime, or of its detaching: call e.
RunsOwn(t, y, e) ==
  /\ calls[t] # <<>> /\ Top(t).do = "run" /\ Top(t).left # <<>> /\ y = Last(Top(t).left)
  /\ calls' = [calls EXCEPT ![t] = Front(@) \o <<RunCall(Top(t).on, Without(Top(t).left, y)), e>>]
  /\ \/ y.kind = "end" /\ e = TakeCall(y.of) /\ terminated' = [terminated EXCEPT ![y.of] = TRUE]
     \/ y.kind = "detach" /\ e = EraseCall(Parent[y.of], EndOf(y.of)) /\ terminated' = terminated
  /\ UNCHANGED <<actions, nested, given, terminating, accepted, ran>>

\* Such a call is made.
LEMMA RunOwnKeeps ==
  ASSUME LifetimeInv, NEW t \in LifetimeThreads, NEW y, NEW e, RunsOwn(t, y, e)
  PROVE  LifetimeInv'
<1>1. PICK c : c = Top(t) OBVIOUS
<1>2. PICK n : n = Len(calls[t]) OBVIOUS
<1>3. PICK s : s = c.left OBVIOUS
<1>4. y = Last(s) BY <1>1, <1>3 DEF RunsOwn
<1>5. PICK d : d = RunCall(c.on, Without(s, y)) OBVIOUS
<1>6. LifetimeTypeOK BY DEF LifetimeInv
<1>7. n \in Nat /\ n >= 1 /\ DOMAIN calls[t] = 1 .. n /\ calls[t][n] = c /\ c \in CallTypes
  BY <1>1, <1>2, <1>6, TopIs DEF RunsOwn
<1>8. c.do = "run" /\ s # <<>> BY <1>1, <1>3 DEF RunsOwn
<1>9. /\ d \in CallTypes /\ d.do = "run" /\ d.on = c.on /\ d.left = Without(s, y) /\ c.on \in Lifetimes
      /\ y \in Items /\ Accepted(y) /\ Home(y) = c.on /\ terminated[c.on]
      /\ \A x \in Items : Home(x) = c.on => (Waiting(x) <=> Contains(s, x))
      /\ \A x : Contains(d.left, x) <=> Contains(s, x) /\ x # y
  <2>1. n \in DOMAIN calls[t] /\ (\A i \in DOMAIN calls[t] : i < n \/ i = n) /\ Full(calls[t][n])
    BY <1>3, <1>7, <1>8 DEF Full
  <2>2. /\ c.on \in Lifetimes /\ s \in Seq(Items) /\ KeptFor(s, c.on) /\ y \in Items /\ Accepted(y)
        /\ Home(y) = c.on /\ terminated[c.on]
        /\ \A x \in Items : Home(x) = c.on => (Waiting(x) <=> Contains(s, x))
    BY <1>3, <1>4, <1>7, <2>1, LastOfAll
  <2>3. Without(s, y) \in Seq(Items) /\ \A x : Contains(Without(s, y), x) <=> Contains(s, x) /\ x # y
    BY <1>6, <2>2, KeptWithout DEF LifetimeInv
  <2>. QED BY <1>5, <2>2, <2>3 DEF RunCall, CallTypes
<1>30. PICK m : m = y.of OBVIOUS
<1>10. /\ m = y.of /\ y.kind \in {"end", "detach"}
       /\ UNCHANGED <<actions, nested, given, terminating, accepted, ran>>
  BY <1>30 DEF RunsOwn
<1>11. m \in Nested /\ m \in Lifetimes /\ Parent[m] \in Lifetimes
  BY <1>9, <1>10, ItemsAre, LifetimeAssumption DEF Nested
<1>12. /\ y.kind = "end" => e = TakeCall(m)
       /\ y.kind = "detach" => e = EraseCall(Parent[m], EndOf(m))
  BY <1>10 DEF RunsOwn
<1>13. /\ e \in CallTypes
       /\ y.kind = "end" => e.do = "take" /\ e.on = m
       /\ y.kind # "end" => e.do = "erase" /\ e.on = Parent[m] /\ e.item = EndOf(m)
  <2>1. EndOf(m) \in Items BY <1>11, ItemsAre
  <2>2. CASE y.kind = "end" BY <1>11, <1>12, <2>2, CallsTyped
  <2>3. CASE y.kind = "detach" BY <1>11, <1>12, <2>1, <2>3, CallsTyped
  <2>. QED BY <1>10, <2>2, <2>3
<1>14. calls[t] # <<>> /\ calls' = [calls EXCEPT ![t] = Front(@) \o <<d, e>>]
  BY <1>1, <1>3, <1>5 DEF RunsOwn
<1>15. /\ calls' \in [LifetimeThreads -> Seq(CallTypes)] /\ SameBut(t, n)
       /\ DOMAIN calls'[t] = 1 .. n + 1 /\ calls'[t][n] = d /\ calls'[t][n + 1] = e
  <2>1. /\ calls' \in [LifetimeThreads -> Seq(CallTypes)] /\ SameBut(t, Len(calls[t]))
        /\ DOMAIN calls'[t] = 1 .. Len(calls[t]) + 1
        /\ calls'[t][Len(calls[t])] = d /\ calls'[t][Len(calls[t]) + 1] = e
    <3>1. d \in CallTypes /\ e \in CallTypes BY <1>9, <1>13
    <3>. QED BY <1>6, <1>14, <3>1, CalledThen
  <2>. QED BY <1>2, <2>1
<1>16. e.do \in {"take", "erase"} BY <1>13
<1>17. RunsLast(t, n, c, d, s, y) BY <1>3, <1>4, <1>7, <1>8, <1>9, <1>15, <1>16 DEF RunsLast
<1>18. /\ terminated' \in [Lifetimes -> BOOLEAN]
       /\ \A l \in Lifetimes : terminated[l] => terminated'[l]
       /\ \A l \in Lifetimes : terminated'[l] /\ ~terminated[l] => l = m /\ y.kind = "end"
       /\ y.kind = "end" => terminated'[m]
  <2>1. \/ y.kind = "end" /\ terminated' = [terminated EXCEPT ![m] = TRUE]
        \/ y.kind = "detach" /\ terminated' = terminated
    BY <1>10 DEF RunsOwn
  <2>2. terminated \in [Lifetimes -> BOOLEAN] BY <1>6 DEF LifetimeTypeOK
  <2>. QED BY <1>11, <2>1, <2>2
<1>19. ran' \in Seq(Actions) BY <1>6, <1>10 DEF LifetimeTypeOK
<1>20. n + 1 \in DOMAIN calls'[t] BY <1>7, <1>15
<1>21. CallFits(calls[t][n + 1])'
  <2>1. CASE y.kind = "end" BY <1>13, <1>15, <1>18, <2>1 DEF CallFits
  <2>2. CASE y.kind = "detach"
    <3>1. c.on = m BY <1>9, <1>10, <2>2 DEF Home
    <3>2. EndOf(m).kind = "end" /\ EndOf(m).of = m /\ Home(EndOf(m)) = Parent[m] BY <1>11, ItemsAre
    <3>3. terminated'[m] BY <1>9, <1>11, <1>18, <3>1
    <3>. QED BY <1>13, <1>15, <2>2, <3>2, <3>3 DEF CallFits
  <2>. QED BY <1>10, <2>1, <2>2
<1>22. /\ LifetimeTypeOK' /\ LifeGrows /\ AddedOnce' /\ InMaps' /\ CallsFit' /\ OneRuns' /\ Fetched'
       /\ \A x \in Items : Waiting(x)' <=> Waiting(x) /\ x # y
       /\ Waiting(y)
       /\ \A i \in DOMAIN calls'[t] : i >= n => i = n \/ i = n + 1
  BY <1>10, <1>13, <1>15, <1>17, <1>18, <1>19, <1>20, <1>21, RunsLastKeeps
<1>23. RanRight' /\ NoneLost' /\ InReverse' /\ EndCalled'
  <2>1. \A a \in Actions : User(a) \in Items /\ User(a) # y BY <1>10, ItemsAre
  <2>2. \A k \in Nested : EndOf(k) \in Items /\ (EndOf(k) = y => k = m /\ y.kind = "end") BY <1>10, ItemsAre
  <2>3. \A k \in Nested : Waiting(EndOf(k)) => Waiting(EndOf(k))' \/ terminated'[k] BY <1>18, <1>22, <2>2
  <2>. QED BY <1>6, <1>10, <1>22, <2>1, <2>3, HistoryKept DEF LifetimeInv
<1>24. ASSUME e.do = "take" PROVE InTurn(t, n + 1, e.on)'
  <2>1. y.kind = "end" /\ e.on = m BY <1>13, <1>24
  <2>2. y = EndOf(m) /\ c.on = Parent[m] BY <1>9, <1>10, <2>1, ItemsAre
  <2>3. Accepted(EndOf(m))' BY <1>9, <1>10, <2>2 DEF Accepted
  <2>4. n + 1 > 1 /\ (n + 1) - 1 = n BY <1>7
  <2>5. ASSUME NEW a \in Actions, Before(User(a), EndOf(m))', Owner[a] = Parent[m]
        PROVE  Contains(d.left, User(a))
    <3>1. Before(User(a), y) /\ Accepted(User(a)) BY <1>10, <2>2, <2>5 DEF Before, Accepted
    <3>2. User(a) \in Items /\ Home(User(a)) = c.on /\ User(a) # y BY <1>10, <2>2, <2>5, ItemsAre
    <3>3. ~Ran(a)
      <4>1. Ran(a) => ~Waiting(y) BY <1>9, <2>2, <2>5, <3>1 DEF InReverse, LifetimeInv
      <4>. QED BY <1>22, <4>1
    <3>4. Waiting(User(a)) BY <3>1, <3>3 DEF NoneLost, LifetimeInv
    <3>. QED BY <1>9, <3>2, <3>4
  <2>6. /\ calls'[t][(n + 1) - 1].do = "run" /\ calls'[t][(n + 1) - 1].on = Parent[m]
        /\ calls'[t][(n + 1) - 1].left = d.left
    BY <1>9, <1>15, <2>2, <2>4
  <2>7. InTurn(t, n + 1, m)' BY <1>11, <2>3, <2>4, <2>5, <2>6 DEF InTurn
  <2>. QED BY <2>1, <2>7
<1>25. EndedInTurn'
  <2>1. calls'[t][n + 1].do = "take" => InTurn(t, n + 1, calls[t][n + 1].on)' BY <1>15, <1>24 DEF InTurn
  <2>. QED BY <1>10, <1>17, <1>22, <2>1, RunsLastInTurn
<1>. QED BY <1>22, <1>23, <1>25 DEF LifetimeInv

\* it->second(), whatever it is.
LEMMA RunNextKeeps ==
  ASSUME LifetimeInv, NEW t \in LifetimeThreads, RunNext(t)
  PROVE  LifetimeInv'
<1>1. PICK y : y = Last(Top(t).left) OBVIOUS
<1>2. /\ calls[t] # <<>> /\ Top(t).do = "run" /\ Top(t).left # <<>>
      /\ UNCHANGED <<actions, nested, given, terminating, accepted>>
  BY DEF RunNext, Doing, Top, histVars
<1>3. \/ /\ y.kind = "user" /\ ran' = Append(ran, y.of) /\ terminated' = terminated
         /\ Become(t, RunCall(Top(t).on, Without(Top(t).left, y)))
      \/ /\ y.kind = "end" /\ terminated' = [terminated EXCEPT ![y.of] = TRUE] /\ ran' = ran
         /\ calls' = [calls EXCEPT ![t] =
              Front(@) \o <<RunCall(Top(t).on, Without(Top(t).left, y)), TakeCall(y.of)>>]
      \/ /\ y.kind = "detach" /\ terminated' = terminated /\ ran' = ran
         /\ calls' = [calls EXCEPT ![t] =
              Front(@) \o <<RunCall(Top(t).on, Without(Top(t).left, y)), EraseCall(Parent[y.of], EndOf(y.of))>>]
  BY <1>1 DEF RunNext, NextLeft
<1>4. CASE y.kind = "user" BY <1>1, <1>2, <1>3, <1>4, RunUserKeeps
<1>5. CASE y.kind = "end"
  <2>1. RunsOwn(t, y, TakeCall(y.of)) BY <1>1, <1>2, <1>3, <1>5 DEF RunsOwn
  <2>. QED BY <2>1, RunOwnKeeps
<1>6. CASE y.kind = "detach"
  <2>1. RunsOwn(t, y, EraseCall(Parent[y.of], EndOf(y.of))) BY <1>1, <1>2, <1>3, <1>6 DEF RunsOwn
  <2>. QED BY <2>1, RunOwnKeeps
<1>. QED BY <1>3, <1>4, <1>5, <1>6
-----------------------------------------------------------------------------
\* The invariant holds at the start.
LEMMA LifetimeInitInv ==
  ASSUME LifetimeInit
  PROVE  LifetimeInv
<1>1. /\ terminated = [l \in Lifetimes |-> FALSE] /\ actions = [l \in Lifetimes |-> <<>>]
      /\ calls = [t \in LifetimeThreads |-> <<>>]
      /\ nested = {} /\ given = {} /\ terminating = {} /\ accepted = <<>> /\ ran = <<>>
  BY DEF LifetimeInit
<1>2. terminated \in [Lifetimes -> BOOLEAN] BY <1>1
<1>3. actions \in [Lifetimes -> Seq(Items)] /\ calls \in [LifetimeThreads -> Seq(CallTypes)] BY <1>1
<1>4. accepted \in Seq(Items) /\ ran \in Seq(Actions) BY <1>1
<1>5. LifetimeTypeOK BY <1>1, <1>2, <1>3, <1>4 DEF LifetimeTypeOK
<1>6. \A t \in LifetimeThreads : DOMAIN calls[t] = {} BY <1>1
<1>7. DOMAIN accepted = {} /\ DOMAIN ran = {} BY <1>1
<1>8. AddedOnce BY <1>6, <1>7 DEF AddedOnce
<1>9. InMaps BY <1>1 DEF InMaps, KeptFor
<1>10. CallsFit /\ OneRuns /\ EndedInTurn BY <1>6 DEF CallsFit, OneRuns, EndedInTurn
<1>11. Fetched BY <1>1 DEF Fetched
<1>12. RanRight /\ NoneLost /\ InReverse BY <1>7 DEF RanRight, NoneLost, InReverse, Ran, Accepted
<1>13. EndCalled BY <1>7 DEF EndCalled, Accepted
<1>. QED BY <1>5, <1>8, <1>9, <1>10, <1>11, <1>12, <1>13 DEF LifetimeInv

\* Every step keeps the invariant.
LEMMA LifetimeStep ==
  ASSUME LifetimeInv, [LifetimeNext]_lifetimeVars
  PROVE  LifetimeInv'
<1>1. CASE UNCHANGED lifetimeVars
  <2>1. /\ terminated' = terminated /\ actions' = actions /\ calls' = calls /\ nested' = nested
        /\ given' = given /\ terminating' = terminating /\ accepted' = accepted /\ ran' = ran
    BY <1>1 DEF lifetimeVars, histVars
  <2>2. LifetimeTypeOK' BY <2>1 DEF LifetimeInv, LifetimeTypeOK
  <2>3. /\ \A x : Accepted(x)' <=> Accepted(x)
        /\ \A x, y : Before(x, y)' <=> Before(x, y)
        /\ \A x : Known(x)' <=> Known(x)
        /\ \A x : Waiting(x)' <=> Waiting(x)
        /\ \A a : Ran(a)' <=> Ran(a)
        /\ \A l : WillTake(l)' <=> WillTake(l)
        /\ \A m : OnItsOwn(m)' <=> OnItsOwn(m)
        /\ \A t, i, x : Adding(t, i, x)' <=> Adding(t, i, x)
    BY <2>1 DEF Accepted, Before, Known, Waiting, WillRun, WillTake, Ran, OnItsOwn, Adding
  <2>4. AddedOnce' BY <2>1, <2>3 DEF LifetimeInv, AddedOnce
  <2>5. \A s, l : KeptFor(s, l)' <=> KeptFor(s, l) BY <2>3 DEF KeptFor
  <2>6. InMaps' BY <2>1, <2>5 DEF LifetimeInv, InMaps
  <2>7. \A c : CallFits(c)' <=> CallFits(c) BY <2>1, <2>5 DEF CallFits
  <2>8. CallsFit' BY <2>1, <2>7 DEF LifetimeInv, CallsFit
  <2>9. OneRuns' BY <2>1 DEF LifetimeInv, OneRuns
  <2>10. Fetched' BY <2>1, <2>3 DEF LifetimeInv, Fetched
  <2>11. RanRight' BY <2>1, <2>3 DEF LifetimeInv, RanRight
  <2>12. NoneLost' /\ InReverse' /\ EndCalled' BY <2>1, <2>3 DEF LifetimeInv, NoneLost, InReverse, EndCalled
  <2>13. \A t, i, m : InTurn(t, i, m)' <=> InTurn(t, i, m) BY <2>1, <2>3 DEF InTurn
  <2>14. EndedInTurn' BY <2>1, <2>3, <2>13 DEF LifetimeInv, EndedInTurn
  <2>. QED BY <2>2, <2>4, <2>6, <2>8, <2>9, <2>10, <2>11, <2>12, <2>14 DEF LifetimeInv
<1>2. ASSUME NEW t \in LifetimeThreads, Step(t) PROVE LifetimeInv'
  BY <1>2, EnterKeeps, AddRefusedKeeps, AddKeeps, TakeKeeps, EraseKeeps, RunNextKeeps, FinishKeeps DEF Step
<1>3. ASSUME NEW t \in LifetimeThreads, NEW a \in Actions, AddAction(t, a) \/ Bracket(t, a) PROVE LifetimeInv'
  BY <1>3, AddActionKeeps
<1>4. ASSUME NEW t \in LifetimeThreads, NEW l \in Lifetimes, CreateNested(t, l) \/ Terminate(t, l)
      PROVE  LifetimeInv'
  BY <1>4, CreateNestedKeeps, TerminateKeeps
<1>. QED BY <1>1, <1>2, <1>3, <1>4 DEF LifetimeNext

\* Types, and where each item is that was handed to a lifetime: about to be added by one call, in
\* the map of its lifetime, about to be run by the one call that took it, or done with (LifetimeImpl).
THEOREM LifetimeInvariance == LifetimeSpec => []LifetimeInv
<1>1. LifetimeInit => LifetimeInv BY LifetimeInitInv
<1>2. LifetimeInv /\ [LifetimeNext]_lifetimeVars => LifetimeInv' BY LifetimeStep
<1>. QED BY <1>1, <1>2, PTL DEF LifetimeSpec

\* A nested lifetime that only its parent ends has done with its actions when an
\* action of the parent runs that was added before it was nested.
LEMMA NestedIsDone ==
  ASSUME LifetimeInv, NEW m \in Nested, NEW b \in Actions, Ran(b), Owner[b] = Parent[m],
         Before(User(b), EndOf(m)), ~OnItsOwn(m), NEW a \in Actions, Owner[a] = m, Accepted(User(a))
  PROVE  Ran(a)
<1>1. SUFFICES ASSUME ~Ran(a) PROVE FALSE OBVIOUS
<1>2. LifetimeTypeOK BY DEF LifetimeInv
<1>3. EndOf(m) \in Items /\ Home(EndOf(m)) = Parent[m] /\ Home(User(a)) = m /\ User(a) \in Items BY ItemsAre
<1>4. ~Waiting(EndOf(m)) BY <1>3 DEF InReverse, LifetimeInv
<1>5. Accepted(EndOf(m)) BY DEF Before, Accepted
<1>6. m \in Lifetimes /\ terminated[m] BY <1>4, <1>5 DEF EndCalled, LifetimeInv, Nested
<1>7. ~Waiting(User(b)) BY DEF Ran, RanRight, LifetimeInv
<1>8. ASSUME NEW t \in LifetimeThreads, NEW i \in DOMAIN calls[t],
             calls[t][i].do \in {"take", "run"}, calls[t][i].on = m
      PROVE  FALSE
  <2>1. InTurn(t, i, m) BY <1>8 DEF EndedInTurn, LifetimeInv
  <2>2. calls[t][i - 1].do = "run" /\ Contains(calls[t][i - 1].left, User(b)) BY <2>1 DEF InTurn
  <2>3. i - 1 \in DOMAIN calls[t]
    <3>1. Len(calls[t]) \in Nat /\ DOMAIN calls[t] = 1 .. Len(calls[t]) BY <1>2, OnStacks
    <3>2. i > 1 BY <2>1 DEF InTurn
    <3>. QED BY <3>1, <3>2
  <2>4. Waiting(User(b)) BY <2>2, <2>3 DEF Waiting, WillRun
  <2>. QED BY <1>7, <2>4
<1>9. Waiting(User(a)) BY <1>1 DEF NoneLost, LifetimeInv
<1>10. CASE Contains(actions[m], User(a))
  <2>1. actions[m] # <<>> BY <1>10, NothingInEmpty
  <2>2. WillTake(m) BY <1>6, <2>1 DEF Fetched, LifetimeInv
  <2>. QED BY <1>8, <2>2 DEF WillTake
<1>11. CASE ~Contains(actions[m], User(a))
  <2>1. PICK t \in LifetimeThreads : \E i \in DOMAIN calls[t] :
          calls[t][i].do = "run" /\ Contains(calls[t][i].left, User(a))
    BY <1>3, <1>9, <1>11 DEF Waiting, WillRun
  <2>2. PICK i \in DOMAIN calls[t] : calls[t][i].do = "run" /\ Contains(calls[t][i].left, User(a)) BY <2>1
  <2>3. PICK d : d = calls[t][i] OBVIOUS
  <2>4. d \in CallTypes /\ CallFits(d) BY <1>2, <2>3, OnStacks DEF CallsFit, LifetimeInv
  <2>5. d.left \in Seq(Items) /\ KeptFor(d.left, d.on) BY <2>2, <2>3, <2>4, CallFields DEF CallFits
  <2>6. d.on = m BY <1>3, <2>2, <2>3, <2>5, KeptHome
  <2>. QED BY <1>8, <2>2, <2>3, <2>6
<1>. QED BY <1>10, <1>11

\* The property follows from the invariant.
LEMMA CorrectByInv ==
  ASSUME LifetimeInv
  PROVE  LifetimeCorrect
<1>1. LifetimeTypeOK BY DEF LifetimeInv
<1>2. accepted \in Seq(Items) /\ ran \in Seq(Actions) BY <1>1 DEF LifetimeTypeOK
<1>3. \A a : Contains(ran, a) <=> Ran(a)
  <2>1. DOMAIN ran = 1 .. Len(ran) BY <1>2
  <2>. QED BY <2>1 DEF Contains, Ran
<1>4. \A x : Contains(accepted, x) <=> Accepted(x)
  <2>1. DOMAIN accepted = 1 .. Len(accepted) BY <1>2
  <2>. QED BY <2>1 DEF Contains, Accepted
<1>5. RunsOnce BY DEF RunsOnce, RanRight, LifetimeInv, IsInjective
<1>6. \A i \in DOMAIN accepted : accepted[i] \in Items BY <1>2
<1>7. NothingForgotten
  <2>1. ASSUME NEW i \in DOMAIN accepted, accepted[i].kind = "user", NEW a, a = accepted[i].of, NEW l, l = Owner[a]
        PROVE  \/ Contains(ran, a)
               \/ \E t \in LifetimeThreads : WillRun(t, accepted[i])
               \/ Contains(actions[l], accepted[i]) /\ (terminated[l] => WillTake(l))
    <3>1. PICK x : x = accepted[i] OBVIOUS
    <3>2. x \in Items /\ x = User(a) /\ a \in Actions /\ Home(x) = l /\ l \in Lifetimes
      BY <1>6, <2>1, <3>1, ItemsAre
    <3>3. Accepted(User(a)) BY <3>1, <3>2 DEF Accepted
    <3>4. Ran(a) \/ Waiting(x) BY <3>2, <3>3 DEF NoneLost, LifetimeInv
    <3>5. Contains(actions[l], x) => actions[l] # <<>> BY NothingInEmpty
    <3>6. actions[l] # <<>> /\ terminated[l] => WillTake(l) BY <3>2 DEF Fetched, LifetimeInv
    <3>. QED BY <1>3, <3>1, <3>2, <3>4, <3>5, <3>6 DEF Waiting
  <2>. QED BY <2>1 DEF NothingForgotten
<1>8. NestedBeforeOuter
  <2>1. ASSUME NEW i \in DOMAIN accepted, NEW j \in DOMAIN accepted, i < j, accepted[i].kind = "user",
               NEW b, b = accepted[i].of, Contains(ran, b), NEW y, y = accepted[j]
        PROVE  /\ b \in Actions /\ Ran(b) /\ Before(User(b), y) /\ y \in Items /\ Accepted(y)
    <3>1. accepted[i] = User(b) /\ b \in Actions BY <1>6, <2>1, ItemsAre
    <3>. QED BY <1>3, <1>6, <2>1, <3>1 DEF Before, Accepted
  <2>2. ASSUME NEW b \in Actions, Ran(b), NEW y \in Items, Accepted(y), Before(User(b), y),
               y.kind = "user", Owner[y.of] = Owner[b]
        PROVE  Contains(ran, y.of)
    <3>1. y = User(y.of) /\ y.of \in Actions /\ Home(y) = Owner[b] BY <2>2, ItemsAre
    <3>2. ~Waiting(y) BY <2>2, <3>1 DEF InReverse, LifetimeInv
    <3>3. Ran(y.of) BY <2>2, <3>1, <3>2 DEF NoneLost, LifetimeInv
    <3>. QED BY <1>3, <3>3
  <2>3. ASSUME NEW b \in Actions, Ran(b), NEW y \in Items, Before(User(b), y),
               y.kind = "end", Parent[y.of] = Owner[b],
               \A t \in LifetimeThreads : <<t, y.of>> \notin terminating,
               NEW a \in Actions, Owner[a] = y.of, Contains(accepted, User(a))
        PROVE  Contains(ran, a)
    <3>1. y = EndOf(y.of) /\ y.of \in Nested BY <2>3, ItemsAre
    <3>2. ~OnItsOwn(y.of) BY <2>3 DEF OnItsOwn
    <3>3. Accepted(User(a)) BY <1>4, <2>3
    <3>4. Ran(a) BY <2>3, <3>1, <3>2, <3>3, NestedIsDone
    <3>. QED BY <1>3, <3>4
  <2>. QED BY <2>1, <2>2, <2>3 DEF NestedBeforeOuter
<1>. QED BY <1>5, <1>7, <1>8 DEF LifetimeCorrect

\* However many threads add to lifetimes and terminate them, nested in any way: what add_action has
\* accepted runs once at most, only when its lifetime is terminated, in reverse order and after what
\* nested lifetimes have, and is never forgotten (add_action, attach_nested and terminate).
THEOREM LifetimeTheorem == LifetimeSpec => []LifetimeCorrect
<1>1. LifetimeInv => LifetimeCorrect BY CorrectByInv
<1>. QED BY <1>1, LifetimeInvariance, PTL
-----------------------------------------------------------------------------
\* SIGNAL
Slots == Listeners \cup {Null}

FireCalls ==
  [queue : Queues, it : Nat \ {0}, alive : Nat \ {0}, end : Nat,
   at : {"next", "checked", "running"}, current : Slots,
   heard : Seq(Listeners), due : SUBSET Listeners]

SignalTypeOK ==
  /\ queue \in [Queues -> Seq(Slots)]
  /\ state \in [Listeners -> {"none", "ACTIVE", "FIRING", "TERMINATED"}]
  /\ action \in [Listeners -> BOOLEAN]
  /\ lifetimeEnding \in [ListenerLifetimes -> {"alive", "running", "ended"}]
  /\ lifetimeActions \in [ListenerLifetimes -> Seq(Listeners)]
  /\ released \subseteq ListenerLifetimes
  /\ advising \in {Null} \cup [listener : Listeners, queue : Queues]
  /\ fireCalls \in Seq(FireCalls) /\ order \in Seq(Listeners)
  /\ missed \subseteq Listeners /\ effects \subseteq {"fire", "advise", "throw"}
  /\ signalFault \in BOOLEAN

\* The listeners advised so far, those that live, and those whose action is to
\* be released by the call of fire that erases them.
Advised == {e \in Listeners : state[e] # "none"}
Living == {e \in Listeners : Alive(e)}
ToRelease == {e \in Listeners : action[e] /\ state[e] \in {"FIRING", "TERMINATED"}}

OlderIn(O, a, b) == \E i, j \in DOMAIN O : i < j /\ O[i] = a /\ O[j] = b
InQueue(Q, q, e) == \E p \in DOMAIN Q[q] : Q[q][p] = e

\* What is known of listeners and lifetimes, whatever handlers do.
EventsKept ==
  /\ \A e \in Listeners : state[e] = "none" <=> e \notin Range(order)
  /\ \A i, j \in DOMAIN order : order[i] = order[j] => i = j
  /\ \A e \in Listeners : state[e] = "none" => ~action[e]
  /\ \A e \in Listeners : state[e] \in {"ACTIVE", "FIRING"} =>
       action[e] /\ (LifetimeOf[e] # Eternal => e \in Range(lifetimeActions[LifetimeOf[e]]))
  /\ \A e \in Listeners : state[e] = "TERMINATED" => ~Alive(e)
  /\ advising # Null => state[advising.listener] = "none"

LifetimesKept ==
  /\ \A l \in ListenerLifetimes : \A e \in Range(lifetimeActions[l]) :
       LifetimeOf[e] = l /\ state[e] # "none"
  /\ \A l \in released : lifetimeActions[l] = <<>> /\ lifetimeEnding[l] = "ended"
  /\ \A l \in ListenerLifetimes : lifetimeEnding[l] # "alive" => l # Eternal

\* A listener is in one place of one queue, once it is advised.
QueuesHold(Q, S) ==
  /\ \A q \in Queues : \A i \in DOMAIN Q[q] : Q[q][i] # Null => Q[q][i] \in S
  /\ \A p, q \in Queues : \A i \in DOMAIN Q[p] : \A j \in DOMAIN Q[q] :
       Q[p][i] = Q[q][j] /\ Q[p][i] # Null => p = q /\ i = j

\* The iterator of a call is where its listener is.
InPlace(Q, c) ==
  c.at # "next" => c.it \in DOMAIN Q[c.queue] /\ Q[c.queue][c.it] = c.current

\* A call has its iterators in order; what it runs is not destroyed.
CallHolds(st, ac, c) ==
  /\ c.alive <= c.it /\ c.it <= c.end + 1
  /\ c.at # "next" => c.it <= c.end /\ c.current \in Listeners /\ st[c.current] # "none"
  /\ c.at = "running" => st[c.current] \in {"FIRING", "TERMINATED"} /\ ac[c.current]
  /\ \A a \in DOMAIN c.heard : st[c.heard[a]] # "none"

CallsHold(Q, st, ac, F) ==
  /\ \A i \in DOMAIN F : CallHolds(st, ac, F[i])
  /\ \A i \in DOMAIN F : i # Len(F) => F[i].at = "running"
  /\ \A i \in DOMAIN F : i = Len(F) /\ F[i].at = "checked" => InPlace(Q, F[i])
  /\ \A i, j \in DOMAIN F :
       F[i].at = "running" /\ F[j].at = "running" /\ F[i].current = F[j].current => i = j
  /\ \A e \in Listeners :
       st[e] = "FIRING" => \E i \in DOMAIN F : F[i].at = "running" /\ F[i].current = e

\* The innermost call that walks a queue erases what is to be released.
LastWalk(F, i, q) ==
  i \in DOMAIN F /\ F[i].queue = q /\ \A j \in DOMAIN F : i < j => F[j].queue # q

LeftErased(Q, L, F) ==
  \A q \in Queues : \A p \in DOMAIN Q[q] : Q[q][p] \in L =>
    \E i \in DOMAIN F : LastWalk(F, i, q) /\ F[i].alive <= p /\ p <= F[i].end /\ InPlace(Q, F[i])

\* As long as no fire is inside another: the living are in order in a queue,
\* and a call hears them in that order.
Ahead(c, p) == c.it < p \/ (c.it = p /\ c.at = "next")

Sorted(s, A, O) ==
  \A i, j \in DOMAIN s : i < j /\ s[i] # Null /\ s[j] \in A => OlderIn(O, s[i], s[j])

ZoneDead(Q, A, c) ==
  \A p \in DOMAIN Q[c.queue] : c.alive <= p /\ p < c.it => Q[c.queue][p] \notin A

PriorityFirst(Q, c) ==
  c.queue = "priority" => \A a \in DOMAIN c.heard : ~InQueue(Q, "normal", c.heard[a])

HeardInOrder(Q, O, c) ==
  \A q \in Queues : \A a, b \in DOMAIN c.heard :
    a < b /\ InQueue(Q, q, c.heard[a]) /\ InQueue(Q, q, c.heard[b])
      => OlderIn(O, c.heard[a], c.heard[b])

HeardFirst(Q, A, O, c) ==
  \A a \in DOMAIN c.heard : InQueue(Q, c.queue, c.heard[a]) =>
    /\ c.at = "checked" => OlderIn(O, c.heard[a], c.current)
    /\ \A p \in DOMAIN Q[c.queue] :
         Ahead(c, p) /\ Q[c.queue][p] \in A => OlderIn(O, c.heard[a], Q[c.queue][p])

CallInOrder(Q, A, O, c) ==
  /\ InPlace(Q, c) /\ ZoneDead(Q, A, c) /\ PriorityFirst(Q, c)
  /\ HeardInOrder(Q, O, c) /\ HeardFirst(Q, A, O, c)

AllQueued(Q, A, S) == \A e \in A \cap S : \E q \in Queues : InQueue(Q, q, e)

SingleHolds(Q, A, O, S, F) ==
  /\ AllQueued(Q, A, S) /\ \A q \in Queues : Sorted(Q[q], A, O)
  /\ \A i \in DOMAIN F : i = 1 /\ CallInOrder(Q, A, O, F[i])

\* As long as handlers just return: what is due is still to come.
ToCome(Q, c, e) ==
  \/ \E p \in DOMAIN Q[c.queue] :
       Q[c.queue][p] = e /\ (Ahead(c, p) \/ (c.it = p /\ c.at = "checked"))
  \/ c.queue = "priority" /\ InQueue(Q, "normal", e)

CallComplete(Q, A, c) ==
  /\ c.end = Len(Q[c.queue])
  /\ \A e \in c.due \cap A : e \in Range(c.heard) \/ ToCome(Q, c, e)

NoHoles(Q, F) ==
  \A q \in Queues : \A p \in DOMAIN Q[q] : Q[q][p] = Null =>
    \E k \in DOMAIN F : F[k].queue = q /\ F[k].alive <= p /\ p < F[k].it

UndisturbedHolds(Q, A, F) ==
  NoHoles(Q, F) /\ \A k \in DOMAIN F : CallComplete(Q, A, F[k])

SignalInv ==
  /\ SignalTypeOK /\ EventsKept /\ LifetimesKept
  /\ QueuesHold(queue, Advised) /\ CallsHold(queue, state, action, fireCalls)
  /\ advising # Null /\ fireCalls # <<>> => TopFire.at = "running" /\ "advise" \in effects
  /\ "throw" \notin effects /\ ~signalFault => LeftErased(queue, ToRelease, fireCalls)
  /\ "fire" \notin effects => SingleHolds(queue, Living, order, Advised, fireCalls)
  /\ effects = {} => ~signalFault /\ missed = {} /\ UndisturbedHolds(queue, Living, fireCalls)
-----------------------------------------------------------------------------
\* The fields of a call.
LEMMA CallIs ==
  ASSUME NEW c \in FireCalls
  PROVE  /\ c.queue \in Queues /\ c.it \in Nat /\ c.it >= 1 /\ c.alive \in Nat /\ c.alive >= 1
         /\ c.end \in Nat /\ c.at \in {"next", "checked", "running"} /\ c.current \in Slots
         /\ c.heard \in Seq(Listeners) /\ c.due \subseteq Listeners
BY DEF FireCalls

\* The innermost call of fire.
LEMMA FireTop ==
  ASSUME NEW F \in Seq(FireCalls), F # <<>>
  PROVE  /\ Len(F) \in Nat /\ Len(F) >= 1 /\ DOMAIN F = 1 .. Len(F) /\ Len(F) \in DOMAIN F
         /\ Last(F) = F[Len(F)] /\ Last(F) \in FireCalls
<1>1. Len(F) \in Nat /\ Len(F) >= 1 /\ Last(F) = F[Len(F)] /\ Last(F) \in FireCalls BY FrontIs
<1>2. DOMAIN F = 1 .. Len(F) OBVIOUS
<1>. QED BY <1>1, <1>2

Replaces(F, G, c) ==
  /\ G \in Seq(FireCalls) /\ Len(G) = Len(F) /\ DOMAIN G = DOMAIN F /\ G[Len(F)] = c
  /\ \A i \in DOMAIN F : i # Len(F) => G[i] = F[i]

Pops(F, G) ==
  /\ G \in Seq(FireCalls) /\ Len(G) = Len(F) - 1
  /\ \A i \in DOMAIN G : i \in DOMAIN F /\ i # Len(F) /\ G[i] = F[i]
  /\ \A i \in DOMAIN F : i # Len(F) => i \in DOMAIN G

Pushes(F, G, c) ==
  /\ G \in Seq(FireCalls) /\ Len(G) = Len(F) + 1 /\ Len(G) \in DOMAIN G /\ G[Len(G)] = c
  /\ \A i \in DOMAIN F : i \in DOMAIN G /\ i < Len(G) /\ G[i] = F[i]
  /\ \A i \in DOMAIN G : i # Len(G) => i \in DOMAIN F

\* The innermost call goes on, ends, or makes another.
LEMMA TopReplaced ==
  ASSUME NEW F \in Seq(FireCalls), F # <<>>, NEW c \in FireCalls
  PROVE  Replaces(F, Append(Front(F), c), c)
<1>1. PICK n : n = Len(F) /\ n \in Nat /\ n >= 1 BY FireTop
<1>2. PICK f : f = Front(F) OBVIOUS
<1>3. f \in Seq(FireCalls) /\ Len(f) = n - 1 /\ \A i \in 1 .. n - 1 : f[i] = F[i]
  BY <1>1, <1>2, FrontIs
<1>4. PICK g : g = Append(f, c) OBVIOUS
<1>5. g \in Seq(FireCalls) /\ Len(g) = n /\ g[n] = c /\ \A i \in 1 .. n - 1 : g[i] = f[i]
  <2>1. g \in Seq(FireCalls) /\ Len(g) = Len(f) + 1 /\ g[Len(f) + 1] = c BY <1>3, <1>4
  <2>2. \A i \in 1 .. Len(f) : g[i] = f[i] BY <1>3, <1>4
  <2>. QED BY <2>1, <2>2, <1>1, <1>3
<1>6. DOMAIN F = 1 .. n /\ DOMAIN g = 1 .. n BY <1>1, <1>5
<1>7. \A i \in 1 .. n : i # n => g[i] = F[i] BY <1>1, <1>3, <1>5
<1>. QED BY <1>1, <1>2, <1>4, <1>5, <1>6, <1>7 DEF Replaces

\* The innermost call leaves the others as they are.
LEMMA TopPopped ==
  ASSUME NEW F \in Seq(FireCalls), F # <<>>
  PROVE  Pops(F, Front(F))
<1>1. PICK n : n = Len(F) /\ n \in Nat /\ n >= 1 BY FireTop
<1>2. PICK f : f = Front(F) OBVIOUS
<1>3. f \in Seq(FireCalls) /\ Len(f) = n - 1 /\ \A i \in 1 .. n - 1 : f[i] = F[i]
  BY <1>1, <1>2, FrontIs
<1>4. DOMAIN F = 1 .. n /\ DOMAIN f = 1 .. n - 1 BY <1>1, <1>3
<1>5. \A i \in 1 .. n - 1 : i \in 1 .. n /\ i # n BY <1>1
<1>6. \A i \in 1 .. n : i # n => i \in 1 .. n - 1 BY <1>1
<1>. QED BY <1>1, <1>2, <1>3, <1>4, <1>5, <1>6 DEF Pops

\* A call that is made is the last, after all others.
LEMMA TopPushed ==
  ASSUME NEW F \in Seq(FireCalls), NEW c \in FireCalls
  PROVE  Pushes(F, Append(F, c), c)
<1>1. PICK n : n = Len(F) /\ n \in Nat OBVIOUS
<1>2. PICK g : g = Append(F, c) OBVIOUS
<1>3. g \in Seq(FireCalls) /\ Len(g) = n + 1 /\ g[n + 1] = c /\ \A i \in 1 .. n : g[i] = F[i]
  BY <1>1, <1>2
<1>4. DOMAIN F = 1 .. n /\ DOMAIN g = 1 .. n + 1 BY <1>1, <1>3
<1>5. /\ n + 1 \in 1 .. n + 1 /\ \A i \in 1 .. n : i \in 1 .. n + 1 /\ i < n + 1
      /\ \A i \in 1 .. n + 1 : i # n + 1 => i \in 1 .. n
  BY <1>1
<1>. QED BY <1>1, <1>2, <1>3, <1>4, <1>5 DEF Pushes

\* The listener at it is moved to alive.
LEMMA MovedIs ==
  ASSUME NEW s \in Seq(Slots), NEW c \in FireCalls, c.alive <= c.it, c.it \in DOMAIN s
  PROVE  /\ MovedTogether(c, s) \in Seq(Slots) /\ DOMAIN MovedTogether(c, s) = DOMAIN s
         /\ Len(MovedTogether(c, s)) = Len(s)
         /\ c.alive \in DOMAIN s /\ MovedTogether(c, s)[c.alive] = s[c.it]
         /\ c.alive # c.it => MovedTogether(c, s)[c.it] = Null
         /\ \A p \in DOMAIN s : p # c.alive /\ p # c.it => MovedTogether(c, s)[p] = s[p]
<1>1. PICK n : n = Len(s) /\ n \in Nat OBVIOUS
<1>2. DOMAIN s = 1 .. n BY <1>1
<1>3. c.it \in Nat /\ c.alive \in Nat /\ c.alive >= 1 BY CallIs
<1>4. c.it \in 1 .. n /\ c.alive \in 1 .. n BY <1>1, <1>2, <1>3
<1>5. CASE c.alive = c.it
  <2>1. MovedTogether(c, s) = s BY <1>5 DEF MovedTogether
  <2>. QED BY <2>1, <1>2, <1>4, <1>5
<1>6. CASE c.alive # c.it
  <2>1. PICK t : t = [s EXCEPT ![c.alive] = s[c.it], ![c.it] = Null] OBVIOUS
  <2>2. MovedTogether(c, s) = t BY <1>6, <2>1 DEF MovedTogether
  <2>3. \A p \in 1 .. n : s[p] \in Slots BY <1>1
  <2>4. Null \in Slots BY DEF Slots
  <2>5. DOMAIN t = 1 .. n /\ \A p \in 1 .. n : t[p] = IF p = c.it THEN Null ELSE IF p = c.alive THEN s[c.it] ELSE s[p]
    BY <1>2, <1>4, <2>1
  <2>6. t \in [1 .. n -> Slots]
    <3>1. t = [p \in 1 .. n |-> t[p]] BY <1>2, <2>1
    <3>. QED BY <3>1, <2>3, <2>4, <2>5, <1>4
  <2>7. t \in Seq(Slots) /\ Len(t) = n BY <2>6, <1>1
  <2>. QED BY <1>1, <1>2, <1>4, <1>6, <2>2, <2>5, <2>7
<1>. QED BY <1>5, <1>6

\* The places from alive to end are erased.
Erased(s, a, b) == SubSeq(s, 1, a - 1) \o SubSeq(s, b + 1, Len(s))
Unshifted(a, b, p) == IF p < a THEN p ELSE p + (b + 1 - a)

\* What is left has kept its order, and nothing else is gone.
LEMMA ErasedIs ==
  ASSUME NEW s \in Seq(Slots), NEW a \in Nat, NEW b \in Nat, 1 <= a, a <= b, b <= Len(s)
  PROVE  /\ Erased(s, a, b) \in Seq(Slots) /\ Len(Erased(s, a, b)) = Len(s) - (b + 1 - a)
         /\ \A p \in DOMAIN Erased(s, a, b) :
              /\ Unshifted(a, b, p) \in DOMAIN s /\ Erased(s, a, b)[p] = s[Unshifted(a, b, p)]
              /\ ~(a <= Unshifted(a, b, p) /\ Unshifted(a, b, p) <= b)
              /\ \A p2 \in DOMAIN Erased(s, a, b) : p < p2 => Unshifted(a, b, p) < Unshifted(a, b, p2)
         /\ \A p \in DOMAIN s : ~(a <= p /\ p <= b) =>
              \E p2 \in DOMAIN Erased(s, a, b) : Erased(s, a, b)[p2] = s[p]
<1>1. PICK n : n = Len(s) /\ n \in Nat OBVIOUS
<1>2. \A i \in 1 .. n : s[i] \in Slots BY <1>1
<1>3. /\ 1 \in Int /\ a - 1 \in Int /\ b + 1 \in Int /\ n \in Int
      /\ \A i \in 1 .. a - 1 : s[i] \in Slots
      /\ \A i \in b + 1 .. n : s[i] \in Slots
  BY <1>1, <1>2
<1>4. PICK f : f = SubSeq(s, 1, a - 1) OBVIOUS
<1>5. PICK g : g = SubSeq(s, b + 1, n) OBVIOUS
<1>6. /\ f \in Seq(Slots) /\ Len(f) = IF 1 <= a - 1 THEN a - 1 - 1 + 1 ELSE 0
      /\ \A i \in 1 .. a - 1 - 1 + 1 : f[i] = s[1 + i - 1]
  BY <1>3, <1>4, SubSeqProperties
<1>7. /\ g \in Seq(Slots) /\ Len(g) = IF b + 1 <= n THEN n - (b + 1) + 1 ELSE 0
      /\ \A i \in 1 .. n - (b + 1) + 1 : g[i] = s[(b + 1) + i - 1]
  BY <1>3, <1>5, SubSeqProperties
<1>8. Len(f) = a - 1 /\ \A i \in 1 .. a - 1 : f[i] = s[i] BY <1>6
<1>9. Len(g) = n - b /\ \A i \in 1 .. n - b : g[i] = s[b + i] BY <1>1, <1>7
<1>10. /\ f \o g \in Seq(Slots) /\ Len(f \o g) = Len(f) + Len(g)
       /\ \A i \in 1 .. Len(f) + Len(g) : (f \o g)[i] = IF i <= Len(f) THEN f[i] ELSE g[i - Len(f)]
  BY <1>6, <1>7, ConcatProperties
<1>11. PICK t : t = f \o g OBVIOUS
<1>12. t = Erased(s, a, b) BY <1>1, <1>4, <1>5, <1>11 DEF Erased
<1>13. PICK m : m = n - (b + 1 - a) /\ m \in Nat BY <1>1
<1>14. Len(f) + Len(g) = m BY <1>1, <1>8, <1>9, <1>13
<1>15. t \in Seq(Slots) /\ Len(t) = m BY <1>10, <1>11, <1>14
<1>16. DOMAIN t = 1 .. m /\ DOMAIN s = 1 .. n BY <1>1, <1>15
<1>17. \A i \in 1 .. m : t[i] = IF i <= a - 1 THEN f[i] ELSE g[i - (a - 1)]
  BY <1>8, <1>10, <1>11, <1>14
<1>18. ASSUME NEW p \in 1 .. m
       PROVE  Unshifted(a, b, p) \in 1 .. n /\ t[p] = s[Unshifted(a, b, p)]
  <2>1. CASE p < a
    <3>1. Unshifted(a, b, p) = p /\ p \in 1 .. a - 1 /\ p \in 1 .. n BY <2>1, <1>1, <1>13 DEF Unshifted
    <3>2. t[p] = f[p] BY <1>17, <3>1
    <3>. QED BY <3>1, <3>2, <1>8
  <2>2. CASE ~(p < a)
    <3>1. /\ Unshifted(a, b, p) = p + (b + 1 - a) /\ p - (a - 1) \in 1 .. n - b
          /\ Unshifted(a, b, p) = b + (p - (a - 1)) /\ Unshifted(a, b, p) \in 1 .. n
      BY <2>2, <1>1, <1>13 DEF Unshifted
    <3>2. t[p] = g[p - (a - 1)] BY <1>17, <2>2
    <3>3. g[p - (a - 1)] = s[b + (p - (a - 1))] BY <3>1, <1>9
    <3>. QED BY <3>1, <3>2, <3>3
  <2>. QED BY <2>1, <2>2
<1>19. ASSUME NEW p \in 1 .. m
       PROVE  /\ ~(a <= Unshifted(a, b, p) /\ Unshifted(a, b, p) <= b)
              /\ \A p2 \in 1 .. m : p < p2 => Unshifted(a, b, p) < Unshifted(a, b, p2)
  BY <1>1, <1>13 DEF Unshifted
<1>20. ASSUME NEW p \in 1 .. n, ~(a <= p /\ p <= b)
       PROVE  \E p2 \in 1 .. m : t[p2] = s[p]
  <2>1. CASE p < a
    <3>1. p \in 1 .. m /\ Unshifted(a, b, p) = p BY <2>1, <1>1, <1>13 DEF Unshifted
    <3>. QED BY <3>1, <1>18
  <2>2. CASE p > b
    <3>1. p - (b + 1 - a) \in 1 .. m /\ Unshifted(a, b, p - (b + 1 - a)) = p
      BY <2>2, <1>1, <1>13 DEF Unshifted
    <3>. QED BY <3>1, <1>18
  <2>. QED BY <2>1, <2>2, <1>20
<1>. QED BY <1>1, <1>12, <1>13, <1>15, <1>16, <1>18, <1>19, <1>20
-----------------------------------------------------------------------------
\* A listener that stays is moved.
AllQueues == [Queues -> Seq(Slots)]

Moves(Q, R, c) ==
  /\ R \in AllQueues /\ \A q \in Queues : q # c.queue => R[q] = Q[q]
  /\ c.alive <= c.it /\ c.alive \in DOMAIN Q[c.queue] /\ c.it \in DOMAIN Q[c.queue]
  /\ DOMAIN R[c.queue] = DOMAIN Q[c.queue] /\ Len(R[c.queue]) = Len(Q[c.queue])
  /\ R[c.queue][c.alive] = Q[c.queue][c.it]
  /\ c.alive # c.it => R[c.queue][c.it] = Null
  /\ \A p \in DOMAIN Q[c.queue] : p # c.alive /\ p # c.it => R[c.queue][p] = Q[c.queue][p]

\* MovedTogether does that to a queue, and nothing to the other.
LEMMA MoveIs ==
  ASSUME NEW Q \in AllQueues, NEW c \in FireCalls, c.alive <= c.it, c.it \in DOMAIN Q[c.queue]
  PROVE  Moves(Q, [Q EXCEPT ![c.queue] = MovedTogether(c, @)], c)
<1>1. c.queue \in Queues /\ Q[c.queue] \in Seq(Slots) BY CallIs DEF AllQueues
<1>2. PICK t : t = MovedTogether(c, Q[c.queue]) OBVIOUS
<1>3. PICK s : s = Q[c.queue] OBVIOUS
<1>4. /\ t \in Seq(Slots) /\ DOMAIN t = DOMAIN s /\ Len(t) = Len(s)
      /\ c.alive \in DOMAIN s /\ t[c.alive] = s[c.it] /\ (c.alive # c.it => t[c.it] = Null)
      /\ \A p \in DOMAIN s : p # c.alive /\ p # c.it => t[p] = s[p]
  BY <1>1, <1>2, <1>3, MovedIs
<1>5. PICK R : R = [Q EXCEPT ![c.queue] = t] OBVIOUS
<1>6. R \in AllQueues /\ R[c.queue] = t /\ \A q \in Queues : q # c.queue => R[q] = Q[q]
  BY <1>1, <1>4, <1>5 DEF AllQueues
<1>7. Moves(Q, R, c) BY <1>3, <1>4, <1>6 DEF Moves
<1>. QED BY <1>2, <1>5, <1>7

\* Where a listener was before.
Source(c, q, p) == IF q = c.queue /\ p = c.alive THEN c.it ELSE p

\* Whoever is in a queue after the move was in it before, where Source says.
LEMMA MovedFrom ==
  ASSUME NEW Q \in AllQueues, NEW R, NEW c \in FireCalls, Moves(Q, R, c),
         NEW q \in Queues, NEW p \in DOMAIN R[q], R[q][p] # Null
  PROVE  /\ Source(c, q, p) \in DOMAIN Q[q] /\ Q[q][Source(c, q, p)] = R[q][p]
         /\ q = c.queue /\ p # c.alive => p # c.it
<1>1. CASE q # c.queue BY <1>1 DEF Moves, Source
<1>2. CASE q = c.queue /\ p = c.alive BY <1>2 DEF Moves, Source
<1>3. CASE q = c.queue /\ p # c.alive
  <2>1. p # c.it BY <1>3 DEF Moves
  <2>. QED BY <1>3, <2>1 DEF Moves, Source
<1>. QED BY <1>1, <1>2, <1>3

\* The move brings nobody into a queue.
LEMMA MovedStaysIn ==
  ASSUME NEW Q \in AllQueues, NEW R, NEW c \in FireCalls, Moves(Q, R, c),
         NEW q \in Queues, NEW e \in Listeners, InQueue(R, q, e)
  PROVE  InQueue(Q, q, e)
<1>1. PICK p \in DOMAIN R[q] : R[q][p] = e BY DEF InQueue
<1>2. R[q][p] # Null BY <1>1, SignalAssumption
<1>. QED BY <1>1, <1>2, MovedFrom DEF InQueue

\* After the move each listener is still in one place.
LEMMA MovedQueuesHold ==
  ASSUME NEW Q \in AllQueues, NEW R, NEW c \in FireCalls, Moves(Q, R, c), NEW S, QueuesHold(Q, S)
  PROVE  QueuesHold(R, S)
<1>1. ASSUME NEW q \in Queues, NEW i \in DOMAIN R[q], R[q][i] # Null PROVE R[q][i] \in S
  BY <1>1, MovedFrom DEF QueuesHold
<1>2. ASSUME NEW p \in Queues, NEW q \in Queues, NEW i \in DOMAIN R[p], NEW j \in DOMAIN R[q],
             R[p][i] = R[q][j], R[p][i] # Null
      PROVE  p = q /\ i = j
  <2>1. /\ Source(c, p, i) \in DOMAIN Q[p] /\ Q[p][Source(c, p, i)] = R[p][i]
        /\ p = c.queue /\ i # c.alive => i # c.it
    BY <1>2, MovedFrom
  <2>2. /\ Source(c, q, j) \in DOMAIN Q[q] /\ Q[q][Source(c, q, j)] = R[q][j]
        /\ q = c.queue /\ j # c.alive => j # c.it
    BY <1>2, MovedFrom
  <2>3. p = q /\ Source(c, p, i) = Source(c, q, j) BY <2>1, <2>2, <1>2 DEF QueuesHold
  <2>. QED BY <2>1, <2>2, <2>3 DEF Source
<1>. QED BY <1>1, <1>2 DEF QueuesHold

\* Over the dead, the living may move up and are still in order.
LEMMA MovedSorted ==
  ASSUME NEW Q \in AllQueues, NEW R, NEW c \in FireCalls, Moves(Q, R, c),
         NEW A \in SUBSET Listeners, NEW O, ZoneDead(Q, A, c), NEW q \in Queues, Sorted(Q[q], A, O)
  PROVE  Sorted(R[q], A, O)
<1>. SUFFICES ASSUME NEW i \in DOMAIN R[q], NEW j \in DOMAIN R[q], i < j,
                     R[q][i] # Null, R[q][j] \in A
              PROVE  OlderIn(O, R[q][i], R[q][j])
  BY DEF Sorted
<1>1. R[q][j] # Null BY SignalAssumption
<1>2. PICK a : a = Source(c, q, i) /\ a \in DOMAIN Q[q] /\ Q[q][a] = R[q][i] BY MovedFrom
<1>3. PICK b : /\ b = Source(c, q, j) /\ b \in DOMAIN Q[q] /\ Q[q][b] = R[q][j]
               /\ q = c.queue /\ j # c.alive => j # c.it
  BY <1>1, MovedFrom
<1>4. /\ i \in Nat /\ j \in Nat /\ c.it \in Nat /\ c.alive \in Nat /\ c.alive <= c.it
  <2>1. R[q] \in Seq(Slots) BY DEF Moves, AllQueues
  <2>2. DOMAIN R[q] = 1 .. Len(R[q]) /\ Len(R[q]) \in Nat BY <2>1
  <2>3. i \in Nat /\ j \in Nat BY <2>2
  <2>. QED BY <2>3, CallIs DEF Moves
<1>5. a < b
  <2>1. CASE q = c.queue /\ i = c.alive
    <3>1. a = c.it /\ b = j /\ j # c.it BY <2>1, <1>2, <1>3, <1>4 DEF Source
    <3>2. ~(c.alive <= j /\ j < c.it) BY <3>1, <2>1, <1>3 DEF ZoneDead
    <3>. QED BY <3>1, <3>2, <2>1, <1>4
  <2>2. CASE q = c.queue /\ i # c.alive /\ j = c.alive
    <3>1. a = i /\ b = c.it BY <2>2, <1>2, <1>3 DEF Source
    <3>. QED BY <3>1, <2>2, <1>4
  <2>3. CASE q # c.queue \/ (i # c.alive /\ j # c.alive) BY <2>3, <1>2, <1>3 DEF Source
  <2>. QED BY <2>1, <2>2, <2>3
<1>. QED BY <1>2, <1>3, <1>5 DEF Sorted

\* Nobody who lives is overwritten by the move.
LEMMA MovedAllQueued ==
  ASSUME NEW Q \in AllQueues, NEW R, NEW c \in FireCalls, Moves(Q, R, c),
         NEW A \in SUBSET Listeners, NEW S, ZoneDead(Q, A, c), AllQueued(Q, A, S)
  PROVE  AllQueued(R, A, S)
<1>. SUFFICES ASSUME NEW e \in A \cap S PROVE \E q \in Queues : InQueue(R, q, e) BY DEF AllQueued
<1>0. PICK q \in Queues : InQueue(Q, q, e) BY DEF AllQueued
<1>1. PICK p \in DOMAIN Q[q] : Q[q][p] = e BY <1>0 DEF InQueue
<1>2. CASE q # c.queue BY <1>1, <1>2 DEF InQueue, Moves
<1>3. CASE q = c.queue
  <2>1. c.it \in Nat /\ c.alive \in Nat /\ c.alive <= c.it BY CallIs DEF Moves
  <2>2. CASE p = c.it
    <3>1. R[q][c.alive] = e /\ c.alive \in DOMAIN R[q] BY <1>1, <1>3, <2>2 DEF Moves
    <3>. QED BY <3>1 DEF InQueue
  <2>3. CASE p # c.it
    <3>1. p # c.alive BY <1>1, <1>3, <2>1, <2>3 DEF ZoneDead
    <3>2. R[q][p] = e /\ p \in DOMAIN R[q] BY <1>1, <1>3, <2>3, <3>1 DEF Moves
    <3>. QED BY <3>2 DEF InQueue
  <2>. QED BY <2>2, <2>3
<1>. QED BY <1>2, <1>3

\* What a call is after its listener has been moved.
MovedOn(c, d) ==
  /\ d \in FireCalls /\ d.queue = c.queue /\ d.it = c.it + 1 /\ d.alive = c.alive + 1
  /\ d.end = c.end /\ d.at = "next" /\ d.current = Null /\ d.heard = c.heard /\ d.due = c.due

\* The call goes on in order after it has moved its listener.
LEMMA MovedInOrder ==
  ASSUME NEW Q \in AllQueues, NEW R, NEW c \in FireCalls, Moves(Q, R, c), c.at = "running",
         NEW A \in SUBSET Listeners, NEW O, CallInOrder(Q, A, O, c), NEW d, MovedOn(c, d)
  PROVE  CallInOrder(R, A, O, d)
<1>1. /\ c.it \in Nat /\ c.alive \in Nat /\ c.alive <= c.it /\ c.queue \in Queues
      /\ DOMAIN R[c.queue] = DOMAIN Q[c.queue] /\ R[c.queue] \in Seq(Slots)
  BY CallIs DEF Moves, AllQueues
<1>2. \A p \in DOMAIN R[c.queue] : p \in Nat
  <2>1. DOMAIN R[c.queue] = 1 .. Len(R[c.queue]) BY <1>1
  <2>. QED BY <2>1
<1>3. \A a \in DOMAIN c.heard : c.heard[a] \in Listeners BY CallIs
<1>4. InPlace(R, d) BY DEF InPlace, MovedOn
<1>5. ZoneDead(R, A, d)
  <2>. SUFFICES ASSUME NEW p \in DOMAIN R[c.queue], c.alive + 1 <= p, p < c.it + 1
                PROVE  R[c.queue][p] \notin A
    BY DEF ZoneDead, MovedOn
  <2>1. p \in Nat /\ p # c.alive BY <1>1, <1>2
  <2>2. CASE p = c.it BY <2>1, <2>2, SignalAssumption DEF Moves
  <2>3. CASE p # c.it
    <3>1. p < c.it /\ c.alive <= p BY <2>1, <2>3, <1>1
    <3>2. R[c.queue][p] = Q[c.queue][p] BY <2>1, <2>3, <1>1 DEF Moves
    <3>. QED BY <3>1, <3>2, <1>1 DEF CallInOrder, ZoneDead
  <2>. QED BY <2>2, <2>3
<1>6. PriorityFirst(R, d)
  <2>1. \A a \in DOMAIN c.heard : InQueue(R, "normal", c.heard[a]) => InQueue(Q, "normal", c.heard[a])
    BY <1>3, MovedStaysIn DEF Queues
  <2>. QED BY <2>1 DEF CallInOrder, PriorityFirst, MovedOn
<1>7. HeardInOrder(R, O, d)
  <2>1. \A q \in Queues : \A a \in DOMAIN c.heard : InQueue(R, q, c.heard[a]) => InQueue(Q, q, c.heard[a])
    BY <1>3, MovedStaysIn
  <2>. QED BY <2>1 DEF CallInOrder, HeardInOrder, MovedOn
<1>8. HeardFirst(R, A, O, d)
  <2>. SUFFICES ASSUME NEW a \in DOMAIN c.heard, InQueue(R, c.queue, c.heard[a]),
                       NEW p \in DOMAIN R[c.queue], Ahead(d, p), R[c.queue][p] \in A
                PROVE  OlderIn(O, c.heard[a], R[c.queue][p])
    BY DEF HeardFirst, MovedOn
  <2>1. InQueue(Q, c.queue, c.heard[a]) BY <1>1, <1>3, MovedStaysIn
  <2>2. p \in Nat /\ c.it < p BY <1>1, <1>2 DEF Ahead, MovedOn
  <2>3. R[c.queue][p] = Q[c.queue][p] BY <2>2, <1>1 DEF Moves
  <2>4. Ahead(c, p) BY <2>2 DEF Ahead
  <2>. QED BY <2>1, <2>3, <2>4, <1>1 DEF CallInOrder, HeardFirst
<1>. QED BY <1>4, <1>5, <1>6, <1>7, <1>8 DEF CallInOrder
-----------------------------------------------------------------------------
\* The erasure at the end of a walk.
Back(c, p) == IF c.alive > c.end THEN p ELSE Unshifted(c.alive, c.end, p)

Erases(Q, R, c) ==
  /\ R \in AllQueues /\ \A q \in Queues : q # c.queue => R[q] = Q[q]
  /\ \A p \in DOMAIN R[c.queue] :
       /\ Back(c, p) \in DOMAIN Q[c.queue] /\ R[c.queue][p] = Q[c.queue][Back(c, p)]
       /\ ~(c.alive <= Back(c, p) /\ Back(c, p) <= c.end)
       /\ \A p2 \in DOMAIN R[c.queue] : p < p2 => Back(c, p) < Back(c, p2)
  /\ \A p \in DOMAIN Q[c.queue] : ~(c.alive <= p /\ p <= c.end) =>
       \E p2 \in DOMAIN R[c.queue] : R[c.queue][p2] = Q[c.queue][p]

\* The erasure of EndWalk does that, or nothing if nobody is left to erase.
LEMMA EraseIs ==
  ASSUME NEW Q \in AllQueues, NEW c \in FireCalls, c.alive <= c.end => c.end <= Len(Q[c.queue]),
         NEW R, R = IF c.alive > c.end THEN Q
                    ELSE [Q EXCEPT ![c.queue] = Erased(Q[c.queue], c.alive, c.end)]
  PROVE  Erases(Q, R, c)
<1>1. c.queue \in Queues /\ Q[c.queue] \in Seq(Slots) /\ c.alive \in Nat /\ c.alive >= 1 /\ c.end \in Nat
  BY CallIs DEF AllQueues
<1>2. CASE c.alive > c.end
  <2>1. R = Q BY <1>2
  <2>2. \A p \in DOMAIN Q[c.queue] : p \in Nat
    <3>1. DOMAIN Q[c.queue] = 1 .. Len(Q[c.queue]) BY <1>1
    <3>. QED BY <3>1
  <2>3. \A p \in DOMAIN Q[c.queue] : Back(c, p) = p /\ ~(c.alive <= p /\ p <= c.end)
    BY <1>1, <1>2, <2>2 DEF Back
  <2>. QED BY <2>1, <2>3 DEF Erases
<1>3. CASE ~(c.alive > c.end)
  <2>1. c.alive <= c.end /\ c.end <= Len(Q[c.queue]) BY <1>1, <1>3
  <2>2. PICK s : s = Q[c.queue] OBVIOUS
  <2>3. PICK t : t = Erased(s, c.alive, c.end) OBVIOUS
  <2>. DEFINE a == c.alive
              b == c.end
  <2>0. a \in Nat /\ b \in Nat /\ 1 <= a /\ a <= b /\ b <= Len(s) /\ s \in Seq(Slots)
    BY <1>1, <2>1, <2>2
  <2>. HIDE DEF a, b
  <2>9. t = Erased(s, a, b) BY <2>3 DEF a, b
  <2>4. /\ t \in Seq(Slots)
        /\ \A p \in DOMAIN t :
             /\ Unshifted(a, b, p) \in DOMAIN s /\ t[p] = s[Unshifted(a, b, p)]
             /\ ~(a <= Unshifted(a, b, p) /\ Unshifted(a, b, p) <= b)
             /\ \A p2 \in DOMAIN t : p < p2 => Unshifted(a, b, p) < Unshifted(a, b, p2)
        /\ \A p \in DOMAIN s : ~(a <= p /\ p <= b) => \E p2 \in DOMAIN t : t[p2] = s[p]
    BY <2>0, <2>9, ErasedIs
  <2>5. \A p : Back(c, p) = Unshifted(c.alive, c.end, p) BY <1>3 DEF Back
  <2>. USE DEF a, b
  <2>6. R \in AllQueues /\ R[c.queue] = t /\ \A q \in Queues : q # c.queue => R[q] = Q[q]
    BY <1>1, <1>3, <2>2, <2>3, <2>4 DEF AllQueues
  <2>. QED BY <2>2, <2>4, <2>5, <2>6 DEF Erases
<1>. QED BY <1>2, <1>3

\* The erasure brings nobody into a queue.
LEMMA ErasedStaysIn ==
  ASSUME NEW Q, NEW R, NEW c, Erases(Q, R, c), NEW q \in Queues, NEW e, InQueue(R, q, e)
  PROVE  InQueue(Q, q, e)
BY DEF InQueue, Erases

\* Places in a queue are numbers up to its length.
LEMMA PlacesAreNumbers ==
  ASSUME NEW Q \in AllQueues, NEW q \in Queues
  PROVE  /\ Len(Q[q]) \in Nat /\ DOMAIN Q[q] = 1 .. Len(Q[q])
         /\ \A p \in DOMAIN Q[q] : p \in Nat /\ p >= 1 /\ p <= Len(Q[q]) /\ Q[q][p] \in Slots
<1>1. Q[q] \in Seq(Slots) BY DEF AllQueues
<1>2. PICK s : s = Q[q] OBVIOUS
<1>3. DOMAIN s = 1 .. Len(s) /\ Len(s) \in Nat /\ \A p \in 1 .. Len(s) : s[p] \in Slots BY <1>1, <1>2
<1>. QED BY <1>2, <1>3

\* After the erasure each listener is still in one place.
LEMMA ErasedQueuesHold ==
  ASSUME NEW Q \in AllQueues, NEW R, NEW c \in FireCalls, Erases(Q, R, c), NEW S, QueuesHold(Q, S)
  PROVE  QueuesHold(R, S)
<1>0. R \in AllQueues BY DEF Erases
<1>1. ASSUME NEW q \in Queues, NEW i \in DOMAIN R[q]
      PROVE  \E a \in DOMAIN Q[q] : Q[q][a] = R[q][i]
  BY DEF Erases
<1>2. ASSUME NEW q \in Queues, NEW i \in DOMAIN R[q], R[q][i] # Null PROVE R[q][i] \in S
  BY <1>1, <1>2 DEF QueuesHold
<1>3. ASSUME NEW p \in Queues, NEW q \in Queues, NEW i \in DOMAIN R[p], NEW j \in DOMAIN R[q],
             R[p][i] = R[q][j], R[p][i] # Null
      PROVE  p = q /\ i = j
  <2>1. p = q BY <1>1, <1>3 DEF QueuesHold
  <2>2. CASE p # c.queue BY <2>1, <2>2, <1>3 DEF QueuesHold, Erases
  <2>3. CASE p = c.queue
    <3>1. Back(c, i) = Back(c, j)
      <4>1. /\ Back(c, i) \in DOMAIN Q[p] /\ R[p][i] = Q[p][Back(c, i)]
            /\ Back(c, j) \in DOMAIN Q[p] /\ R[p][j] = Q[p][Back(c, j)]
        BY <2>1, <2>3 DEF Erases
      <4>. QED BY <4>1, <2>1, <1>3 DEF QueuesHold
    <3>2. i \in Nat /\ j \in Nat BY <1>0, <2>1, PlacesAreNumbers
    <3>3. /\ Back(c, i) \in Nat
          /\ i < j => Back(c, i) < Back(c, j)
          /\ j < i => Back(c, j) < Back(c, i)
      BY <2>1, <2>3, PlacesAreNumbers DEF Erases
    <3>. QED BY <2>1, <3>1, <3>2, <3>3
  <2>. QED BY <2>2, <2>3
<1>. QED BY <1>2, <1>3 DEF QueuesHold

\* The erasure keeps the order of a queue.
LEMMA ErasedSorted ==
  ASSUME NEW Q \in AllQueues, NEW R, NEW c \in FireCalls, Erases(Q, R, c),
         NEW A, NEW O, NEW q \in Queues, Sorted(Q[q], A, O)
  PROVE  Sorted(R[q], A, O)
<1>1. CASE q # c.queue BY <1>1 DEF Erases
<1>2. CASE q = c.queue
  <2>. SUFFICES ASSUME NEW i \in DOMAIN R[q], NEW j \in DOMAIN R[q], i < j,
                       R[q][i] # Null, R[q][j] \in A
                PROVE  OlderIn(O, R[q][i], R[q][j])
    BY DEF Sorted
  <2>1. /\ Back(c, i) \in DOMAIN Q[q] /\ R[q][i] = Q[q][Back(c, i)]
        /\ Back(c, j) \in DOMAIN Q[q] /\ R[q][j] = Q[q][Back(c, j)] /\ Back(c, i) < Back(c, j)
    BY <1>2 DEF Erases
  <2>. QED BY <2>1 DEF Sorted
<1>. QED BY <1>1, <1>2

\* At the end of a walk nobody who lives is erased.
LEMMA ErasedAllQueued ==
  ASSUME NEW Q \in AllQueues, NEW R, NEW c \in FireCalls, Erases(Q, R, c),
         NEW A, NEW S, ZoneDead(Q, A, c), c.it > c.end, AllQueued(Q, A, S)
  PROVE  AllQueued(R, A, S)
<1>. SUFFICES ASSUME NEW e \in A \cap S PROVE \E q \in Queues : InQueue(R, q, e) BY DEF AllQueued
<1>1. PICK q \in Queues : InQueue(Q, q, e) BY DEF AllQueued
<1>2. PICK p \in DOMAIN Q[q] : Q[q][p] = e BY <1>1 DEF InQueue
<1>3. CASE q # c.queue BY <1>2, <1>3 DEF InQueue, Erases
<1>4. CASE q = c.queue
  <2>1. p \in Nat /\ c.it \in Nat /\ c.end \in Nat /\ c.alive \in Nat BY <1>4, CallIs, PlacesAreNumbers
  <2>2. ~(c.alive <= p /\ p < c.it) BY <1>2, <1>4 DEF ZoneDead
  <2>3. ~(c.alive <= p /\ p <= c.end) BY <2>1, <2>2
  <2>. QED BY <2>3, <1>2, <1>4 DEF InQueue, Erases
<1>. QED BY <1>3, <1>4

\* A call that begins to walk a queue.
Begins(R, c, q, h) ==
  /\ c \in FireCalls /\ c.queue = q /\ c.it = 1 /\ c.alive = 1 /\ c.end = Len(R[q])
  /\ c.at = "next" /\ c.current = Null /\ c.heard = h

\* A call that has heard nobody is in order.
LEMMA BegunInOrder ==
  ASSUME NEW Q \in AllQueues, NEW A, NEW O, NEW c, Begins(Q, c, "priority", <<>>)
  PROVE  CallInOrder(Q, A, O, c)
<1>1. DOMAIN c.heard = {} BY DEF Begins
<1>2. ZoneDead(Q, A, c)
  <2>1. \A p \in DOMAIN Q["priority"] : p \in Nat BY PlacesAreNumbers DEF Queues
  <2>. QED BY <2>1 DEF ZoneDead, Begins
<1>. QED BY <1>1, <1>2 DEF CallInOrder, Begins, InPlace, PriorityFirst, HeardInOrder, HeardFirst

\* The walk of the normal queue begins after the priority listeners.
LEMMA NormalInOrder ==
  ASSUME NEW Q \in AllQueues, NEW R, NEW c \in FireCalls, Erases(Q, R, c), c.queue = "priority",
         NEW A, NEW O, CallInOrder(Q, A, O, c), NEW d, Begins(R, d, "normal", c.heard)
  PROVE  CallInOrder(R, A, O, d)
<1>1. InPlace(R, d) /\ PriorityFirst(R, d) BY DEF InPlace, PriorityFirst, Begins
<1>2. R \in AllQueues BY DEF Erases
<1>3. ZoneDead(R, A, d)
  <2>1. \A p \in DOMAIN R["normal"] : p \in Nat BY <1>2, PlacesAreNumbers DEF Queues
  <2>. QED BY <2>1 DEF ZoneDead, Begins
<1>4. \A q \in Queues : \A e : InQueue(R, q, e) => InQueue(Q, q, e) BY ErasedStaysIn
<1>5. HeardInOrder(R, O, d) BY <1>4 DEF CallInOrder, HeardInOrder, Begins
<1>6. \A a \in DOMAIN d.heard : ~InQueue(R, "normal", d.heard[a])
  BY <1>4 DEF CallInOrder, PriorityFirst, Begins, Queues
<1>7. HeardFirst(R, A, O, d) BY <1>6 DEF HeardFirst, Begins
<1>. QED BY <1>1, <1>3, <1>5, <1>7 DEF CallInOrder
-----------------------------------------------------------------------------
\* A listener is added, the last of its queue and of all.
Adds(Q, R, q, e) ==
  /\ R \in AllQueues /\ q \in Queues /\ e \in Listeners
  /\ \A p \in Queues : p # q => R[p] = Q[p]
  /\ Len(R[q]) = Len(Q[q]) + 1 /\ R[q][Len(Q[q]) + 1] = e
  /\ DOMAIN R[q] = DOMAIN Q[q] \cup {Len(Q[q]) + 1}
  /\ \A p \in DOMAIN Q[q] : R[q][p] = Q[q][p]

\* Push at a queue does that.
LEMMA AddIs ==
  ASSUME NEW Q \in AllQueues, NEW q \in Queues, NEW e \in Listeners
  PROVE  Adds(Q, [Q EXCEPT ![q] = Push(@, e)], q, e)
<1>1. PICK s : s = Q[q] OBVIOUS
<1>2. s \in Seq(Slots) BY <1>1 DEF AllQueues
<1>3. PICK n : n = Len(s) /\ n \in Nat BY <1>2
<1>4. PICK t : t = Append(s, e) OBVIOUS
<1>5. e \in Slots BY DEF Slots
<1>6. /\ t \in Seq(Slots) /\ Len(t) = n + 1 /\ t[n + 1] = e /\ DOMAIN t = 1 .. n + 1 /\ DOMAIN s = 1 .. n
      /\ \A p \in 1 .. n : t[p] = s[p]
  BY <1>2, <1>3, <1>4, <1>5
<1>7. 1 .. n + 1 = 1 .. n \cup {n + 1} BY <1>3
<1>8. PICK R : R = [Q EXCEPT ![q] = t] OBVIOUS
<1>9. R \in AllQueues /\ R[q] = t /\ \A p \in Queues : p # q => R[p] = Q[p] BY <1>6, <1>8 DEF AllQueues
<1>10. Adds(Q, R, q, e) BY <1>1, <1>3, <1>6, <1>7, <1>9 DEF Adds
<1>. QED BY <1>1, <1>4, <1>8, <1>10 DEF Push

\* Whoever is in a queue then was there, or is the new listener.
LEMMA AddedFrom ==
  ASSUME NEW Q \in AllQueues, NEW R, NEW q, NEW e, Adds(Q, R, q, e), NEW p \in Queues, NEW i \in DOMAIN R[p]
  PROVE  \/ i \in DOMAIN Q[p] /\ R[p][i] = Q[p][i]
         \/ p = q /\ i = Len(Q[q]) + 1 /\ R[p][i] = e
BY DEF Adds

\* Whoever was in a queue stays in place.
LEMMA AddedKeeps ==
  ASSUME NEW Q, NEW R, NEW q, NEW e, Adds(Q, R, q, e), NEW p \in Queues, NEW i \in DOMAIN Q[p]
  PROVE  i \in DOMAIN R[p] /\ R[p][i] = Q[p][i]
BY DEF Adds

\* A listener that was not advised before is in one place from then on.
LEMMA AddedQueuesHold ==
  ASSUME NEW Q \in AllQueues, NEW R, NEW q, NEW e, Adds(Q, R, q, e), NEW S, QueuesHold(Q, S), e \notin S
  PROVE  QueuesHold(R, S \cup {e})
<1>1. ASSUME NEW p \in Queues, NEW i \in DOMAIN Q[p] PROVE Q[p][i] # e
  <2>1. e # Null BY SignalAssumption DEF Adds
  <2>. QED BY <2>1 DEF QueuesHold
<1>2. ASSUME NEW p \in Queues, NEW i \in DOMAIN R[p], R[p][i] # Null PROVE R[p][i] \in S \cup {e}
  BY <1>2, AddedFrom DEF QueuesHold
<1>3. ASSUME NEW p \in Queues, NEW r \in Queues, NEW i \in DOMAIN R[p], NEW j \in DOMAIN R[r],
             R[p][i] = R[r][j], R[p][i] # Null
      PROVE  p = r /\ i = j
  <2>1. \/ i \in DOMAIN Q[p] /\ R[p][i] = Q[p][i]
        \/ p = q /\ i = Len(Q[q]) + 1 /\ R[p][i] = e
    BY AddedFrom
  <2>2. \/ j \in DOMAIN Q[r] /\ R[r][j] = Q[r][j]
        \/ r = q /\ j = Len(Q[q]) + 1 /\ R[r][j] = e
    BY AddedFrom
  <2>. QED BY <1>1, <1>3, <2>1, <2>2 DEF QueuesHold
<1>. QED BY <1>2, <1>3 DEF QueuesHold

\* The order of advise.
LEMMA OrderAdded ==
  ASSUME NEW O \in Seq(Listeners), NEW e \in Listeners
  PROVE  /\ Append(O, e) \in Seq(Listeners)
         /\ Range(Append(O, e)) = Range(O) \cup {e}
         /\ \A a, b : OlderIn(O, a, b) => OlderIn(Append(O, e), a, b)
         /\ \A a \in Range(O) : OlderIn(Append(O, e), a, e)
         /\ (\A i, j \in DOMAIN O : O[i] = O[j] => i = j) /\ e \notin Range(O) =>
              \A i, j \in DOMAIN Append(O, e) : Append(O, e)[i] = Append(O, e)[j] => i = j
<1>1. PICK n : n = Len(O) /\ n \in Nat OBVIOUS
<1>2. PICK P : P = Append(O, e) OBVIOUS
<1>3. /\ P \in Seq(Listeners) /\ Len(P) = n + 1 /\ P[n + 1] = e /\ DOMAIN P = 1 .. n + 1 /\ DOMAIN O = 1 .. n
      /\ \A i \in 1 .. n : P[i] = O[i]
  BY <1>1, <1>2
<1>4. /\ \A i \in 1 .. n : i \in 1 .. n + 1 /\ i < n + 1 /\ i \in Nat
      /\ n + 1 \in 1 .. n + 1 /\ \A i \in 1 .. n + 1 : i # n + 1 => i \in 1 .. n
  BY <1>1
<1>5. Range(P) = Range(O) \cup {e}
  <2>1. ASSUME NEW x \in Range(P) PROVE x \in Range(O) \cup {e} BY <1>3, <1>4 DEF Range
  <2>2. ASSUME NEW x \in Range(O) PROVE x \in Range(P) BY <1>3, <1>4 DEF Range
  <2>3. e \in Range(P) BY <1>3, <1>4 DEF Range
  <2>. QED BY <2>1, <2>2, <2>3
<1>6. ASSUME NEW a, NEW b, OlderIn(O, a, b) PROVE OlderIn(P, a, b) BY <1>3, <1>4, <1>6 DEF OlderIn
<1>7. ASSUME NEW a \in Range(O) PROVE OlderIn(P, a, e)
  <2>1. PICK i \in 1 .. n : O[i] = a BY <1>3 DEF Range
  <2>. QED BY <2>1, <1>3, <1>4 DEF OlderIn
<1>8. ASSUME \A i, j \in DOMAIN O : O[i] = O[j] => i = j, e \notin Range(O),
             NEW i \in DOMAIN P, NEW j \in DOMAIN P, P[i] = P[j]
      PROVE  i = j
  <2>1. \A k \in 1 .. n : P[k] # e BY <1>3, <1>8 DEF Range
  <2>. QED BY <2>1, <1>3, <1>4, <1>8
<1>. QED BY <1>2, <1>3, <1>5, <1>6, <1>7, <1>8

\* The youngest listener is behind all others of its queue.
LEMMA AddedSorted ==
  ASSUME NEW Q \in AllQueues, NEW R, NEW q, NEW e, Adds(Q, R, q, e),
         NEW O \in Seq(Listeners), NEW A, QueuesHold(Q, Range(O)),
         NEW p \in Queues, Sorted(Q[p], A, O)
  PROVE  Sorted(R[p], A, Append(O, e))
<1>. SUFFICES ASSUME NEW i \in DOMAIN R[p], NEW j \in DOMAIN R[p], i < j, R[p][i] # Null, R[p][j] \in A
              PROVE  OlderIn(Append(O, e), R[p][i], R[p][j])
  BY DEF Sorted
<1>0. e \in Listeners /\ R \in AllQueues /\ q \in Queues BY DEF Adds
<1>1. \/ i \in DOMAIN Q[p] /\ R[p][i] = Q[p][i]
      \/ p = q /\ i = Len(Q[q]) + 1
  BY AddedFrom
<1>2. \/ j \in DOMAIN Q[p] /\ R[p][j] = Q[p][j]
      \/ p = q /\ j = Len(Q[q]) + 1 /\ R[p][j] = e
  BY AddedFrom
<1>3. i \in DOMAIN Q[p] /\ R[p][i] = Q[p][i]
  <2>1. CASE p = q /\ i = Len(Q[q]) + 1
    <3>1. i \in Nat /\ j \in Nat /\ Len(Q[q]) \in Nat BY <1>0, PlacesAreNumbers
    <3>2. j \in DOMAIN Q[p] => j <= Len(Q[q]) BY <2>1, PlacesAreNumbers
    <3>. QED BY <2>1, <3>1, <3>2, <1>2
  <2>. QED BY <2>1, <1>1
<1>4. CASE j \in DOMAIN Q[p] /\ R[p][j] = Q[p][j]
  <2>1. OlderIn(O, R[p][i], R[p][j]) BY <1>3, <1>4 DEF Sorted
  <2>. QED BY <2>1, <1>0, OrderAdded
<1>5. CASE R[p][j] = e
  <2>1. R[p][i] \in Range(O) BY <1>3 DEF QueuesHold
  <2>. QED BY <2>1, <1>5, <1>0, OrderAdded
<1>. QED BY <1>2, <1>4, <1>5

\* A call that runs a handler stays in order when this handler subscribes another.
LEMMA AddedInOrder ==
  ASSUME NEW Q \in AllQueues, NEW R, NEW q, NEW e, Adds(Q, R, q, e),
         NEW O \in Seq(Listeners), NEW A, e \notin Range(O),
         NEW c \in FireCalls, c.at = "running", CallInOrder(Q, A, O, c),
         \A a \in DOMAIN c.heard : c.heard[a] \in Range(O)
  PROVE  CallInOrder(R, A, Append(O, e), c)
<1>0. /\ e \in Listeners /\ R \in AllQueues /\ q \in Queues /\ c.queue \in Queues
      /\ c.it \in Nat /\ c.alive \in Nat
  BY CallIs DEF Adds
<1>1. \A p \in Queues : \A a \in DOMAIN c.heard : InQueue(R, p, c.heard[a]) => InQueue(Q, p, c.heard[a])
  <2>. SUFFICES ASSUME NEW p \in Queues, NEW a \in DOMAIN c.heard, NEW i \in DOMAIN R[p], R[p][i] = c.heard[a]
                PROVE  InQueue(Q, p, c.heard[a])
    BY DEF InQueue
  <2>1. R[p][i] # e OBVIOUS
  <2>. QED BY <2>1, AddedFrom DEF InQueue
<1>2. c.it \in DOMAIN Q[c.queue] /\ Q[c.queue][c.it] = c.current BY DEF CallInOrder, InPlace
<1>3. InPlace(R, c) BY <1>0, <1>2, AddedKeeps DEF InPlace
<1>4. ZoneDead(R, A, c)
  <2>. SUFFICES ASSUME NEW p \in DOMAIN R[c.queue], c.alive <= p, p < c.it PROVE R[c.queue][p] \notin A
    BY DEF ZoneDead
  <2>1. c.it <= Len(Q[c.queue]) /\ Len(Q[c.queue]) \in Nat BY <1>0, <1>2, PlacesAreNumbers
  <2>2. p \in DOMAIN Q[c.queue] /\ R[c.queue][p] = Q[c.queue][p] BY <1>0, <2>1, AddedFrom
  <2>. QED BY <2>2 DEF CallInOrder, ZoneDead
<1>5. PriorityFirst(R, c) BY <1>1 DEF CallInOrder, PriorityFirst, Queues
<1>6. HeardInOrder(R, Append(O, e), c)
  <2>. SUFFICES ASSUME NEW p \in Queues, NEW a \in DOMAIN c.heard, NEW b \in DOMAIN c.heard, a < b,
                       InQueue(R, p, c.heard[a]), InQueue(R, p, c.heard[b])
                PROVE  OlderIn(Append(O, e), c.heard[a], c.heard[b])
    BY DEF HeardInOrder
  <2>1. OlderIn(O, c.heard[a], c.heard[b]) BY <1>1 DEF CallInOrder, HeardInOrder
  <2>. QED BY <2>1, <1>0, OrderAdded
<1>7. HeardFirst(R, A, Append(O, e), c)
  <2>. SUFFICES ASSUME NEW a \in DOMAIN c.heard, InQueue(R, c.queue, c.heard[a]),
                       NEW p \in DOMAIN R[c.queue], Ahead(c, p), R[c.queue][p] \in A
                PROVE  OlderIn(Append(O, e), c.heard[a], R[c.queue][p])
    BY DEF HeardFirst
  <2>1. InQueue(Q, c.queue, c.heard[a]) BY <1>0, <1>1
  <2>2. CASE p \in DOMAIN Q[c.queue] /\ R[c.queue][p] = Q[c.queue][p]
    <3>1. OlderIn(O, c.heard[a], R[c.queue][p]) BY <2>1, <2>2 DEF CallInOrder, HeardFirst
    <3>. QED BY <3>1, <1>0, OrderAdded
  <2>3. CASE R[c.queue][p] = e BY <2>3, <1>0, OrderAdded
  <2>. QED BY <2>2, <2>3, <1>0, AddedFrom
<1>. QED BY <1>3, <1>4, <1>5, <1>6, <1>7 DEF CallInOrder

\* All who live are queued, the new one too.
LEMMA AddedAllQueued ==
  ASSUME NEW Q \in AllQueues, NEW R, NEW q, NEW e, Adds(Q, R, q, e), NEW A, NEW S, AllQueued(Q, A, S)
  PROVE  AllQueued(R, A, S \cup {e})
<1>1. InQueue(R, q, e) /\ q \in Queues BY DEF InQueue, Adds
<1>2. \A p \in Queues : \A x : InQueue(Q, p, x) => InQueue(R, p, x) BY AddedKeeps DEF InQueue
<1>. QED BY <1>1, <1>2 DEF AllQueued
-----------------------------------------------------------------------------
\* A call goes on.
CheckedNow(c, d, e) ==
  /\ d \in FireCalls /\ d.queue = c.queue /\ d.it = c.it /\ d.alive = c.alive /\ d.end = c.end
  /\ d.at = "checked" /\ d.current = e /\ d.heard = c.heard /\ d.due = c.due

Skipped(c, d) ==
  /\ d \in FireCalls /\ d.queue = c.queue /\ d.it = c.it + 1 /\ d.alive = c.alive /\ d.end = c.end
  /\ d.at = "next" /\ d.current = Null /\ d.heard = c.heard /\ d.due = c.due

CalledNow(c, d) ==
  /\ d \in FireCalls /\ d.queue = c.queue /\ d.it = c.it /\ d.alive = c.alive /\ d.end = c.end
  /\ d.at = "running" /\ d.current = c.current /\ d.due = c.due
  /\ d.heard = Append(c.heard, c.current)

\* The steps of fire change a call in one of these ways.
LEMMA CallGoesOn ==
  ASSUME NEW c \in FireCalls
  PROVE  /\ \A e \in Listeners : CheckedNow(c, [c EXCEPT !.at = "checked", !.current = e], e)
         /\ Skipped(c, Skip(c))
         /\ c.current \in Listeners =>
              CalledNow(c, [c EXCEPT !.at = "running", !.heard = Append(@, c.current)])
         /\ MovedOn(c, [Skip(c) EXCEPT !.alive = @ + 1])
<1>1. /\ c.queue \in Queues /\ c.it \in Nat /\ c.it >= 1 /\ c.alive \in Nat /\ c.alive >= 1
      /\ c.end \in Nat /\ c.heard \in Seq(Listeners) /\ c.due \subseteq Listeners
  BY CallIs
<1>2. /\ c.it \in Nat \ {0} /\ c.it + 1 \in Nat \ {0} /\ c.alive \in Nat \ {0} /\ c.alive + 1 \in Nat \ {0}
      /\ Null \in Slots /\ \A e \in Listeners : e \in Slots
  BY <1>1 DEF Slots
<1>3. ASSUME NEW e \in Listeners PROVE CheckedNow(c, [c EXCEPT !.at = "checked", !.current = e], e)
  BY <1>1, <1>2 DEF CheckedNow, FireCalls
<1>4. Skipped(c, Skip(c)) BY <1>1, <1>2 DEF Skipped, Skip, FireCalls
<1>5. ASSUME c.current \in Listeners
      PROVE  CalledNow(c, [c EXCEPT !.at = "running", !.heard = Append(@, c.current)])
  <2>1. Append(c.heard, c.current) \in Seq(Listeners) BY <1>1, <1>5
  <2>2. PICK h : h = Append(c.heard, c.current) /\ h \in Seq(Listeners) BY <2>1
  <2>3. [c EXCEPT !.at = "running", !.heard = h] \in FireCalls BY <1>1, <1>2, <2>2 DEF FireCalls
  <2>. QED BY <2>2, <2>3 DEF CalledNow, FireCalls
<1>6. MovedOn(c, [Skip(c) EXCEPT !.alive = @ + 1]) BY <1>1, <1>2 DEF MovedOn, Skip, FireCalls
<1>. QED BY <1>3, <1>4, <1>5, <1>6

\* A listener that lives is the next in order.
LEMMA CheckedInOrder ==
  ASSUME NEW Q, NEW A, NEW O, NEW c, c.at = "next", CallInOrder(Q, A, O, c),
         NEW e, e \in A, c.it \in DOMAIN Q[c.queue], Q[c.queue][c.it] = e,
         NEW d, CheckedNow(c, d, e)
  PROVE  CallInOrder(Q, A, O, d)
<1>1. InPlace(Q, d) /\ ZoneDead(Q, A, d) /\ PriorityFirst(Q, d) /\ HeardInOrder(Q, O, d)
  BY DEF CheckedNow, CallInOrder, InPlace, ZoneDead, PriorityFirst, HeardInOrder
<1>2. HeardFirst(Q, A, O, d)
  <2>. SUFFICES ASSUME NEW a \in DOMAIN c.heard, InQueue(Q, c.queue, c.heard[a])
                PROVE  /\ OlderIn(O, c.heard[a], e)
                       /\ \A p \in DOMAIN Q[c.queue] :
                            Ahead(d, p) /\ Q[c.queue][p] \in A => OlderIn(O, c.heard[a], Q[c.queue][p])
    BY DEF HeardFirst, CheckedNow
  <2>1. \A p \in DOMAIN Q[c.queue] : Ahead(c, p) /\ Q[c.queue][p] \in A => OlderIn(O, c.heard[a], Q[c.queue][p])
    BY DEF CallInOrder, HeardFirst
  <2>2. Ahead(c, c.it) BY DEF Ahead
  <2>3. \A p : Ahead(d, p) => Ahead(c, p) BY DEF Ahead, CheckedNow
  <2>. QED BY <2>1, <2>2, <2>3
<1>. QED BY <1>1, <1>2 DEF CallInOrder

\* A listener that does not live may be left behind.
LEMMA SkippedInOrder ==
  ASSUME NEW Q \in AllQueues, NEW A, NEW O, NEW c \in FireCalls, CallInOrder(Q, A, O, c),
         c.it \in DOMAIN Q[c.queue] => Q[c.queue][c.it] \notin A,
         NEW d, Skipped(c, d)
  PROVE  CallInOrder(Q, A, O, d)
<1>0. c.it \in Nat /\ c.queue \in Queues /\ \A p \in DOMAIN Q[c.queue] : p \in Nat
  BY CallIs, PlacesAreNumbers
<1>1. InPlace(Q, d) /\ PriorityFirst(Q, d) /\ HeardInOrder(Q, O, d)
  BY DEF Skipped, CallInOrder, InPlace, PriorityFirst, HeardInOrder
<1>2. ZoneDead(Q, A, d)
  <2>. SUFFICES ASSUME NEW p \in DOMAIN Q[c.queue], c.alive <= p, p < c.it + 1 PROVE Q[c.queue][p] \notin A
    BY DEF ZoneDead, Skipped
  <2>1. p = c.it \/ p < c.it BY <1>0
  <2>. QED BY <2>1 DEF CallInOrder, ZoneDead
<1>3. HeardFirst(Q, A, O, d)
  <2>. SUFFICES ASSUME NEW a \in DOMAIN c.heard, InQueue(Q, c.queue, c.heard[a]),
                       NEW p \in DOMAIN Q[c.queue], Ahead(d, p), Q[c.queue][p] \in A
                PROVE  OlderIn(O, c.heard[a], Q[c.queue][p])
    BY DEF HeardFirst, Skipped
  <2>1. c.it < p BY <1>0 DEF Ahead, Skipped
  <2>2. Ahead(c, p) BY <2>1 DEF Ahead
  <2>. QED BY <2>2 DEF CallInOrder, HeardFirst
<1>. QED BY <1>1, <1>2, <1>3 DEF CallInOrder

\* What a call has heard, with one more.
LEMMA HeardMore ==
  ASSUME NEW h \in Seq(Listeners), NEW e \in Listeners
  PROVE  LET g == Append(h, e) IN
         /\ g \in Seq(Listeners) /\ Range(g) = Range(h) \cup {e}
         /\ \A a \in DOMAIN g : (a \in DOMAIN h /\ g[a] = h[a]) \/ (g[a] = e /\ \A b \in DOMAIN h : b < a)
         /\ \A a, b \in DOMAIN g : a < b => a \in DOMAIN h
<1>1. PICK n : n = Len(h) /\ n \in Nat OBVIOUS
<1>2. PICK g : g = Append(h, e) OBVIOUS
<1>3. /\ g \in Seq(Listeners) /\ g[n + 1] = e /\ DOMAIN g = 1 .. n + 1 /\ DOMAIN h = 1 .. n
      /\ \A a \in 1 .. n : g[a] = h[a]
  BY <1>1, <1>2
<1>4. \A a \in 1 .. n + 1 : (a \in 1 .. n /\ g[a] = h[a]) \/ (g[a] = e /\ \A b \in 1 .. n : b < a)
  BY <1>1, <1>3
<1>5. \A a, b \in 1 .. n + 1 : a < b => a \in 1 .. n BY <1>1
<1>6. Range(g) = Range(h) \cup {e}
  <2>1. \A a \in 1 .. n : a \in 1 .. n + 1 BY <1>1
  <2>2. n + 1 \in 1 .. n + 1 BY <1>1
  <2>3. ASSUME NEW x \in Range(g) PROVE x \in Range(h) \cup {e} BY <1>3, <1>4 DEF Range
  <2>4. ASSUME NEW x \in Range(h) PROVE x \in Range(g) BY <1>3, <2>1 DEF Range
  <2>5. e \in Range(g) BY <1>3, <2>2 DEF Range
  <2>. QED BY <2>3, <2>4, <2>5
<1>. QED BY <1>2, <1>3, <1>4, <1>5, <1>6

\* The listener that is called is the youngest heard so far in its queue.
LEMMA CalledInOrder ==
  ASSUME NEW Q \in AllQueues, NEW A \in SUBSET Listeners, NEW O, NEW S, QueuesHold(Q, S),
         NEW c \in FireCalls, c.at = "checked", c.current \in Listeners,
         CallInOrder(Q, A, O, c), Sorted(Q[c.queue], A, O), NEW d, CalledNow(c, d)
  PROVE  CallInOrder(Q, A, O, d)
<1>0. /\ c.it \in Nat /\ c.queue \in Queues /\ \A p \in DOMAIN Q[c.queue] : p \in Nat
      /\ c.it \in DOMAIN Q[c.queue] /\ Q[c.queue][c.it] = c.current /\ c.current # Null
      /\ c.heard \in Seq(Listeners)
  BY CallIs, PlacesAreNumbers, SignalAssumption DEF CallInOrder, InPlace
<1>1. InPlace(Q, d) /\ ZoneDead(Q, A, d) BY DEF CalledNow, CallInOrder, InPlace, ZoneDead
<1>2. \A q \in Queues : InQueue(Q, q, c.current) => q = c.queue
  BY <1>0 DEF InQueue, QueuesHold
<1>3. /\ \A a \in DOMAIN d.heard :
           \/ a \in DOMAIN c.heard /\ d.heard[a] = c.heard[a]
           \/ d.heard[a] = c.current /\ \A b \in DOMAIN c.heard : b < a
      /\ \A a, b \in DOMAIN d.heard : a < b => a \in DOMAIN c.heard
  <2>1. PICK g : g = Append(c.heard, c.current) OBVIOUS
  <2>2. /\ \A a \in DOMAIN g :
             \/ a \in DOMAIN c.heard /\ g[a] = c.heard[a]
             \/ g[a] = c.current /\ \A b \in DOMAIN c.heard : b < a
        /\ \A a, b \in DOMAIN g : a < b => a \in DOMAIN c.heard
    BY <1>0, <2>1, HeardMore
  <2>3. d.heard = g BY <2>1 DEF CalledNow
  <2>. QED BY <2>2, <2>3
<1>4. PriorityFirst(Q, d)
  <2>. SUFFICES ASSUME c.queue = "priority", NEW a \in DOMAIN d.heard PROVE ~InQueue(Q, "normal", d.heard[a])
    BY DEF PriorityFirst, CalledNow
  <2>1. CASE a \in DOMAIN c.heard /\ d.heard[a] = c.heard[a] BY <2>1 DEF CallInOrder, PriorityFirst
  <2>2. CASE d.heard[a] = c.current BY <2>2, <1>2 DEF Queues
  <2>. QED BY <2>1, <2>2, <1>3
<1>5. HeardInOrder(Q, O, d)
  <2>. SUFFICES ASSUME NEW q \in Queues, NEW a \in DOMAIN d.heard, NEW b \in DOMAIN d.heard, a < b,
                       InQueue(Q, q, d.heard[a]), InQueue(Q, q, d.heard[b])
                PROVE  OlderIn(O, d.heard[a], d.heard[b])
    BY DEF HeardInOrder
  <2>0. a \in DOMAIN c.heard BY <1>3
  <2>6. d.heard[a] = c.heard[a]
    <3>1. a \in Nat BY <2>0, <1>0
    <3>2. ~(a < a) BY <3>1
    <3>. QED BY <2>0, <3>2, <1>3
  <2>1. CASE b \in DOMAIN c.heard /\ d.heard[b] = c.heard[b]
    BY <2>0, <2>1, <2>6 DEF CallInOrder, HeardInOrder
  <2>2. CASE d.heard[b] = c.current
    <3>1. q = c.queue BY <2>2, <1>2
    <3>. QED BY <3>1, <2>0, <2>2, <2>6 DEF CallInOrder, HeardFirst
  <2>. QED BY <2>1, <2>2, <1>3
<1>6. HeardFirst(Q, A, O, d)
  <2>. SUFFICES ASSUME NEW a \in DOMAIN d.heard, InQueue(Q, c.queue, d.heard[a]),
                       NEW p \in DOMAIN Q[c.queue], Ahead(d, p), Q[c.queue][p] \in A
                PROVE  OlderIn(O, d.heard[a], Q[c.queue][p])
    BY DEF HeardFirst, CalledNow
  <2>1. c.it < p BY DEF Ahead, CalledNow
  <2>2. CASE a \in DOMAIN c.heard /\ d.heard[a] = c.heard[a]
    <3>1. Ahead(c, p) BY <2>1 DEF Ahead
    <3>. QED BY <3>1, <2>2 DEF CallInOrder, HeardFirst
  <2>3. CASE d.heard[a] = c.current BY <2>1, <2>3, <1>0 DEF Sorted
  <2>. QED BY <2>2, <2>3, <1>3
<1>. QED BY <1>1, <1>4, <1>5, <1>6 DEF CallInOrder

\* Lifetimes end.
LEMMA FewerLive ==
  ASSUME NEW Q, NEW A, NEW B, B \subseteq A, NEW O, NEW S, NEW F, SingleHolds(Q, A, O, S, F)
  PROVE  SingleHolds(Q, B, O, S, F)
<1>1. AllQueued(Q, B, S) BY DEF SingleHolds, AllQueued
<1>2. \A q \in Queues : Sorted(Q[q], B, O) BY DEF SingleHolds, Sorted
<1>3. ASSUME NEW i \in DOMAIN F PROVE i = 1 /\ CallInOrder(Q, B, O, F[i])
  <2>1. i = 1 /\ CallInOrder(Q, A, O, F[i]) BY DEF SingleHolds
  <2>. QED BY <2>1 DEF CallInOrder, ZoneDead, HeardFirst
<1>. QED BY <1>1, <1>2, <1>3 DEF SingleHolds
-----------------------------------------------------------------------------
\* The calls of fire, when the innermost goes on, ends, or makes another.
LEMMA OnlyCall ==
  ASSUME NEW Q, NEW A, NEW O, NEW S, NEW F \in Seq(FireCalls), F # <<>>, SingleHolds(Q, A, O, S, F)
  PROVE  Len(F) = 1 /\ DOMAIN F = {1} /\ Last(F) = F[1] /\ CallInOrder(Q, A, O, F[1])
<1>1. Len(F) \in DOMAIN F /\ DOMAIN F = 1 .. Len(F) /\ Last(F) = F[Len(F)] BY FireTop
<1>2. Len(F) = 1 BY <1>1 DEF SingleHolds
<1>. QED BY <1>1, <1>2 DEF SingleHolds

\* The only call goes on.
LEMMA SingleReplaced ==
  ASSUME NEW Q, NEW A, NEW O, NEW S, NEW F \in Seq(FireCalls), F # <<>>, SingleHolds(Q, A, O, S, F),
         NEW G, NEW d, Replaces(F, G, d), NEW R,
         AllQueued(R, A, S), \A q \in Queues : Sorted(R[q], A, O), CallInOrder(R, A, O, d)
  PROVE  SingleHolds(R, A, O, S, G)
<1>1. Len(F) = 1 /\ DOMAIN F = {1} BY OnlyCall
<1>. QED BY <1>1 DEF SingleHolds, Replaces

\* The only call ends.
LEMMA SinglePopped ==
  ASSUME NEW Q, NEW A, NEW O, NEW S, NEW F \in Seq(FireCalls), F # <<>>, SingleHolds(Q, A, O, S, F),
         NEW G, Pops(F, G), NEW R, AllQueued(R, A, S), \A q \in Queues : Sorted(R[q], A, O)
  PROVE  SingleHolds(R, A, O, S, G)
<1>1. Len(F) = 1 /\ DOMAIN F = {1} BY OnlyCall
<1>2. DOMAIN G = {} BY <1>1 DEF Pops
<1>. QED BY <1>2 DEF SingleHolds

\* A call holds as long as its listener keeps what it runs with.
LEMMA CallHoldsStill ==
  ASSUME NEW st, NEW ac, NEW st1, NEW ac1, NEW c \in FireCalls, CallHolds(st, ac, c),
         \A e \in Listeners : st[e] # "none" => st1[e] # "none",
         c.at = "running" => st1[c.current] \in {"FIRING", "TERMINATED"} /\ ac1[c.current]
  PROVE  CallHolds(st1, ac1, c)
<1>1. \A a \in DOMAIN c.heard : c.heard[a] \in Listeners BY CallIs
<1>. QED BY <1>1 DEF CallHolds

Others(F) == {i \in DOMAIN F : i # Len(F)}

RunsOutside(F, e) == \E i \in Others(F) : F[i].current = e

\* All calls hold when the innermost goes on and the others keep what they run with.
LEMMA CallsReplaced ==
  ASSUME NEW Q, NEW R, NEW st, NEW ac, NEW st1, NEW ac1,
         NEW F \in Seq(FireCalls), F # <<>>, CallsHold(Q, st, ac, F),
         NEW G, NEW d \in FireCalls, Replaces(F, G, d), CallHolds(st1, ac1, d),
         d.at = "checked" => InPlace(R, d),
         \A e \in Listeners : st[e] # "none" => st1[e] # "none",
         \A i \in Others(F) : st1[F[i].current] \in {"FIRING", "TERMINATED"} /\ ac1[F[i].current],
         d.at = "running" => ~RunsOutside(F, d.current),
         \A e \in Listeners : st1[e] = "FIRING" => (d.at = "running" /\ d.current = e) \/ RunsOutside(F, e)
  PROVE  CallsHold(R, st1, ac1, G)
<1>1. /\ DOMAIN G = DOMAIN F /\ Len(G) = Len(F) /\ G[Len(F)] = d /\ Len(F) \in DOMAIN F
      /\ \A i \in Others(F) : G[i] = F[i] /\ F[i] \in FireCalls /\ F[i].at = "running"
  <2>1. Len(F) \in DOMAIN F /\ \A i \in DOMAIN F : F[i] \in FireCalls BY FireTop
  <2>. QED BY <2>1 DEF Replaces, CallsHold, Others
<1>2. \A i \in DOMAIN F : i = Len(F) \/ i \in Others(F) BY DEF Others
<1>3. ASSUME NEW i \in DOMAIN G PROVE CallHolds(st1, ac1, G[i])
  <2>1. CASE i = Len(F) BY <2>1, <1>1
  <2>2. CASE i \in Others(F)
    <3>1. CallHolds(st, ac, F[i]) BY <2>2, <1>1 DEF CallsHold
    <3>. QED BY <3>1, <2>2, <1>1, CallHoldsStill
  <2>. QED BY <2>1, <2>2, <1>1, <1>2
<1>4. ASSUME NEW i \in DOMAIN G, NEW j \in DOMAIN G, G[i].at = "running", G[j].at = "running",
             G[i].current = G[j].current
      PROVE  i = j
  <2>1. CASE i \in Others(F) /\ j \in Others(F) BY <2>1, <1>1, <1>4 DEF CallsHold
  <2>2. CASE i = Len(F) /\ j \in Others(F) BY <2>2, <1>1, <1>4 DEF RunsOutside
  <2>3. CASE i \in Others(F) /\ j = Len(F) BY <2>3, <1>1, <1>4 DEF RunsOutside
  <2>. QED BY <2>1, <2>2, <2>3, <1>1, <1>2
<1>5. ASSUME NEW e \in Listeners, st1[e] = "FIRING"
      PROVE  \E i \in DOMAIN G : G[i].at = "running" /\ G[i].current = e
  <2>1. CASE d.at = "running" /\ d.current = e BY <2>1, <1>1
  <2>2. CASE RunsOutside(F, e)
    <3>1. PICK i \in Others(F) : F[i].current = e BY <2>2 DEF RunsOutside
    <3>2. i \in DOMAIN G BY <3>1, <1>1 DEF Others
    <3>. QED BY <3>1, <3>2, <1>1
  <2>. QED BY <2>1, <2>2, <1>5
<1>6. \A i \in DOMAIN G : i # Len(G) => G[i].at = "running" BY <1>1, <1>2
<1>7. \A i \in DOMAIN G : i = Len(G) /\ G[i].at = "checked" => InPlace(R, G[i]) BY <1>1
<1>. QED BY <1>3, <1>4, <1>5, <1>6, <1>7 DEF CallsHold

\* So they do when it ends,
LEMMA CallsPopped ==
  ASSUME NEW Q, NEW R, NEW st, NEW ac, NEW st1, NEW ac1,
         NEW F \in Seq(FireCalls), F # <<>>, CallsHold(Q, st, ac, F), NEW G, Pops(F, G),
         \A e \in Listeners : st[e] # "none" => st1[e] # "none",
         \A i \in Others(F) : st1[F[i].current] \in {"FIRING", "TERMINATED"} /\ ac1[F[i].current],
         \A e \in Listeners : st1[e] = "FIRING" => RunsOutside(F, e)
  PROVE  CallsHold(R, st1, ac1, G)
<1>1. \A i \in DOMAIN G : /\ i \in Others(F) /\ i \in DOMAIN F /\ G[i] = F[i] /\ F[i] \in FireCalls
                          /\ F[i].at = "running"
  <2>1. \A i \in DOMAIN F : F[i] \in FireCalls OBVIOUS
  <2>. QED BY <2>1 DEF Pops, CallsHold, Others
<1>2. ASSUME NEW i \in DOMAIN G PROVE CallHolds(st1, ac1, G[i])
  <2>1. CallHolds(st, ac, F[i]) BY <1>1 DEF CallsHold
  <2>. QED BY <2>1, <1>1, CallHoldsStill
<1>3. \A i, j \in DOMAIN G :
        G[i].at = "running" /\ G[j].at = "running" /\ G[i].current = G[j].current => i = j
  BY <1>1 DEF CallsHold
<1>4. ASSUME NEW e \in Listeners, st1[e] = "FIRING"
      PROVE  \E i \in DOMAIN G : G[i].at = "running" /\ G[i].current = e
  <2>1. PICK i \in Others(F) : F[i].current = e BY <1>4 DEF RunsOutside
  <2>2. i \in DOMAIN G BY <2>1 DEF Pops, Others
  <2>. QED BY <2>1, <2>2, <1>1
<1>. QED BY <1>1, <1>2, <1>3, <1>4 DEF CallsHold

\* and when it makes another.
LEMMA CallsPushed ==
  ASSUME NEW Q, NEW st, NEW ac, NEW F \in Seq(FireCalls), CallsHold(Q, st, ac, F),
         F # <<>> => Last(F).at = "running",
         NEW G, NEW d \in FireCalls, Pushes(F, G, d), CallHolds(st, ac, d), d.at = "next"
  PROVE  CallsHold(Q, st, ac, G)
<1>1. ASSUME NEW i \in DOMAIN F PROVE F[i].at = "running"
  <2>1. F # <<>> BY <1>1
  <2>2. Last(F) = F[Len(F)] BY <2>1, FireTop
  <2>. QED BY <2>1, <2>2 DEF CallsHold
<1>2. \A i \in DOMAIN G : i = Len(G) \/ i \in DOMAIN F BY DEF Pushes
<1>3. /\ \A i \in DOMAIN F : i \in DOMAIN G /\ i # Len(G) /\ G[i] = F[i] /\ G[i].at = "running"
      /\ G[Len(G)] = d /\ Len(G) \in DOMAIN G
  <2>1. \A i \in DOMAIN F : i \in Nat
    <3>1. DOMAIN F = 1 .. Len(F) OBVIOUS
    <3>. QED BY <3>1
  <2>2. \A i \in DOMAIN F : i # Len(G) BY <2>1 DEF Pushes
  <2>. QED BY <1>1, <2>2 DEF Pushes
<1>4. \A i \in DOMAIN G : CallHolds(st, ac, G[i]) BY <1>2, <1>3 DEF CallsHold
<1>5. \A i, j \in DOMAIN G :
        G[i].at = "running" /\ G[j].at = "running" /\ G[i].current = G[j].current => i = j
  BY <1>2, <1>3 DEF CallsHold
<1>6. \A e \in Listeners : st[e] = "FIRING" => \E i \in DOMAIN G : G[i].at = "running" /\ G[i].current = e
  BY <1>3 DEF CallsHold
<1>. QED BY <1>2, <1>3, <1>4, <1>5, <1>6 DEF CallsHold

\* The stack stays; listeners join or end.
LEMMA CallsStay ==
  ASSUME NEW Q, NEW R, NEW st, NEW ac, NEW st1, NEW ac1,
         NEW F \in Seq(FireCalls), CallsHold(Q, st, ac, F),
         \A i \in DOMAIN F : F[i].at = "checked" /\ InPlace(Q, F[i]) => InPlace(R, F[i]),
         \A e \in Listeners : st[e] # "none" => st1[e] # "none",
         \A e \in Listeners : st[e] \in {"FIRING", "TERMINATED"} /\ ac[e] =>
           st1[e] \in {"FIRING", "TERMINATED"} /\ ac1[e],
         \A e \in Listeners : st1[e] = "FIRING" => st[e] = "FIRING"
  PROVE  CallsHold(R, st1, ac1, F)
<1>1. \A i \in DOMAIN F : F[i] \in FireCalls OBVIOUS
<1>2. ASSUME NEW i \in DOMAIN F PROVE CallHolds(st1, ac1, F[i])
  <2>1. CallHolds(st, ac, F[i]) BY DEF CallsHold
  <2>2. F[i].at = "running" => st1[F[i].current] \in {"FIRING", "TERMINATED"} /\ ac1[F[i].current]
    BY <2>1 DEF CallHolds
  <2>. QED BY <2>1, <2>2, <1>1, CallHoldsStill
<1>. QED BY <1>2 DEF CallsHold

\* The listener of the innermost call, if it runs, runs in no other.
LEMMA TopRunsOnce ==
  ASSUME NEW Q, NEW st, NEW ac, NEW F \in Seq(FireCalls), F # <<>>, CallsHold(Q, st, ac, F)
  PROVE  /\ \A i \in Others(F) : /\ F[i].at = "running" /\ F[i] \in FireCalls
                                 /\ st[F[i].current] \in {"FIRING", "TERMINATED"} /\ ac[F[i].current]
                                 /\ F[i].current \in Listeners
         /\ Last(F).at = "running" => ~RunsOutside(F, Last(F).current)
         /\ st[Last(F).current] = "ACTIVE" => ~RunsOutside(F, Last(F).current)
         /\ \A e \in Listeners : st[e] = "FIRING" =>
              (Last(F).at = "running" /\ Last(F).current = e) \/ RunsOutside(F, e)
         /\ CallHolds(st, ac, Last(F)) /\ (Last(F).at = "checked" => InPlace(Q, Last(F)))
<1>1. Last(F) = F[Len(F)] /\ Len(F) \in DOMAIN F /\ \A i \in DOMAIN F : F[i] \in FireCalls BY FireTop
<1>2. \A i \in DOMAIN F : i = Len(F) \/ i \in Others(F) BY DEF Others
<1>3. ASSUME NEW i \in Others(F)
      PROVE  /\ F[i].at = "running" /\ F[i] \in FireCalls /\ i \in DOMAIN F
             /\ st[F[i].current] \in {"FIRING", "TERMINATED"} /\ ac[F[i].current]
             /\ F[i].current \in Listeners
  <2>1. F[i].at = "running" /\ i \in DOMAIN F /\ F[i] \in FireCalls BY <1>1 DEF CallsHold, Others
  <2>2. CallHolds(st, ac, F[i]) BY <2>1 DEF CallsHold
  <2>. QED BY <2>1, <2>2 DEF CallHolds
<1>4. ASSUME Last(F).at = "running", RunsOutside(F, Last(F).current) PROVE FALSE
  <2>1. PICK i \in Others(F) : F[i].current = Last(F).current BY <1>4 DEF RunsOutside
  <2>2. i = Len(F) BY <2>1, <1>1, <1>3, <1>4 DEF CallsHold
  <2>. QED BY <2>2 DEF Others
<1>5. ASSUME st[Last(F).current] = "ACTIVE", RunsOutside(F, Last(F).current) PROVE FALSE
  BY <1>3, <1>5 DEF RunsOutside
<1>6. ASSUME NEW e \in Listeners, st[e] = "FIRING"
      PROVE  (Last(F).at = "running" /\ Last(F).current = e) \/ RunsOutside(F, e)
  <2>1. PICK i \in DOMAIN F : F[i].at = "running" /\ F[i].current = e BY <1>6 DEF CallsHold
  <2>. QED BY <2>1, <1>1, <1>2 DEF RunsOutside
<1>7. CallHolds(st, ac, Last(F)) /\ (Last(F).at = "checked" => InPlace(Q, Last(F)))
  BY <1>1 DEF CallsHold
<1>. QED BY <1>3, <1>4, <1>5, <1>6, <1>7
-----------------------------------------------------------------------------
\* What the innermost call that walks a queue erases.
LEMMA LeftAtTop ==
  ASSUME NEW Q, NEW L, NEW F \in Seq(FireCalls), F # <<>>, LeftErased(Q, L, F),
         Last(F).queue \in Queues, NEW p \in DOMAIN Q[Last(F).queue], Q[Last(F).queue][p] \in L
  PROVE  Last(F).alive <= p /\ p <= Last(F).end /\ InPlace(Q, Last(F))
<1>1. Len(F) \in Nat /\ DOMAIN F = 1 .. Len(F) /\ Len(F) \in DOMAIN F /\ Last(F) = F[Len(F)] BY FireTop
<1>2. PICK i \in DOMAIN F :
        LastWalk(F, i, Last(F).queue) /\ F[i].alive <= p /\ p <= F[i].end /\ InPlace(Q, F[i])
  BY DEF LeftErased
<1>3. ~(i < Len(F)) BY <1>1, <1>2 DEF LastWalk
<1>4. i = Len(F) BY <1>1, <1>3
<1>. QED BY <1>1, <1>2, <1>4

\* The innermost call goes on with its queue.
LEMMA LeftReplaced ==
  ASSUME NEW Q, NEW L, NEW F \in Seq(FireCalls), F # <<>>, LeftErased(Q, L, F),
         NEW G, NEW d, Replaces(F, G, d), NEW R, NEW M, Last(F).queue \in Queues, d.queue = Last(F).queue,
         \A q \in Queues : q # d.queue => R[q] = Q[q] /\ \A p \in DOMAIN Q[q] : Q[q][p] \in M => Q[q][p] \in L,
         \A p \in DOMAIN R[d.queue] : R[d.queue][p] \in M => d.alive <= p /\ p <= d.end /\ InPlace(R, d)
  PROVE  LeftErased(R, M, G)
<1>1. Len(F) \in Nat /\ DOMAIN F = 1 .. Len(F) /\ Len(F) \in DOMAIN F /\ Last(F) = F[Len(F)] BY FireTop
<1>2. DOMAIN G = DOMAIN F /\ G[Len(F)] = d /\ \A i \in DOMAIN F : i # Len(F) => G[i] = F[i] BY DEF Replaces
<1>. SUFFICES ASSUME NEW q \in Queues, NEW p \in DOMAIN R[q], R[q][p] \in M
              PROVE  \E i \in DOMAIN G : LastWalk(G, i, q) /\ G[i].alive <= p /\ p <= G[i].end /\ InPlace(R, G[i])
  BY DEF LeftErased
<1>3. CASE q = d.queue
  <2>1. \A j \in DOMAIN G : ~(Len(F) < j) BY <1>1, <1>2
  <2>2. LastWalk(G, Len(F), q) BY <2>1, <1>1, <1>2, <1>3 DEF LastWalk
  <2>. QED BY <2>2, <1>1, <1>2, <1>3
<1>4. CASE q # d.queue
  <2>1. PICK i \in DOMAIN F : LastWalk(F, i, q) /\ F[i].alive <= p /\ p <= F[i].end /\ InPlace(Q, F[i])
    BY <1>4 DEF LeftErased
  <2>2. i # Len(F) /\ F[i].queue = q BY <2>1, <1>1, <1>4 DEF LastWalk
  <2>3. LastWalk(G, i, q) BY <2>1, <2>2, <1>1, <1>2, <1>4 DEF LastWalk
  <2>4. InPlace(R, F[i]) BY <2>1, <2>2, <1>4 DEF InPlace
  <2>. QED BY <2>1, <2>2, <2>3, <2>4, <1>2
<1>. QED BY <1>3, <1>4

\* The innermost call has erased its queue, and walks the other or returns.
LEMMA LeftNormal ==
  ASSUME NEW Q, NEW L, NEW F \in Seq(FireCalls), F # <<>>, LeftErased(Q, L, F),
         NEW G, NEW d, Replaces(F, G, d), NEW R \in AllQueues, Last(F).queue = "priority", Begins(R, d, "normal", d.heard),
         R["normal"] = Q["normal"], \A p \in DOMAIN R["priority"] : R["priority"][p] \notin L
  PROVE  LeftErased(R, L, G)
<1>1. Len(F) \in Nat /\ DOMAIN F = 1 .. Len(F) /\ Len(F) \in DOMAIN F BY FireTop
<1>2. DOMAIN G = DOMAIN F /\ G[Len(F)] = d BY DEF Replaces
<1>. SUFFICES ASSUME NEW q \in Queues, NEW p \in DOMAIN R[q], R[q][p] \in L
              PROVE  \E i \in DOMAIN G : LastWalk(G, i, q) /\ G[i].alive <= p /\ p <= G[i].end /\ InPlace(R, G[i])
  BY DEF LeftErased
<1>3. q = "normal" BY DEF Queues
<1>4. p >= 1 /\ p <= Len(R["normal"]) BY <1>3, PlacesAreNumbers
<1>5. \A j \in DOMAIN G : ~(Len(F) < j) BY <1>1, <1>2
<1>6. LastWalk(G, Len(F), q) BY <1>1, <1>2, <1>3, <1>5 DEF LastWalk, Begins
<1>7. d.alive <= p /\ p <= d.end /\ InPlace(R, d) BY <1>4 DEF Begins, InPlace
<1>. QED BY <1>1, <1>2, <1>6, <1>7

\* A call that ends after its erasure leaves nothing to others.
LEMMA LeftPopped ==
  ASSUME NEW Q, NEW L, NEW F \in Seq(FireCalls), F # <<>>, LeftErased(Q, L, F), NEW G, Pops(F, G),
         NEW R, \A q \in Queues : q # Last(F).queue => R[q] = Q[q],
         \A p \in DOMAIN R[Last(F).queue] : R[Last(F).queue][p] \notin L
  PROVE  LeftErased(R, L, G)
<1>1. Len(F) \in Nat /\ DOMAIN F = 1 .. Len(F) /\ Len(F) \in DOMAIN F /\ Last(F) = F[Len(F)] BY FireTop
<1>. SUFFICES ASSUME NEW q \in Queues, NEW p \in DOMAIN R[q], R[q][p] \in L
              PROVE  \E i \in DOMAIN G : LastWalk(G, i, q) /\ G[i].alive <= p /\ p <= G[i].end /\ InPlace(R, G[i])
  BY DEF LeftErased
<1>2. q # Last(F).queue /\ R[q] = Q[q] OBVIOUS
<1>3. PICK i \in DOMAIN F : LastWalk(F, i, q) /\ F[i].alive <= p /\ p <= F[i].end /\ InPlace(Q, F[i])
  BY <1>2 DEF LeftErased
<1>4. i # Len(F) /\ F[i].queue = q BY <1>1, <1>2, <1>3 DEF LastWalk
<1>5. i \in DOMAIN G /\ G[i] = F[i] BY <1>4 DEF Pops
<1>6. LastWalk(G, i, q) BY <1>3, <1>5 DEF LastWalk, Pops
<1>7. InPlace(R, F[i]) BY <1>2, <1>3, <1>4 DEF InPlace
<1>. QED BY <1>3, <1>5, <1>6, <1>7

\* A call that begins takes over what is to be erased in its queue.
LEMMA LeftPushed ==
  ASSUME NEW Q \in AllQueues, NEW L, NEW F \in Seq(FireCalls), LeftErased(Q, L, F),
         NEW G, NEW d, Pushes(F, G, d), Begins(Q, d, "priority", <<>>)
  PROVE  LeftErased(Q, L, G)
<1>1. Len(G) \in Nat /\ DOMAIN G = 1 .. Len(G) /\ Len(G) \in DOMAIN G
  <2>1. G \in Seq(FireCalls) BY DEF Pushes
  <2>. QED BY <2>1 DEF Pushes
<1>. SUFFICES ASSUME NEW q \in Queues, NEW p \in DOMAIN Q[q], Q[q][p] \in L
              PROVE  \E i \in DOMAIN G : LastWalk(G, i, q) /\ G[i].alive <= p /\ p <= G[i].end /\ InPlace(Q, G[i])
  BY DEF LeftErased
<1>2. CASE q = "priority"
  <2>1. p >= 1 /\ p <= Len(Q["priority"]) BY <1>2, PlacesAreNumbers
  <2>2. \A j \in DOMAIN G : ~(Len(G) < j) BY <1>1
  <2>3. LastWalk(G, Len(G), q) BY <1>1, <1>2, <2>2 DEF LastWalk, Begins, Pushes
  <2>4. d.alive <= p /\ p <= d.end /\ InPlace(Q, d) BY <2>1 DEF Begins, InPlace
  <2>. QED BY <1>1, <2>3, <2>4 DEF Pushes
<1>3. CASE q # "priority"
  <2>1. PICK i \in DOMAIN F : LastWalk(F, i, q) /\ F[i].alive <= p /\ p <= F[i].end /\ InPlace(Q, F[i])
    BY DEF LeftErased
  <2>2. i \in DOMAIN G /\ G[i] = F[i] BY DEF Pushes
  <2>3. ASSUME NEW j \in DOMAIN G, i < j PROVE G[j].queue # q
    <3>1. CASE j = Len(G) BY <3>1, <1>3 DEF Pushes, Begins
    <3>2. CASE j # Len(G)
      <4>1. j \in DOMAIN F /\ G[j] = F[j] BY <3>2 DEF Pushes
      <4>. QED BY <4>1, <2>1, <2>3 DEF LastWalk
    <3>. QED BY <3>1, <3>2
  <2>4. LastWalk(G, i, q) BY <2>1, <2>2, <2>3 DEF LastWalk
  <2>. QED BY <2>1, <2>2, <2>4
<1>. QED BY <1>2, <1>3

\* A listener joins, others end.
LEMMA LeftAdded ==
  ASSUME NEW Q \in AllQueues, NEW L, NEW F \in Seq(FireCalls), LeftErased(Q, L, F),
         NEW R, NEW q0, NEW e, Adds(Q, R, q0, e), NEW M, e \notin M, M \subseteq L
  PROVE  LeftErased(R, M, F)
<1>. SUFFICES ASSUME NEW q \in Queues, NEW p \in DOMAIN R[q], R[q][p] \in M
              PROVE  \E i \in DOMAIN F : LastWalk(F, i, q) /\ F[i].alive <= p /\ p <= F[i].end /\ InPlace(R, F[i])
  BY DEF LeftErased
<1>1. p \in DOMAIN Q[q] /\ R[q][p] = Q[q][p] BY AddedFrom
<1>2. PICK i \in DOMAIN F : LastWalk(F, i, q) /\ F[i].alive <= p /\ p <= F[i].end /\ InPlace(Q, F[i])
  BY <1>1 DEF LeftErased
<1>3. F[i].queue = q BY <1>2 DEF LastWalk
<1>4. InPlace(R, F[i]) BY <1>2, <1>3, AddedKeeps DEF InPlace
<1>. QED BY <1>2, <1>4

\* Less is left when less is to be released.
LEMMA FewerLeft ==
  ASSUME NEW Q, NEW L, NEW F, LeftErased(Q, L, F), NEW M, M \subseteq L
  PROVE  LeftErased(Q, M, F)
BY DEF LeftErased
-----------------------------------------------------------------------------
\* No handler does anything but return: the only call leaves holes just where
\* it has moved listeners from, and all that is due is still to come.
OnlyHoles(Q, c) ==
  \A q \in Queues : \A p \in DOMAIN Q[q] : Q[q][p] = Null => q = c.queue /\ c.alive <= p /\ p < c.it

NoHole(Q) == \A q \in Queues : \A p \in DOMAIN Q[q] : Q[q][p] # Null

\* What that is for one call,
LEMMA UndisturbedOnly ==
  ASSUME NEW Q, NEW A, NEW F, DOMAIN F = {1}
  PROVE  UndisturbedHolds(Q, A, F) <=> OnlyHoles(Q, F[1]) /\ CallComplete(Q, A, F[1])
BY DEF UndisturbedHolds, OnlyHoles, NoHoles

\* and for none.
LEMMA UndisturbedNone ==
  ASSUME NEW Q, NEW A, NEW F, DOMAIN F = {}
  PROVE  UndisturbedHolds(Q, A, F) <=> NoHole(Q)
BY DEF UndisturbedHolds, NoHole, NoHoles

\* Whoever is due is in a queue when the call begins.
LEMMA CompleteBegun ==
  ASSUME NEW Q \in AllQueues, NEW A, NEW S, NEW c, Begins(Q, c, "priority", <<>>), c.due \subseteq S,
         AllQueued(Q, A, S), NoHole(Q)
  PROVE  OnlyHoles(Q, c) /\ CallComplete(Q, A, c)
<1>1. ASSUME NEW e \in c.due \cap A PROVE ToCome(Q, c, e)
  <2>1. PICK q \in Queues : InQueue(Q, q, e) BY DEF AllQueued
  <2>2. CASE q = "normal" BY <2>1, <2>2 DEF ToCome, Begins
  <2>3. CASE q = "priority"
    <3>1. PICK p \in DOMAIN Q["priority"] : Q["priority"][p] = e BY <2>1, <2>3 DEF InQueue
    <3>2. p \in Nat /\ p >= 1 BY PlacesAreNumbers DEF Queues
    <3>3. Ahead(c, p) BY <3>2 DEF Ahead, Begins
    <3>. QED BY <3>1, <3>3 DEF ToCome, Begins
  <2>. QED BY <2>2, <2>3 DEF Queues
<1>. QED BY <1>1 DEF OnlyHoles, CallComplete, NoHole, Begins

\* The listener that is asked for its lifetime is still to come.
LEMMA CompleteChecked ==
  ASSUME NEW Q, NEW A, NEW c, c.at = "next", OnlyHoles(Q, c), CallComplete(Q, A, c), NEW e,
         NEW d, CheckedNow(c, d, e)
  PROVE  OnlyHoles(Q, d) /\ CallComplete(Q, A, d)
<1>1. \A p : Ahead(c, p) => Ahead(d, p) \/ (d.it = p /\ d.at = "checked") BY DEF Ahead, CheckedNow
<1>2. ASSUME NEW x, ToCome(Q, c, x) PROVE ToCome(Q, d, x) BY <1>1, <1>2 DEF ToCome, CheckedNow
<1>3. OnlyHoles(Q, d) BY DEF OnlyHoles, CheckedNow
<1>. QED BY <1>2, <1>3 DEF CallComplete, CheckedNow

\* A listener that is skipped was called or does not live.
LEMMA CompleteSkipped ==
  ASSUME NEW Q \in AllQueues, NEW A, NEW c \in FireCalls, OnlyHoles(Q, c), CallComplete(Q, A, c),
         c.at = "running" \/ (c.it \in DOMAIN Q[c.queue] => Q[c.queue][c.it] \notin A),
         NEW d, Skipped(c, d)
  PROVE  OnlyHoles(Q, d) /\ CallComplete(Q, A, d)
<1>0. c.it \in Nat /\ c.queue \in Queues /\ \A p \in DOMAIN Q[c.queue] : p \in Nat
  BY CallIs, PlacesAreNumbers
<1>1. ASSUME NEW x \in A, ToCome(Q, c, x) PROVE ToCome(Q, d, x)
  <2>1. CASE c.queue = "priority" /\ InQueue(Q, "normal", x) BY <2>1 DEF ToCome, Skipped
  <2>2. ASSUME NEW p \in DOMAIN Q[c.queue], Q[c.queue][p] = x, Ahead(c, p) \/ (c.it = p /\ c.at = "checked")
        PROVE  ToCome(Q, d, x)
    <3>1. p # c.it BY <1>0, <1>1, <2>2 DEF Ahead
    <3>2. c.it + 1 <= p BY <1>0, <2>2, <3>1 DEF Ahead
    <3>3. Ahead(d, p) BY <1>0, <3>2 DEF Ahead, Skipped
    <3>. QED BY <2>2, <3>3 DEF ToCome, Skipped
  <2>. QED BY <1>1, <2>1, <2>2 DEF ToCome
<1>2. OnlyHoles(Q, d)
  <2>1. \A p \in DOMAIN Q[c.queue] : p < c.it => p < c.it + 1 BY <1>0
  <2>. QED BY <2>1 DEF OnlyHoles, Skipped
<1>. QED BY <1>1, <1>2 DEF CallComplete, Skipped

\* The listener that is called has come.
LEMMA CompleteCalled ==
  ASSUME NEW Q, NEW A, NEW c \in FireCalls, c.at = "checked", c.current \in Listeners, InPlace(Q, c),
         OnlyHoles(Q, c), CallComplete(Q, A, c), NEW d, CalledNow(c, d)
  PROVE  OnlyHoles(Q, d) /\ CallComplete(Q, A, d)
<1>1. Range(d.heard) = Range(c.heard) \cup {c.current}
  <2>1. c.heard \in Seq(Listeners) BY CallIs
  <2>. QED BY <2>1, HeardMore DEF CalledNow
<1>2. ASSUME NEW x, ToCome(Q, c, x) PROVE x = c.current \/ ToCome(Q, d, x)
  <2>1. CASE c.queue = "priority" /\ InQueue(Q, "normal", x) BY <2>1 DEF ToCome, CalledNow
  <2>2. ASSUME NEW p \in DOMAIN Q[c.queue], Q[c.queue][p] = x, Ahead(c, p) \/ c.it = p
        PROVE  x = c.current \/ ToCome(Q, d, x)
    <3>1. CASE p = c.it BY <2>2, <3>1 DEF InPlace
    <3>2. CASE p # c.it
      <4>1. Ahead(d, p) BY <2>2, <3>2 DEF Ahead, CalledNow
      <4>. QED BY <2>2, <4>1 DEF ToCome, CalledNow
    <3>. QED BY <3>1, <3>2
  <2>. QED BY <1>2, <2>1, <2>2 DEF ToCome
<1>3. OnlyHoles(Q, d) BY DEF OnlyHoles, CalledNow
<1>. QED BY <1>1, <1>2, <1>3 DEF CallComplete, CalledNow

\* A listener that stays leaves a hole where it was, if it moves.
LEMMA CompleteMoved ==
  ASSUME NEW Q \in AllQueues, NEW A, NEW c \in FireCalls, c.at = "running", InPlace(Q, c), c.current \in Listeners,
         OnlyHoles(Q, c), CallComplete(Q, A, c), NEW R, Moves(Q, R, c), NEW d, MovedOn(c, d)
  PROVE  OnlyHoles(R, d) /\ CallComplete(R, A, d)
<1>0. /\ c.it \in Nat /\ c.alive \in Nat /\ c.alive <= c.it /\ c.queue \in Queues
      /\ \A p \in DOMAIN Q[c.queue] : p \in Nat
      /\ Q[c.queue][c.it] # Null
  BY CallIs, PlacesAreNumbers, SignalAssumption DEF Moves, InPlace
<1>1. ASSUME NEW x, ToCome(Q, c, x) PROVE ToCome(R, d, x)
  <2>1. CASE c.queue = "priority" /\ InQueue(Q, "normal", x)
    <3>1. R["normal"] = Q["normal"] BY <2>1 DEF Moves, Queues
    <3>. QED BY <2>1, <3>1 DEF ToCome, MovedOn, InQueue
  <2>2. ASSUME NEW p \in DOMAIN Q[c.queue], Q[c.queue][p] = x, Ahead(c, p)
        PROVE  ToCome(R, d, x)
    <3>1. p \in Nat /\ c.it < p BY <1>0, <2>2 DEF Ahead
    <3>2. R[c.queue][p] = x /\ p \in DOMAIN R[c.queue] BY <1>0, <2>2, <3>1 DEF Moves
    <3>3. Ahead(d, p) BY <1>0, <3>1 DEF Ahead, MovedOn
    <3>. QED BY <3>2, <3>3 DEF ToCome, MovedOn
  <2>. QED BY <1>1, <2>1, <2>2 DEF ToCome
<1>2. OnlyHoles(R, d)
  <2>. SUFFICES ASSUME NEW q \in Queues, NEW p \in DOMAIN R[q], R[q][p] = Null
                PROVE  q = c.queue /\ c.alive + 1 <= p /\ p < c.it + 1
    BY DEF OnlyHoles, MovedOn
  <2>1. q = c.queue BY DEF OnlyHoles, Moves
  <2>2. p \in Nat /\ p \in DOMAIN Q[c.queue] BY <1>0, <2>1 DEF Moves
  <2>3. p # c.alive BY <1>0, <2>1 DEF Moves
  <2>4. CASE p = c.it BY <2>1, <2>2, <2>3, <2>4, <1>0
  <2>5. CASE p # c.it
    <3>1. Q[c.queue][p] = Null BY <2>1, <2>2, <2>3, <2>5 DEF Moves
    <3>2. c.alive <= p /\ p < c.it BY <3>1, <2>2, <1>0 DEF OnlyHoles
    <3>. QED BY <3>2, <2>1, <2>2, <2>3, <1>0
  <2>. QED BY <2>4, <2>5
<1>3. Len(R[c.queue]) = Len(Q[c.queue]) BY DEF Moves
<1>. QED BY <1>1, <1>2, <1>3 DEF CallComplete, MovedOn

\* At the end of a walk nobody is left to come but from the other queue.
LEMMA CompleteEnded ==
  ASSUME NEW Q \in AllQueues, NEW A, NEW c \in FireCalls, c.at = "next", c.it > c.end,
         OnlyHoles(Q, c), CallComplete(Q, A, c), NEW R, Erases(Q, R, c), c.it <= c.end + 1
  PROVE  /\ NoHole(R) /\ c.end <= Len(Q[c.queue])
         /\ \A e \in c.due \cap A : e \in Range(c.heard) \/ (c.queue = "priority" /\ InQueue(R, "normal", e))
         /\ c.queue = "priority" => \A d : Begins(R, d, "normal", c.heard) /\ d.due = c.due =>
              OnlyHoles(R, d) /\ CallComplete(R, A, d)
<1>0. /\ c.it \in Nat /\ c.alive \in Nat /\ c.queue \in Queues /\ c.end \in Nat
      /\ Len(Q[c.queue]) \in Nat /\ c.end = Len(Q[c.queue])
      /\ \A p \in DOMAIN Q[c.queue] : p \in Nat /\ p <= Len(Q[c.queue])
  BY CallIs, PlacesAreNumbers DEF CallComplete
<1>1. NoHole(R)
  <2>. SUFFICES ASSUME NEW q \in Queues, NEW p \in DOMAIN R[q], R[q][p] = Null PROVE FALSE BY DEF NoHole
  <2>1. CASE q # c.queue BY <2>1 DEF OnlyHoles, Erases
  <2>2. CASE q = c.queue
    <3>1. PICK b \in DOMAIN Q[q] : Q[q][b] = Null /\ ~(c.alive <= b /\ b <= c.end) BY <2>2 DEF Erases
    <3>2. c.alive <= b /\ b < c.it /\ b \in Nat BY <3>1, <2>2, <1>0 DEF OnlyHoles
    <3>. QED BY <3>1, <3>2, <1>0
  <2>. QED BY <2>1, <2>2
<1>2. ASSUME NEW e \in c.due \cap A
      PROVE  e \in Range(c.heard) \/ (c.queue = "priority" /\ InQueue(R, "normal", e))
  <2>1. \A p \in DOMAIN Q[c.queue] : ~Ahead(c, p) BY <1>0 DEF Ahead
  <2>2. e \in Range(c.heard) \/ (c.queue = "priority" /\ InQueue(Q, "normal", e))
    BY <2>1 DEF CallComplete, ToCome
  <2>3. c.queue = "priority" => R["normal"] = Q["normal"] BY DEF Erases, Queues
  <2>. QED BY <2>2, <2>3 DEF InQueue
<1>3. ASSUME c.queue = "priority", NEW d, Begins(R, d, "normal", c.heard), d.due = c.due
      PROVE  OnlyHoles(R, d) /\ CallComplete(R, A, d)
  <2>1. OnlyHoles(R, d) BY <1>1 DEF OnlyHoles, NoHole
  <2>2. R \in AllQueues BY DEF Erases
  <2>3. ASSUME NEW e, InQueue(R, "normal", e) PROVE ToCome(R, d, e)
    <3>1. PICK p \in DOMAIN R["normal"] : R["normal"][p] = e BY <2>3 DEF InQueue
    <3>2. p \in Nat /\ p >= 1 BY <2>2, PlacesAreNumbers DEF Queues
    <3>3. Ahead(d, p) BY <1>3, <3>2 DEF Ahead, Begins
    <3>. QED BY <1>3, <3>1, <3>3 DEF ToCome, Begins
  <2>4. \A e \in d.due \cap A : e \in Range(d.heard) \/ ToCome(R, d, e) BY <1>2, <1>3, <2>3 DEF Begins
  <2>. QED BY <1>3, <2>1, <2>4 DEF CallComplete, Begins
<1>. QED BY <1>0, <1>1, <1>2, <1>3

\* When lifetimes end less is due.
LEMMA CompleteFewer ==
  ASSUME NEW Q, NEW A, NEW B, B \subseteq A, NEW F, UndisturbedHolds(Q, A, F)
  PROVE  UndisturbedHolds(Q, B, F)
BY DEF UndisturbedHolds, CallComplete
-----------------------------------------------------------------------------
\* What holds of the innermost call of fire.
LEMMA TopHolds ==
  ASSUME SignalInv, fireCalls # <<>>
  PROVE  /\ fireCalls \in Seq(FireCalls) /\ TopFire = Last(fireCalls) /\ TopFire \in FireCalls
         /\ queue \in AllQueues /\ Living \in SUBSET Listeners /\ ToRelease \subseteq Listeners
         /\ TopFire.queue \in Queues /\ TopFire.it \in Nat /\ TopFire.end \in Nat /\ TopFire.alive \in Nat
         /\ TopFire.alive >= 1
         /\ TopFire.alive <= TopFire.it /\ TopFire.it <= TopFire.end + 1
         /\ TopFire.at # "next" => TopFire.it <= TopFire.end /\ TopFire.current \in Listeners
         /\ CallHolds(state, action, TopFire)
         /\ TopFire.at = "checked" => InPlace(queue, TopFire)
<1>1. fireCalls \in Seq(FireCalls) /\ queue \in AllQueues BY DEF SignalInv, SignalTypeOK, AllQueues
<1>2. TopFire = Last(fireCalls) /\ TopFire \in FireCalls BY <1>1, FireTop DEF TopFire
<1>3. CallHolds(state, action, TopFire) /\ (TopFire.at = "checked" => InPlace(queue, TopFire))
  BY <1>1, <1>2, TopRunsOnce DEF SignalInv
<1>. QED BY <1>1, <1>2, <1>3, CallIs DEF CallHolds, Living, ToRelease

\* Of an undefined step nothing is said, as long as it could not happen.
LEMMA UndefinedKeeps ==
  ASSUME SignalInv, signalFault' = TRUE, effects # {} \/ effects' # {},
         UNCHANGED <<queue, state, action, fireCalls, lifetimeEnding, lifetimeActions, released, order, missed>>,
         advising' \in {advising, Null}, effects \subseteq effects', effects' \subseteq {"fire", "advise", "throw"}
  PROVE  SignalInv'
<1>1. SignalTypeOK' BY DEF SignalInv, SignalTypeOK
<1>2. EventsKept' /\ LifetimesKept' BY DEF SignalInv, EventsKept, LifetimesKept, Alive
<1>3. Advised' = Advised /\ Living' = Living /\ TopFire' = TopFire BY DEF Advised, Living, Alive, TopFire
<1>. QED BY <1>1, <1>2, <1>3 DEF SignalInv

\* The innermost call goes on to the next listener, or to this one.
GoesOn(c, d) ==
  /\ d \in FireCalls /\ d.queue = c.queue /\ d.alive = c.alive /\ d.end = c.end
  /\ d.at \in {"next", "checked"}

\* The invariant is kept by a step that moves only the innermost call.
LEMMA TopGoesOn ==
  ASSUME SignalInv, fireCalls # <<>>, ~signalFault, advising = Null,
         NEW c, c = TopFire, NEW d, GoesOn(c, d), SetTop(d),
         UNCHANGED <<queue, state, action, lifeVars, advising, signalHist, signalFault>>,
         ~(c.at = "running" /\ state[c.current] = "FIRING"), CallHolds(state, action, d),
         d.at = "checked" => InPlace(queue, d),
         "fire" \notin effects /\ CallInOrder(queue, Living, order, c) => CallInOrder(queue, Living, order, d),
         effects = {} /\ OnlyHoles(queue, c) /\ CallComplete(queue, Living, c) =>
           OnlyHoles(queue, d) /\ CallComplete(queue, Living, d)
  PROVE  SignalInv'
<1>1. /\ fireCalls \in Seq(FireCalls) /\ c = Last(fireCalls) /\ c \in FireCalls /\ queue \in AllQueues
      /\ c.queue \in Queues /\ Living \in SUBSET Listeners
  BY TopHolds
<1>2. PICK F : F = fireCalls OBVIOUS
<1>3. PICK G : G = Append(Front(F), d) OBVIOUS
<1>4. fireCalls' = G BY <1>2, <1>3 DEF SetTop
<1>5. Replaces(F, G, d) BY <1>1, <1>2, <1>3, TopReplaced DEF GoesOn
<1>6. UNCHANGED <<queue, state, action, lifetimeEnding, lifetimeActions, released, advising, order, missed,
                  effects, signalFault>>
  BY DEF lifeVars, signalHist
<1>7. SignalTypeOK' BY <1>4, <1>5, <1>6 DEF SignalInv, SignalTypeOK, Replaces
<1>8. EventsKept' /\ LifetimesKept' BY <1>6 DEF SignalInv, EventsKept, LifetimesKept, Alive
<1>9. Advised' = Advised /\ Living' = Living /\ ToRelease' = ToRelease
  BY <1>6 DEF Advised, Living, Alive, ToRelease
<1>10. QueuesHold(queue, Advised)' BY <1>6, <1>9 DEF SignalInv
<1>11. CallsHold(queue, state, action, fireCalls)'
  <2>1. CallsHold(queue, state, action, F) BY <1>2 DEF SignalInv
  <2>2. /\ \A i \in Others(F) : state[F[i].current] \in {"FIRING", "TERMINATED"} /\ action[F[i].current]
        /\ \A e \in Listeners : state[e] = "FIRING" =>
              (Last(F).at = "running" /\ Last(F).current = e) \/ RunsOutside(F, e)
    BY <2>1, <1>1, <1>2, TopRunsOnce
  <2>3. d.at # "running" /\ d \in FireCalls BY DEF GoesOn
  <2>4. \A e \in Listeners : state[e] = "FIRING" => RunsOutside(F, e) BY <2>2, <1>1, <1>2
  <2>5. CallsHold(queue, state, action, G) BY <2>1, <2>2, <2>3, <2>4, <1>1, <1>2, <1>5, CallsReplaced
  <2>. QED BY <2>5, <1>4, <1>6
<1>12. ASSUME "throw" \notin effects PROVE LeftErased(queue, ToRelease, fireCalls)'
  <2>1. LeftErased(queue, ToRelease, F) BY <1>2, <1>12 DEF SignalInv
  <2>2. ASSUME NEW p \in DOMAIN queue[c.queue], queue[c.queue][p] \in ToRelease
        PROVE  d.alive <= p /\ p <= d.end /\ InPlace(queue, d)
    <3>1. c.alive <= p /\ p <= c.end BY <2>1, <2>2, <1>1, <1>2, LeftAtTop
    <3>2. InPlace(queue, d) BY DEF GoesOn, InPlace
    <3>. QED BY <3>1, <3>2 DEF GoesOn
  <2>3. d.queue = c.queue BY DEF GoesOn
  <2>4. LeftErased(queue, ToRelease, G)
    BY <2>1, <2>2, <2>3, <1>1, <1>2, <1>5, LeftReplaced
  <2>. QED BY <2>4, <1>4, <1>6, <1>9
<1>13. ASSUME "fire" \notin effects PROVE SingleHolds(queue, Living, order, Advised, fireCalls)'
  <2>1. SingleHolds(queue, Living, order, Advised, F) BY <1>2, <1>13 DEF SignalInv
  <2>2. CallInOrder(queue, Living, order, d) BY <2>1, <1>1, <1>2, <1>13, OnlyCall
  <2>3. AllQueued(queue, Living, Advised) /\ \A q \in Queues : Sorted(queue[q], Living, order)
    BY <2>1 DEF SingleHolds
  <2>4. SingleHolds(queue, Living, order, Advised, G)
    BY <2>1, <2>2, <2>3, <1>1, <1>2, <1>5, SingleReplaced
  <2>. QED BY <2>4, <1>4, <1>6, <1>9
<1>14. ASSUME effects = {} PROVE UndisturbedHolds(queue, Living, fireCalls)' /\ missed' = {}
  <2>1. SingleHolds(queue, Living, order, Advised, F) /\ UndisturbedHolds(queue, Living, F) /\ missed = {}
    BY <1>2, <1>14 DEF SignalInv
  <2>2. Len(F) = 1 /\ DOMAIN F = {1} /\ F[1] = c BY <2>1, <1>1, <1>2, OnlyCall
  <2>3. OnlyHoles(queue, d) /\ CallComplete(queue, Living, d) BY <2>1, <2>2, <1>14, UndisturbedOnly
  <2>4. DOMAIN G = {1} /\ G[1] = d BY <2>2, <1>5 DEF Replaces
  <2>5. UndisturbedHolds(queue, Living, G) BY <2>3, <2>4, UndisturbedOnly
  <2>. QED BY <2>1, <2>5, <1>4, <1>6, <1>9
<1>. QED BY <1>6, <1>7, <1>8, <1>10, <1>11, <1>12, <1>13, <1>14 DEF SignalInv

\* fire asks the lifetime of the next listener.
LEMMA CheckLifetimeKeeps == ASSUME SignalInv, CheckLifetime PROVE SignalInv'
<1>0. fireCalls # <<>> /\ ~signalFault /\ advising = Null BY DEF CheckLifetime, Walking
<1>1. PICK c : c = TopFire OBVIOUS
<1>2. PICK s : s = queue[c.queue] OBVIOUS
<1>3. /\ c \in FireCalls /\ c.at = "next" /\ c.it <= c.end /\ c.queue \in Queues /\ c.it \in Nat /\ c.it >= 1
      /\ c.alive \in Nat /\ c.end \in Nat /\ queue \in AllQueues /\ s \in Seq(Slots)
      /\ c.alive <= c.it /\ CallHolds(state, action, c) /\ c = Last(fireCalls) /\ fireCalls \in Seq(FireCalls)
  <2>1. c \in FireCalls /\ c.at = "next" /\ c.it <= c.end /\ queue \in AllQueues
    BY <1>0, <1>1, TopHolds DEF CheckLifetime, Walking
  <2>2. c.queue \in Queues /\ c.it \in Nat /\ c.it >= 1 /\ c.alive \in Nat /\ c.end \in Nat BY <2>1, CallIs
  <2>3. s \in Seq(Slots) BY <2>1, <2>2, <1>2 DEF AllQueues
  <2>. QED BY <2>1, <2>2, <2>3, <1>0, <1>1, TopHolds
<1>4. CASE c.it > Len(s) \/ s[c.it] = Null
  <2>1. signalFault' = TRUE /\ UNCHANGED <<queue, state, action, fireCalls, lifeVars, advising, signalHist>>
    BY <1>1, <1>2, <1>4 DEF CheckLifetime, Undefined
  <2>2. ASSUME effects = {} PROVE FALSE
    <3>1. /\ SingleHolds(queue, Living, order, Advised, fireCalls)
          /\ UndisturbedHolds(queue, Living, fireCalls)
      BY <2>2 DEF SignalInv
    <3>2. DOMAIN fireCalls = {1} /\ fireCalls[1] = c BY <3>1, <1>0, <1>3, OnlyCall
    <3>3. OnlyHoles(queue, c) /\ c.end = Len(s) BY <3>1, <3>2, <1>2, UndisturbedOnly DEF CallComplete
    <3>4. c.it \in DOMAIN s /\ s[c.it] = Null BY <3>3, <1>3, <1>4
    <3>5. c.it < c.it BY <3>3, <3>4, <1>2, <1>3 DEF OnlyHoles
    <3>. QED BY <3>5, <1>3
  <2>3. effects' = effects /\ effects \subseteq {"fire", "advise", "throw"}
    BY <2>1 DEF signalHist, SignalInv, SignalTypeOK
  <2>. QED BY <2>1, <2>2, <2>3, UndefinedKeeps DEF lifeVars, signalHist
<1>5. CASE ~(c.it > Len(s) \/ s[c.it] = Null)
  <2>1. PICK e : e = s[c.it] OBVIOUS
  <2>2. c.it \in DOMAIN s /\ e \in Listeners /\ c.it \in DOMAIN queue[c.queue] /\ queue[c.queue][c.it] = e
    <3>1. c.it \in 1 .. Len(s) BY <1>3, <1>5
    <3>2. DOMAIN s = 1 .. Len(s) /\ s[c.it] \in Slots BY <3>1, <1>3
    <3>. QED BY <3>1, <3>2, <2>1, <1>2, <1>5 DEF Slots
  <2>3. e \in Advised
    <3>1. e # Null BY <2>2, SignalAssumption
    <3>. QED BY <3>1, <2>2, <1>3 DEF SignalInv, QueuesHold
  <2>4. PICK d : d = IF Alive(e) THEN [c EXCEPT !.at = "checked", !.current = e] ELSE Skip(c) OBVIOUS
  <2>5. /\ SetTop(d)
        /\ UNCHANGED <<queue, state, action, lifeVars, advising, signalHist, signalFault>>
    BY <2>1, <2>4, <1>1, <1>2, <1>5 DEF CheckLifetime
  <2>6. CASE Alive(e)
    <3>1. CheckedNow(c, d, e) BY <2>2, <2>4, <2>6, <1>3, CallGoesOn
    <3>2. e \in Living BY <2>2, <2>6 DEF Living
    <3>3. GoesOn(c, d) BY <3>1 DEF GoesOn, CheckedNow
    <3>4. CallHolds(state, action, d)
      BY <3>1, <2>2, <2>3, <1>3 DEF CallHolds, CheckedNow, Advised
    <3>5. InPlace(queue, d) BY <3>1, <2>2 DEF InPlace, CheckedNow
    <3>6. CallInOrder(queue, Living, order, c) => CallInOrder(queue, Living, order, d)
      BY <3>1, <3>2, <2>2, <1>3, CheckedInOrder
    <3>7. OnlyHoles(queue, c) /\ CallComplete(queue, Living, c) => OnlyHoles(queue, d) /\ CallComplete(queue, Living, d)
      BY <3>1, <1>3, CompleteChecked
    <3>. QED BY <3>3, <3>4, <3>5, <3>6, <3>7, <2>5, <1>0, <1>1, <1>3, TopGoesOn
  <2>7. CASE ~Alive(e)
    <3>1. Skipped(c, d) BY <2>4, <2>7, <1>3, CallGoesOn
    <3>2. queue[c.queue][c.it] \notin Living BY <2>2, <2>7 DEF Living
    <3>3. GoesOn(c, d) BY <3>1 DEF GoesOn, Skipped
    <3>4. CallHolds(state, action, d) BY <3>1, <1>3 DEF CallHolds, Skipped
    <3>5. d.at # "checked" BY <3>1 DEF Skipped
    <3>6. CallInOrder(queue, Living, order, c) => CallInOrder(queue, Living, order, d)
      BY <3>1, <3>2, <1>3, SkippedInOrder
    <3>7. OnlyHoles(queue, c) /\ CallComplete(queue, Living, c) => OnlyHoles(queue, d) /\ CallComplete(queue, Living, d)
      BY <3>1, <3>2, <1>3, CompleteSkipped
    <3>. QED BY <3>3, <3>4, <3>5, <3>6, <3>7, <2>5, <1>0, <1>1, <1>3, TopGoesOn
  <2>. QED BY <2>6, <2>7
<1>. QED BY <1>4, <1>5

\* What a sequence has in it is in its set.
LEMMA RangeIn ==
  ASSUME NEW S, NEW s \in Seq(S)
  PROVE  \A x \in Range(s) : x \in S
<1>1. \A i \in DOMAIN s : s[i] \in S
  <2>1. DOMAIN s = 1 .. Len(s) /\ \A i \in 1 .. Len(s) : s[i] \in S OBVIOUS
  <2>. QED BY <2>1
<1>. QED BY <1>1 DEF Range

\* A handler begins or ends: nobody joins, and no lifetime does anything.
LEMMA EventsGoOn ==
  ASSUME SignalInv, UNCHANGED <<lifetimeEnding, lifetimeActions, released, order>>,
         advising' \in {advising, Null}, NEW st, state' = st, NEW ac, action' = ac,
         \A x \in Listeners : /\ st[x] = "none" <=> state[x] = "none"
                              /\ st[x] \in {"ACTIVE", "FIRING"} => state[x] \in {"ACTIVE", "FIRING"} /\ ac[x]
                              /\ st[x] = "TERMINATED" => state[x] = "TERMINATED"
                              /\ ac[x] => action[x]
  PROVE  EventsKept' /\ LifetimesKept' /\ Advised' = Advised /\ Living' = Living
<1>1. \A x : Alive(x)' = Alive(x) BY DEF Alive
<1>2. EventsKept'
  <2>1. EventsKept BY DEF SignalInv
  <2>2. advising # Null => advising.listener \in Listeners BY DEF SignalInv, SignalTypeOK
  <2>3. (advising # Null => state[advising.listener] = "none")'
    BY <2>1, <2>2 DEF EventsKept
  <2>4. \A x \in Listeners : st[x] = "none" <=> x \notin Range(order) BY <2>1 DEF EventsKept
  <2>5. \A x \in Listeners : st[x] = "none" => ~ac[x] BY <2>1 DEF EventsKept
  <2>6. \A x \in Listeners : st[x] \in {"ACTIVE", "FIRING"} =>
          ac[x] /\ (LifetimeOf[x] # Eternal => x \in Range(lifetimeActions[LifetimeOf[x]]))
    BY <2>1 DEF EventsKept
  <2>7. \A x \in Listeners : st[x] = "TERMINATED" => ~Alive(x) BY <2>1 DEF EventsKept
  <2>8. \A i, j \in DOMAIN order : order[i] = order[j] => i = j BY <2>1 DEF EventsKept
  <2>. QED BY <1>1, <2>3, <2>4, <2>5, <2>6, <2>7, <2>8 DEF EventsKept
<1>3. \A l \in ListenerLifetimes : \A x \in Range(lifetimeActions[l]) : x \in Listeners
  BY RangeIn DEF SignalInv, SignalTypeOK
<1>4. LifetimesKept' BY <1>3 DEF SignalInv, LifetimesKept
<1>5. Advised' = Advised /\ Living' = Living BY DEF Advised, Living, Alive
<1>. QED BY <1>2, <1>4, <1>5

\* A listener whose lifetime said yes is called, if nobody calls it already.
LEMMA TryFireKeeps == ASSUME SignalInv, TryFire PROVE SignalInv'
<1>0. fireCalls # <<>> /\ ~signalFault /\ advising = Null BY DEF TryFire, Walking
<1>1. PICK c : c = TopFire OBVIOUS
<1>2. PICK e : e = c.current OBVIOUS
<1>3. /\ fireCalls \in Seq(FireCalls) /\ c = Last(fireCalls) /\ c \in FireCalls /\ c.at = "checked"
      /\ queue \in AllQueues /\ Living \in SUBSET Listeners /\ e \in Listeners /\ InPlace(queue, c)
      /\ c.queue \in Queues /\ c.it \in DOMAIN queue[c.queue] /\ queue[c.queue][c.it] = e
      /\ CallHolds(state, action, c) /\ c.it <= c.end /\ c.alive <= c.it
      /\ c.it \in Nat /\ c.alive \in Nat /\ c.end \in Nat /\ c.current \in Listeners
  <2>1. c.at = "checked" BY <1>1 DEF TryFire, Walking
  <2>2. InPlace(queue, c) /\ c.current \in Listeners /\ c.it <= c.end BY <2>1, <1>0, <1>1, TopHolds
  <2>3. c.it \in DOMAIN queue[c.queue] /\ queue[c.queue][c.it] = e BY <2>1, <2>2, <1>2 DEF InPlace
  <2>. QED BY <2>1, <2>2, <2>3, <1>0, <1>1, <1>2, TopHolds
<1>4. PICK F : F = fireCalls OBVIOUS
<1>5. /\ \A i \in Others(F) : /\ state[F[i].current] \in {"FIRING", "TERMINATED"} /\ action[F[i].current]
                              /\ F[i].current \in Listeners
      /\ state[c.current] = "ACTIVE" => ~RunsOutside(F, c.current)
      /\ \A x \in Listeners : state[x] = "FIRING" => RunsOutside(F, x)
  <2>1. CallsHold(queue, state, action, F) BY <1>4 DEF SignalInv
  <2>. QED BY <2>1, <1>0, <1>3, <1>4, TopRunsOnce
<1>6. state[e] \in {"none", "ACTIVE", "FIRING", "TERMINATED"} /\ state[e] # "none"
  BY <1>2, <1>3 DEF SignalInv, SignalTypeOK, CallHolds
<1>7. CASE state[e] # "ACTIVE"
  <2>1. PICK d : d = Skip(c) OBVIOUS
  <2>2. SetTop(d) /\ UNCHANGED <<queue, state, action, lifeVars, advising, signalHist, signalFault>>
    BY <2>1, <1>1, <1>2, <1>7 DEF TryFire
  <2>3. Skipped(c, d) BY <2>1, <1>3, CallGoesOn
  <2>4. GoesOn(c, d) BY <2>3 DEF GoesOn, Skipped
  <2>5. CallHolds(state, action, d) BY <2>3, <1>3 DEF CallHolds, Skipped
  <2>6. d.at # "checked" BY <2>3 DEF Skipped
  <2>7. ASSUME "fire" \notin effects PROVE e \notin Living
    <3>1. Len(F) = 1 /\ DOMAIN F = {1} BY <2>7, <1>0, <1>3, <1>4, OnlyCall DEF SignalInv
    <3>2. Others(F) = {} BY <3>1 DEF Others
    <3>3. state[e] = "TERMINATED" BY <3>2, <1>3, <1>5, <1>6, <1>7 DEF RunsOutside
    <3>4. ~Alive(e) BY <3>3, <1>3 DEF SignalInv, EventsKept
    <3>. QED BY <3>4 DEF Living
  <2>8. "fire" \notin effects /\ CallInOrder(queue, Living, order, c) => CallInOrder(queue, Living, order, d)
    BY <2>3, <2>7, <1>3, SkippedInOrder
  <2>9. effects = {} /\ OnlyHoles(queue, c) /\ CallComplete(queue, Living, c) =>
          OnlyHoles(queue, d) /\ CallComplete(queue, Living, d)
    BY <2>3, <2>7, <1>3, CompleteSkipped
  <2>. QED BY <2>2, <2>4, <2>5, <2>6, <2>8, <2>9, <1>0, <1>1, <1>3, TopGoesOn
<1>8. CASE state[e] = "ACTIVE"
  <2>1. PICK d : d = [c EXCEPT !.at = "running", !.heard = Append(@, c.current)] OBVIOUS
  <2>2. PICK st : st = [state EXCEPT ![e] = "FIRING"] OBVIOUS
  <2>3. PICK G : G = Append(Front(F), d) OBVIOUS
  <2>4. /\ fireCalls' = G /\ state' = st
        /\ UNCHANGED <<queue, action, lifetimeEnding, lifetimeActions, released, advising, order, missed,
                       effects, signalFault>>
    BY <2>1, <2>2, <2>3, <1>1, <1>2, <1>4, <1>8 DEF TryFire, CallCurrent, SetTop, lifeVars, signalHist
  <2>5. CalledNow(c, d) BY <2>1, <1>3, CallGoesOn
  <2>6. d \in FireCalls /\ Replaces(F, G, d) BY <2>3, <2>5, <1>0, <1>3, <1>4, TopReplaced DEF CalledNow
  <2>7. /\ state \in [Listeners -> {"none", "ACTIVE", "FIRING", "TERMINATED"}]
        /\ st \in [Listeners -> {"none", "ACTIVE", "FIRING", "TERMINATED"}]
        /\ st[e] = "FIRING" /\ \A x \in Listeners : x # e => st[x] = state[x]
    BY <2>2, <1>3 DEF SignalInv, SignalTypeOK
  <2>8. SignalTypeOK' BY <2>4, <2>6, <2>7 DEF SignalInv, SignalTypeOK, Replaces
  <2>10. EventsKept' /\ LifetimesKept' /\ Advised' = Advised /\ Living' = Living
    <3>1. \A x \in Listeners :
            /\ st[x] = "none" <=> state[x] = "none"
            /\ st[x] \in {"ACTIVE", "FIRING"} => state[x] \in {"ACTIVE", "FIRING"} /\ action[x]
            /\ st[x] = "TERMINATED" => state[x] = "TERMINATED"
      BY <2>7, <1>8 DEF SignalInv, EventsKept
    <3>. QED BY <3>1, <2>4, EventsGoOn
  <2>11. QueuesHold(queue, Advised)' BY <2>4, <2>10 DEF SignalInv
  <2>12. CallsHold(queue, state, action, fireCalls)'
    <3>1. CallsHold(queue, state, action, F) BY <1>4 DEF SignalInv
    <3>2. action[e] BY <1>3, <1>8 DEF SignalInv, EventsKept
    <3>3. CallHolds(st, action, d)
      <4>1. \A a \in DOMAIN d.heard : d.heard[a] \in Listeners /\ state[d.heard[a]] # "none"
        <5>1. c.heard \in Seq(Listeners) /\ d.heard = Append(c.heard, e) BY <2>5, <1>2, <1>3, CallIs DEF CalledNow
        <5>2. \A a \in DOMAIN d.heard : (a \in DOMAIN c.heard /\ d.heard[a] = c.heard[a]) \/ d.heard[a] = e
          BY <5>1, <1>3, HeardMore
        <5>3. \A a \in DOMAIN c.heard : c.heard[a] \in Listeners BY <5>1
        <5>. QED BY <5>2, <5>3, <1>3, <1>6 DEF CallHolds
      <4>2. \A a \in DOMAIN d.heard : st[d.heard[a]] # "none" BY <4>1, <2>7
      <4>. QED BY <4>2, <3>2, <2>5, <2>7, <1>2, <1>3 DEF CallHolds, CalledNow
    <3>4. \A i \in Others(F) : st[F[i].current] \in {"FIRING", "TERMINATED"} /\ action[F[i].current]
      BY <2>7, <1>5
    <3>5. ~RunsOutside(F, d.current) BY <2>5, <1>2, <1>5, <1>8 DEF CalledNow
    <3>6. \A x \in Listeners : st[x] = "FIRING" => (d.at = "running" /\ d.current = x) \/ RunsOutside(F, x)
      BY <2>5, <2>7, <1>2, <1>5 DEF CalledNow
    <3>7. d.at # "checked" BY <2>5 DEF CalledNow
    <3>8. \A x \in Listeners : state[x] # "none" => st[x] # "none" BY <2>7
    <3>9. CallsHold(queue, st, action, G)
      BY <3>1, <3>3, <3>4, <3>5, <3>6, <3>7, <3>8, <2>6, <1>0, <1>3, <1>4, CallsReplaced
    <3>. QED BY <3>9, <2>4
  <2>13. ASSUME "throw" \notin effects PROVE LeftErased(queue, ToRelease, fireCalls)'
    <3>1. LeftErased(queue, ToRelease, F) BY <2>13, <1>0, <1>4 DEF SignalInv
    <3>2. PICK M : M = {x \in Listeners : action[x] /\ st[x] \in {"FIRING", "TERMINATED"}} OBVIOUS
    <3>3. M = ToRelease' BY <3>2, <2>4 DEF ToRelease
    <3>4. \A x \in M : x \in ToRelease \/ x = e BY <3>2, <2>7 DEF ToRelease
    <3>5. \A q \in Queues : \A p \in DOMAIN queue[q] : queue[q][p] = e => q = c.queue /\ p = c.it
      <4>1. e # Null BY <1>3, SignalAssumption
      <4>. QED BY <4>1, <1>3 DEF SignalInv, QueuesHold
    <3>6. d.queue = c.queue /\ d.it = c.it /\ d.current = e /\ d.end = c.end /\ d.alive = c.alive
      BY <2>5, <1>2 DEF CalledNow
    <3>7. InPlace(queue, d) BY <3>6, <1>3 DEF InPlace
    <3>8. ASSUME NEW p \in DOMAIN queue[d.queue], queue[d.queue][p] \in M
          PROVE  d.alive <= p /\ p <= d.end /\ InPlace(queue, d)
      <4>1. CASE queue[d.queue][p] \in ToRelease
        <5>1. c.alive <= p /\ p <= c.end BY <4>1, <3>1, <3>6, <3>8, <1>0, <1>3, <1>4, LeftAtTop
        <5>. QED BY <5>1, <3>6, <3>7
      <4>2. CASE queue[d.queue][p] = e
        <5>1. p = c.it BY <4>2, <3>5, <3>6, <3>8, <1>3
        <5>. QED BY <5>1, <3>6, <3>7, <1>3
      <4>. QED BY <4>1, <4>2, <3>4, <3>8
    <3>9. \A q \in Queues : q # d.queue => \A p \in DOMAIN queue[q] : queue[q][p] \in M => queue[q][p] \in ToRelease
      BY <3>4, <3>5, <3>6
    <3>10. LeftErased(queue, M, G)
      BY <3>1, <3>6, <3>8, <3>9, <2>6, <1>0, <1>3, <1>4, LeftReplaced
    <3>. QED BY <3>3, <3>10, <2>4
  <2>14. ASSUME "fire" \notin effects PROVE SingleHolds(queue, Living, order, Advised, fireCalls)'
    <3>1. SingleHolds(queue, Living, order, Advised, F) BY <1>4, <2>14 DEF SignalInv
    <3>2. CallInOrder(queue, Living, order, c) BY <3>1, <1>0, <1>3, <1>4, OnlyCall
    <3>3. AllQueued(queue, Living, Advised) /\ \A q \in Queues : Sorted(queue[q], Living, order)
      BY <3>1 DEF SingleHolds
    <3>4. QueuesHold(queue, Advised) BY DEF SignalInv
    <3>5. CallInOrder(queue, Living, order, d) BY <3>2, <3>3, <3>4, <2>5, <1>3, CalledInOrder
    <3>6. SingleHolds(queue, Living, order, Advised, G)
      BY <3>1, <3>3, <3>5, <2>6, <1>0, <1>3, <1>4, SingleReplaced
    <3>. QED BY <3>6, <2>4, <2>10
  <2>15. ASSUME effects = {} PROVE UndisturbedHolds(queue, Living, fireCalls)' /\ missed' = {}
    <3>1. SingleHolds(queue, Living, order, Advised, F) /\ UndisturbedHolds(queue, Living, F) /\ missed = {}
      BY <1>4, <2>15 DEF SignalInv
    <3>2. Len(F) = 1 /\ DOMAIN F = {1} /\ F[1] = c BY <3>1, <1>0, <1>3, <1>4, OnlyCall
    <3>3. OnlyHoles(queue, d) /\ CallComplete(queue, Living, d)
      BY <3>1, <3>2, <2>5, <1>3, UndisturbedOnly, CompleteCalled
    <3>4. DOMAIN G = {1} /\ G[1] = d BY <3>2, <2>6 DEF Replaces
    <3>5. UndisturbedHolds(queue, Living, G) BY <3>3, <3>4, UndisturbedOnly
    <3>. QED BY <3>1, <3>5, <2>4, <2>10
  <2>. QED BY <2>4, <2>8, <2>10, <2>11, <2>12, <2>13, <2>14, <2>15, <1>0 DEF SignalInv
<1>. QED BY <1>7, <1>8

\* What holds of the listener that runs in the innermost call.
LEMMA TopRuns ==
  ASSUME SignalInv, fireCalls # <<>>, TopFire.at = "running"
  PROVE  /\ TopFire.current \in Listeners /\ state[TopFire.current] \in {"FIRING", "TERMINATED"}
         /\ action[TopFire.current] /\ ~RunsOutside(fireCalls, TopFire.current)
         /\ \A i \in Others(fireCalls) :
              /\ fireCalls[i].current \in Listeners
              /\ state[fireCalls[i].current] \in {"FIRING", "TERMINATED"} /\ action[fireCalls[i].current]
         /\ \A x \in Listeners : state[x] = "FIRING" => x = TopFire.current \/ RunsOutside(fireCalls, x)
         /\ InPlace(queue, TopFire) => Referenced(TopFire.current)
<1>1. PICK c : c = TopFire OBVIOUS
<1>2. /\ fireCalls \in Seq(FireCalls) /\ c = Last(fireCalls) /\ queue \in AllQueues /\ c.queue \in Queues
      /\ c.current \in Listeners /\ CallHolds(state, action, c) /\ c.at = "running"
  BY <1>1, TopHolds
<1>3. CallsHold(queue, state, action, fireCalls) BY DEF SignalInv
<1>4. InPlace(queue, c) => Referenced(c.current)
  <2>. SUFFICES ASSUME InPlace(queue, c) PROVE Referenced(c.current) OBVIOUS
  <2>1. c.it \in DOMAIN queue[c.queue] /\ queue[c.queue][c.it] = c.current BY <1>2 DEF InPlace
  <2>2. DOMAIN queue[c.queue] = 1 .. Len(queue[c.queue]) BY <1>2, PlacesAreNumbers
  <2>. QED BY <1>2, <2>1, <2>2 DEF Referenced, Contains
<1>. QED BY <1>1, <1>2, <1>3, <1>4, TopRunsOnce DEF CallHolds

\* The handler returns: a listener that has not ended stays, with the others.
LEMMA ReturnHandlerKeeps == ASSUME SignalInv, ReturnHandler PROVE SignalInv'
<1>0. fireCalls # <<>> /\ ~signalFault /\ advising = Null BY DEF ReturnHandler, Walking
<1>1. PICK c : c = TopFire OBVIOUS
<1>2. PICK e : e = c.current OBVIOUS
<1>3. /\ fireCalls \in Seq(FireCalls) /\ c = Last(fireCalls) /\ c \in FireCalls /\ c.at = "running"
      /\ queue \in AllQueues /\ Living \in SUBSET Listeners /\ c.queue \in Queues /\ e \in Listeners
      /\ CallHolds(state, action, c) /\ c.it <= c.end /\ c.alive <= c.it
      /\ c.it \in Nat /\ c.it >= 1 /\ c.alive \in Nat /\ c.end \in Nat /\ c.current \in Listeners
  <2>1. c.at = "running" BY <1>1 DEF ReturnHandler, Walking
  <2>. QED BY <2>1, <1>0, <1>1, <1>2, TopHolds, CallIs
<1>4. PICK F : F = fireCalls OBVIOUS
<1>5. /\ \A i \in Others(F) : /\ state[F[i].current] \in {"FIRING", "TERMINATED"} /\ action[F[i].current]
                              /\ F[i].current \in Listeners
      /\ ~RunsOutside(F, e) /\ state[e] \in {"FIRING", "TERMINATED"} /\ action[e]
      /\ \A x \in Listeners : state[x] = "FIRING" => x = e \/ RunsOutside(F, x)
      /\ InPlace(queue, c) => Referenced(e)
  BY <1>0, <1>1, <1>2, <1>3, <1>4, TopRuns
<1>6. PICK s : s = queue[c.queue] OBVIOUS
<1>7. s \in Seq(Slots) /\ Len(s) \in Nat /\ DOMAIN s = 1 .. Len(s) BY <1>3, <1>6, PlacesAreNumbers DEF AllQueues
<1>8. ASSUME "fire" \notin effects PROVE CallInOrder(queue, Living, order, c) /\ InPlace(queue, c)
  <2>1. SingleHolds(queue, Living, order, Advised, F) BY <1>4, <1>8 DEF SignalInv
  <2>. QED BY <2>1, <1>0, <1>3, <1>4, OnlyCall DEF CallInOrder
<1>9. CASE ~Referenced(e) \/ (Stays(e) /\ c.alive # c.it /\ c.it > Len(s))
  <2>1. signalFault' = TRUE /\ UNCHANGED <<queue, state, action, fireCalls, lifeVars, advising, signalHist>>
    BY <1>1, <1>2, <1>6, <1>9 DEF ReturnHandler, Undefined
  <2>2. ASSUME effects = {} PROVE FALSE
    <3>1. InPlace(queue, c) BY <2>2, <1>8
    <3>2. c.it \in DOMAIN s BY <3>1, <1>3, <1>6 DEF InPlace
    <3>. QED BY <3>1, <3>2, <1>3, <1>5, <1>7, <1>9
  <2>3. effects' = effects /\ effects \subseteq {"fire", "advise", "throw"}
    BY <2>1 DEF signalHist, SignalInv, SignalTypeOK
  <2>. QED BY <2>1, <2>2, <2>3, UndefinedKeeps DEF lifeVars, signalHist
<1>10. CASE ~(~Referenced(e) \/ (Stays(e) /\ c.alive # c.it /\ c.it > Len(s))) /\ ~Stays(e)
  <2>1. PICK d : d = Skip(c) OBVIOUS
  <2>2. SetTop(d) /\ UNCHANGED <<queue, state, action, lifeVars, advising, signalHist, signalFault>>
    BY <2>1, <1>1, <1>2, <1>6, <1>10 DEF ReturnHandler
  <2>3. Skipped(c, d) BY <2>1, <1>3, CallGoesOn
  <2>4. GoesOn(c, d) BY <2>3 DEF GoesOn, Skipped
  <2>5. CallHolds(state, action, d) BY <2>3, <1>3 DEF CallHolds, Skipped
  <2>6. d.at # "checked" BY <2>3 DEF Skipped
  <2>7. state[e] = "TERMINATED" BY <1>5, <1>10 DEF Stays
  <2>8. e \notin Living BY <2>7, <1>3 DEF SignalInv, EventsKept, Living
  <2>9. "fire" \notin effects /\ CallInOrder(queue, Living, order, c) => CallInOrder(queue, Living, order, d)
    <3>1. "fire" \notin effects => (c.it \in DOMAIN queue[c.queue] => queue[c.queue][c.it] \notin Living)
      BY <1>8, <2>8, <1>2, <1>3 DEF InPlace
    <3>. QED BY <3>1, <2>3, <1>3, SkippedInOrder
  <2>10. effects = {} /\ OnlyHoles(queue, c) /\ CallComplete(queue, Living, c) =>
           OnlyHoles(queue, d) /\ CallComplete(queue, Living, d)
    BY <2>3, <1>3, CompleteSkipped
  <2>11. ~(c.at = "running" /\ state[c.current] = "FIRING") BY <2>7, <1>2
  <2>. QED BY <2>2, <2>4, <2>5, <2>6, <2>9, <2>10, <2>11, <1>0, <1>1, <1>3, TopGoesOn
<1>11. CASE ~(~Referenced(e) \/ (Stays(e) /\ c.alive # c.it /\ c.it > Len(s))) /\ Stays(e)
  <2>1. PICK d : d = [Skip(c) EXCEPT !.alive = @ + 1] OBVIOUS
  <2>2. PICK st : st = [state EXCEPT ![e] = "ACTIVE"] OBVIOUS
  <2>3. PICK G : G = Append(Front(F), d) OBVIOUS
  <2>4. PICK R : R = [queue EXCEPT ![c.queue] = MovedTogether(c, @)] OBVIOUS
  <2>5. /\ fireCalls' = G /\ state' = st /\ queue' = R
        /\ UNCHANGED <<action, lifetimeEnding, lifetimeActions, released, advising, order, missed,
                       effects, signalFault>>
    BY <2>1, <2>2, <2>3, <2>4, <1>1, <1>2, <1>4, <1>6, <1>11 DEF ReturnHandler, SetTop, lifeVars, signalHist
  <2>6. MovedOn(c, d) BY <2>1, <1>3, CallGoesOn
  <2>7. d \in FireCalls /\ Replaces(F, G, d) BY <2>3, <2>6, <1>0, <1>3, <1>4, TopReplaced DEF MovedOn
  <2>8. /\ state \in [Listeners -> {"none", "ACTIVE", "FIRING", "TERMINATED"}]
        /\ st \in [Listeners -> {"none", "ACTIVE", "FIRING", "TERMINATED"}]
        /\ st[e] = "ACTIVE" /\ \A x \in Listeners : x # e => st[x] = state[x]
    BY <2>2, <1>3 DEF SignalInv, SignalTypeOK
  <2>9. state[e] = "FIRING" BY <1>11 DEF Stays
  <2>10. c.it \in DOMAIN s => Moves(queue, R, c) BY <2>4, <1>3, <1>6, MoveIs
  <2>11. R \in AllQueues /\ (c.it \notin DOMAIN s => c.alive = c.it /\ R = queue)
    <3>1. CASE c.it \in DOMAIN s BY <3>1, <2>10 DEF Moves
    <3>2. CASE c.it \notin DOMAIN s
      <4>1. c.it > Len(s) BY <3>2, <1>3, <1>7
      <4>2. c.alive = c.it BY <4>1, <1>11
      <4>3. MovedTogether(c, queue[c.queue]) = queue[c.queue] BY <4>2 DEF MovedTogether
      <4>4. R = queue BY <4>3, <2>4, <1>3 DEF AllQueues
      <4>. QED BY <4>2, <4>4, <1>3
    <3>. QED BY <3>1, <3>2
  <2>12. SignalTypeOK' BY <2>5, <2>7, <2>8, <2>11 DEF SignalInv, SignalTypeOK, Replaces, AllQueues
  <2>13. EventsKept' /\ LifetimesKept' /\ Advised' = Advised /\ Living' = Living
    <3>1. \A x \in Listeners :
            /\ st[x] = "none" <=> state[x] = "none"
            /\ st[x] \in {"ACTIVE", "FIRING"} => state[x] \in {"ACTIVE", "FIRING"} /\ action[x]
            /\ st[x] = "TERMINATED" => state[x] = "TERMINATED"
      BY <2>8, <2>9 DEF SignalInv, EventsKept
    <3>. QED BY <3>1, <2>5, EventsGoOn
  <2>14. QueuesHold(queue, Advised)'
    <3>1. QueuesHold(queue, Advised) BY DEF SignalInv
    <3>2. QueuesHold(R, Advised) BY <3>1, <2>10, <2>11, <1>3, MovedQueuesHold
    <3>. QED BY <3>2, <2>5, <2>13
  <2>15. CallsHold(queue, state, action, fireCalls)'
    <3>1. CallsHold(queue, state, action, F) BY <1>4 DEF SignalInv
    <3>2. CallHolds(st, action, d)
      <4>1. \A a \in DOMAIN c.heard : c.heard[a] \in Listeners /\ state[c.heard[a]] # "none"
        BY <1>3, CallIs DEF CallHolds
      <4>2. \A a \in DOMAIN c.heard : st[c.heard[a]] # "none" BY <4>1, <2>8
      <4>. QED BY <4>2, <2>6, <1>3 DEF CallHolds, MovedOn
    <3>3. \A i \in Others(F) : st[F[i].current] \in {"FIRING", "TERMINATED"} /\ action[F[i].current]
      BY <2>8, <1>5 DEF RunsOutside
    <3>4. \A x \in Listeners : st[x] = "FIRING" => RunsOutside(F, x) BY <2>8, <1>5
    <3>5. d.at = "next" BY <2>6 DEF MovedOn
    <3>6. \A x \in Listeners : state[x] # "none" => st[x] # "none" BY <2>8
    <3>7. CallsHold(R, st, action, G)
      BY <3>1, <3>2, <3>3, <3>4, <3>5, <3>6, <2>7, <1>0, <1>3, <1>4, CallsReplaced
    <3>. QED BY <3>7, <2>5
  <2>16. ASSUME "throw" \notin effects PROVE LeftErased(queue, ToRelease, fireCalls)'
    <3>1. LeftErased(queue, ToRelease, F) BY <2>16, <1>0, <1>4 DEF SignalInv
    <3>2. PICK M : M = {x \in Listeners : action[x] /\ st[x] \in {"FIRING", "TERMINATED"}} OBVIOUS
    <3>3. M = ToRelease' BY <3>2, <2>5 DEF ToRelease
    <3>4. \A x \in M : x \in ToRelease /\ x # e /\ x # Null
      BY <3>2, <2>8, SignalAssumption DEF ToRelease
    <3>5. d.queue = c.queue /\ d.end = c.end /\ d.alive = c.alive + 1 /\ InPlace(R, d)
      BY <2>6 DEF MovedOn, InPlace
    <3>6. ASSUME NEW p \in DOMAIN queue[c.queue], queue[c.queue][p] \in M
          PROVE  p \in Nat /\ c.alive <= p /\ p <= c.end /\ queue[c.queue][c.it] = e /\ c.it \in DOMAIN s
      <4>1. c.alive <= p /\ p <= c.end /\ InPlace(queue, c)
        BY <3>1, <3>4, <3>6, <1>0, <1>3, <1>4, LeftAtTop
      <4>2. p \in Nat BY <1>3, PlacesAreNumbers
      <4>. QED BY <4>1, <4>2, <1>2, <1>3, <1>6 DEF InPlace
    <3>7. ASSUME NEW p \in DOMAIN R[d.queue], R[d.queue][p] \in M
          PROVE  d.alive <= p /\ p <= d.end /\ InPlace(R, d)
      <4>1. CASE c.it \in DOMAIN s
        <5>1. Moves(queue, R, c) BY <4>1, <2>10
        <5>2. /\ Source(c, c.queue, p) \in DOMAIN queue[c.queue]
              /\ queue[c.queue][Source(c, c.queue, p)] = R[c.queue][p]
          BY <5>1, <3>4, <3>5, <3>7, <1>3, MovedFrom
        <5>3. CASE p = c.alive
          <6>1. Source(c, c.queue, p) = c.it BY <5>3 DEF Source
          <6>2. queue[c.queue][c.it] \in M /\ queue[c.queue][c.it] = e BY <6>1, <5>2, <3>5, <3>6, <3>7
          <6>. QED BY <6>2, <3>4
        <5>4. CASE p # c.alive
          <6>1. Source(c, c.queue, p) = p BY <5>4 DEF Source
          <6>2. p \in Nat /\ c.alive <= p /\ p <= c.end BY <6>1, <5>2, <3>5, <3>6, <3>7
          <6>. QED BY <6>2, <5>4, <3>5, <1>3
        <5>. QED BY <5>3, <5>4
      <4>2. CASE c.it \notin DOMAIN s BY <4>2, <2>11, <3>5, <3>6, <3>7
      <4>. QED BY <4>1, <4>2
    <3>8. \A q \in Queues : q # d.queue => R[q] = queue[q] /\ \A p \in DOMAIN queue[q] : queue[q][p] \in M => queue[q][p] \in ToRelease
      <4>1. \A q \in Queues : q # d.queue => R[q] = queue[q] BY <3>5, <2>10, <2>11 DEF Moves
      <4>. QED BY <4>1, <3>4
    <3>9. LeftErased(R, M, G)
      BY <3>1, <3>5, <3>7, <3>8, <2>7, <1>0, <1>3, <1>4, LeftReplaced
    <3>. QED BY <3>3, <3>9, <2>5
  <2>17. ASSUME "fire" \notin effects PROVE Moves(queue, R, c)
    BY <2>17, <2>10, <1>3, <1>6, <1>8 DEF InPlace
  <2>18. ASSUME "fire" \notin effects PROVE SingleHolds(queue, Living, order, Advised, fireCalls)'
    <3>1. SingleHolds(queue, Living, order, Advised, F) BY <1>4, <2>18 DEF SignalInv
    <3>2. CallInOrder(queue, Living, order, c) /\ ZoneDead(queue, Living, c) BY <2>18, <1>8 DEF CallInOrder
    <3>3. AllQueued(queue, Living, Advised) /\ \A q \in Queues : Sorted(queue[q], Living, order)
      BY <3>1 DEF SingleHolds
    <3>4. AllQueued(R, Living, Advised) /\ \A q \in Queues : Sorted(R[q], Living, order)
      BY <3>2, <3>3, <2>17, <2>18, <1>3, MovedAllQueued, MovedSorted
    <3>5. CallInOrder(R, Living, order, d) BY <3>2, <2>6, <2>17, <2>18, <1>3, MovedInOrder
    <3>6. SingleHolds(R, Living, order, Advised, G)
      BY <3>1, <3>4, <3>5, <2>7, <1>0, <1>3, <1>4, SingleReplaced
    <3>. QED BY <3>6, <2>5, <2>13
  <2>19. ASSUME effects = {} PROVE UndisturbedHolds(queue, Living, fireCalls)' /\ missed' = {}
    <3>1. SingleHolds(queue, Living, order, Advised, F) /\ UndisturbedHolds(queue, Living, F) /\ missed = {}
      BY <1>4, <2>19 DEF SignalInv
    <3>2. Len(F) = 1 /\ DOMAIN F = {1} /\ F[1] = c BY <3>1, <1>0, <1>3, <1>4, OnlyCall
    <3>3. OnlyHoles(queue, c) /\ CallComplete(queue, Living, c) BY <3>1, <3>2, UndisturbedOnly
    <3>4. OnlyHoles(R, d) /\ CallComplete(R, Living, d)
      BY <3>3, <2>6, <2>17, <2>19, <1>3, <1>8, CompleteMoved
    <3>5. DOMAIN G = {1} /\ G[1] = d BY <3>2, <2>7 DEF Replaces
    <3>6. UndisturbedHolds(R, Living, G) BY <3>4, <3>5, UndisturbedOnly
    <3>. QED BY <3>1, <3>6, <2>5, <2>13
  <2>. QED BY <2>5, <2>12, <2>13, <2>14, <2>15, <2>16, <2>18, <2>19, <1>0 DEF SignalInv
<1>. QED BY <1>9, <1>10, <1>11

\* The handler throws, or the subscription that it makes does.
LEMMA ThrowKeeps ==
  ASSUME SignalInv, fireCalls # <<>>, TopFire.at = "running", ~signalFault, HandlerThrows, advising' = Null,
         UNCHANGED <<lifetimeEnding, lifetimeActions, released, order, missed>>, effects' = effects \cup {"throw"}
  PROVE  SignalInv'
<1>1. PICK e : e = TopFire.current OBVIOUS
<1>2. PICK F : F = fireCalls OBVIOUS
<1>3. /\ F \in Seq(FireCalls) /\ F # <<>> /\ e \in Listeners
      /\ state[e] \in {"FIRING", "TERMINATED"} /\ action[e] /\ ~RunsOutside(F, e)
      /\ \A i \in Others(F) : /\ state[F[i].current] \in {"FIRING", "TERMINATED"} /\ action[F[i].current]
                              /\ F[i].current \in Listeners
      /\ \A x \in Listeners : state[x] = "FIRING" => x = e \/ RunsOutside(F, x)
  BY <1>1, <1>2, TopRuns DEF SignalInv, SignalTypeOK
<1>4. effects \subseteq effects' /\ effects' \subseteq {"fire", "advise", "throw"} /\ "throw" \in effects'
  BY DEF SignalInv, SignalTypeOK
<1>5. CASE ~Referenced(e)
  <2>1. signalFault' = TRUE /\ UNCHANGED <<queue, state, action, fireCalls>>
    BY <1>1, <1>5 DEF HandlerThrows, Undefined
  <2>. QED BY <2>1, <1>4, UndefinedKeeps
<1>6. CASE Referenced(e)
  <2>1. PICK st : st = [state EXCEPT ![e] = IF @ = "FIRING" THEN "ACTIVE" ELSE @] OBVIOUS
  <2>2. PICK ac : ac = [action EXCEPT ![e] = @ /\ state[e] = "FIRING"] OBVIOUS
  <2>3. PICK G : G = Front(F) OBVIOUS
  <2>4. state' = st /\ action' = ac /\ fireCalls' = G /\ UNCHANGED <<queue, signalFault>>
    BY <2>1, <2>2, <2>3, <1>1, <1>2, <1>6 DEF HandlerThrows, Pop
  <2>5. Pops(F, G) BY <2>3, <1>3, TopPopped
  <2>6. /\ state \in [Listeners -> {"none", "ACTIVE", "FIRING", "TERMINATED"}]
        /\ st \in [Listeners -> {"none", "ACTIVE", "FIRING", "TERMINATED"}]
        /\ state[e] = "FIRING" => st[e] = "ACTIVE"
        /\ state[e] = "TERMINATED" => st[e] = "TERMINATED"
        /\ \A x \in Listeners : x # e => st[x] = state[x]
    BY <2>1, <1>3 DEF SignalInv, SignalTypeOK
  <2>7. action \in [Listeners -> BOOLEAN] BY DEF SignalInv, SignalTypeOK
  <2>8. ac \in [Listeners -> BOOLEAN]
    <3>1. (action[e] /\ state[e] = "FIRING") \in BOOLEAN BY Zenon
    <3>. QED BY <3>1, <2>2, <2>7
  <2>9. \A x \in Listeners : x # e => ac[x] = action[x] BY <2>2, <2>7
  <2>10. ac[e] <=> state[e] = "FIRING"
    <3>1. ac[e] = (action[e] /\ state[e] = "FIRING") BY <2>2, <2>7, <1>3, Zenon
    <3>. QED BY <3>1, <1>3, Zenon
  <2>11. SignalTypeOK' BY <2>4, <2>5, <2>6, <2>8, <1>4 DEF SignalInv, SignalTypeOK, Pops
  <2>12. EventsKept' /\ LifetimesKept' /\ Advised' = Advised /\ Living' = Living
    <3>1. ASSUME NEW x \in Listeners
          PROVE  /\ st[x] = "none" <=> state[x] = "none"
                 /\ st[x] \in {"ACTIVE", "FIRING"} => state[x] \in {"ACTIVE", "FIRING"} /\ ac[x]
                 /\ st[x] = "TERMINATED" => state[x] = "TERMINATED"
                 /\ ac[x] => action[x]
      <4>1. CASE x = e BY <4>1, <2>6, <2>10, <1>3
      <4>2. CASE x # e
        <5>1. st[x] = state[x] /\ ac[x] = action[x] BY <4>2, <2>6, <2>9
        <5>2. state[x] \in {"ACTIVE", "FIRING"} => action[x] BY DEF SignalInv, EventsKept
        <5>. QED BY <5>1, <5>2
      <4>. QED BY <4>1, <4>2
    <3>. QED BY <3>1, <2>4, EventsGoOn
  <2>13. QueuesHold(queue, Advised)' BY <2>4, <2>12 DEF SignalInv
  <2>14. CallsHold(queue, state, action, fireCalls)'
    <3>1. CallsHold(queue, state, action, F) BY <1>2 DEF SignalInv
    <3>2. \A i \in Others(F) : st[F[i].current] \in {"FIRING", "TERMINATED"} /\ ac[F[i].current]
      <4>1. \A i \in Others(F) : F[i].current # e BY <1>3 DEF RunsOutside
      <4>2. \A i \in Others(F) : st[F[i].current] = state[F[i].current] /\ ac[F[i].current] = action[F[i].current]
        BY <4>1, <2>6, <2>9, <1>3
      <4>. QED BY <4>2, <1>3
    <3>3. \A x \in Listeners : st[x] = "FIRING" => RunsOutside(F, x) BY <2>6, <1>3
    <3>4. \A x \in Listeners : state[x] # "none" => st[x] # "none" BY <2>6, <1>3
    <3>5. CallsHold(queue, st, ac, G) BY <3>1, <3>2, <3>3, <3>4, <2>5, <1>3, CallsPopped
    <3>. QED BY <3>5, <2>4
  <2>15. ASSUME "fire" \notin effects' PROVE SingleHolds(queue, Living, order, Advised, fireCalls)'
    <3>1. SingleHolds(queue, Living, order, Advised, F) BY <1>2, <1>4, <2>15 DEF SignalInv
    <3>2. SingleHolds(queue, Living, order, Advised, G)
      <4>1. AllQueued(queue, Living, Advised) /\ \A q \in Queues : Sorted(queue[q], Living, order)
        BY <3>1 DEF SingleHolds
      <4>. QED BY <3>1, <4>1, <2>5, <1>3, SinglePopped
    <3>. QED BY <3>2, <2>4, <2>12
  <2>16. signalFault' = FALSE BY <2>4 DEF SignalInv, SignalTypeOK
  <2>. QED BY <2>11, <2>12, <2>13, <2>14, <2>15, <2>16, <1>4 DEF SignalInv
<1>. QED BY <1>5, <1>6

\* The handler throws itself.
LEMMA ThrowHandlerKeeps == ASSUME SignalInv, ThrowHandler PROVE SignalInv'
<1>1. fireCalls # <<>> /\ TopFire.at = "running" /\ ~signalFault /\ advising = Null /\ HandlerThrows
  BY DEF ThrowHandler, Walking
<1>2. effects' = effects \cup {"throw"} BY <1>1 DEF ThrowHandler, Effect
<1>. QED BY <1>1, <1>2, ThrowKeeps DEF ThrowHandler, lifeVars

\* The lifetime ended before the subscription: add_action throws, in a handler or outside.
LEMMA AdviseThrowsKeeps == ASSUME SignalInv, AdviseThrows PROVE SignalInv'
<1>1. CASE fireCalls # <<>>
  <2>1. TopFire.at = "running" /\ ~signalFault /\ HandlerThrows /\ advising' = Null
    BY <1>1 DEF AdviseThrows, SignalInv
  <2>2. effects' = effects \cup {"throw"} BY <1>1 DEF AdviseThrows, Effect
  <2>. QED BY <1>1, <2>1, <2>2, ThrowKeeps DEF AdviseThrows, lifeVars
<1>2. CASE fireCalls = <<>>
  <2>1. /\ advising' = Null
        /\ UNCHANGED <<queue, state, action, fireCalls, lifetimeEnding, lifetimeActions, released, order, missed,
                       effects, signalFault>>
    BY <1>2 DEF AdviseThrows, Effect, lifeVars
  <2>2. SignalTypeOK' BY <2>1 DEF SignalInv, SignalTypeOK
  <2>3. EventsKept' /\ LifetimesKept' BY <2>1 DEF SignalInv, EventsKept, LifetimesKept, Alive
  <2>4. Advised' = Advised /\ Living' = Living /\ ToRelease' = ToRelease
    BY <2>1 DEF Advised, Living, Alive, ToRelease
  <2>. QED BY <2>1, <2>2, <2>3, <2>4 DEF SignalInv
<1>. QED BY <1>1, <1>2

\* A walk of one queue ends with the erasure.
LEMMA EndWalkKeeps == ASSUME SignalInv, EndWalk PROVE SignalInv'
<1>0. fireCalls # <<>> /\ ~signalFault /\ advising = Null BY DEF EndWalk, Walking
<1>1. PICK c : c = TopFire OBVIOUS
<1>2. PICK F : F = fireCalls OBVIOUS
<1>3. PICK s : s = queue[c.queue] OBVIOUS
<1>4. /\ F \in Seq(FireCalls) /\ F # <<>> /\ c = Last(F) /\ c \in FireCalls /\ c.at = "next"
      /\ queue \in AllQueues /\ Living \in SUBSET Listeners /\ c.queue \in Queues
      /\ CallHolds(state, action, c) /\ c.it > c.end /\ c.it <= c.end + 1
      /\ c.it \in Nat /\ c.alive \in Nat /\ c.end \in Nat /\ c.heard \in Seq(Listeners) /\ c.due \subseteq Listeners
      /\ Len(s) \in Nat
  <2>1. c.at = "next" /\ c.it > c.end BY <1>1 DEF EndWalk, Walking
  <2>2. c \in FireCalls /\ queue \in AllQueues BY <1>0, <1>1, TopHolds
  <2>. QED BY <2>1, <2>2, <1>0, <1>1, <1>2, <1>3, TopHolds, CallIs, PlacesAreNumbers
<1>5. /\ \A i \in Others(F) : state[F[i].current] \in {"FIRING", "TERMINATED"} /\ action[F[i].current]
      /\ \A x \in Listeners : state[x] = "FIRING" => RunsOutside(F, x)
  <2>1. CallsHold(queue, state, action, F) BY <1>2 DEF SignalInv
  <2>. QED BY <2>1, <1>4, TopRunsOnce
<1>6. ASSUME "fire" \notin effects
      PROVE  /\ SingleHolds(queue, Living, order, Advised, F) /\ CallInOrder(queue, Living, order, c)
             /\ Len(F) = 1 /\ DOMAIN F = {1} /\ F[1] = c
  BY <1>2, <1>4, <1>6, OnlyCall DEF SignalInv
<1>7. ASSUME effects = {}
      PROVE  OnlyHoles(queue, c) /\ CallComplete(queue, Living, c)
  BY <1>2, <1>6, <1>7, UndisturbedOnly DEF SignalInv
<1>8. CASE c.alive <= c.end /\ c.end > Len(s)
  <2>1. signalFault' = TRUE /\ UNCHANGED <<queue, state, action, fireCalls, lifeVars, advising, signalHist>>
    BY <1>1, <1>3, <1>8 DEF EndWalk, Undefined, signalHist
  <2>2. effects # {} BY <1>3, <1>4, <1>7, <1>8 DEF CallComplete
  <2>3. effects' = effects /\ effects \subseteq {"fire", "advise", "throw"}
    BY <2>1 DEF signalHist, SignalInv, SignalTypeOK
  <2>. QED BY <2>1, <2>2, <2>3, UndefinedKeeps DEF lifeVars, signalHist
<1>9. CASE ~(c.alive <= c.end /\ c.end > Len(s))
  <2>1. PICK R : R = IF c.alive > c.end THEN queue
                     ELSE [queue EXCEPT ![c.queue] = Erased(queue[c.queue], c.alive, c.end)]
    OBVIOUS
  <2>2. /\ queue' = R
        /\ IF c.queue = "priority" THEN SetTop(Walk("normal", c.heard, c.due)) /\ UNCHANGED missed
           ELSE Pop /\ missed' = missed \cup Uncalled(c)
        /\ UNCHANGED <<state, action, lifetimeEnding, lifetimeActions, released, advising, order, effects, signalFault>>
    BY <2>1, <1>1, <1>3, <1>9 DEF EndWalk, Erased, lifeVars
  <2>3. Erases(queue, R, c)
    <3>1. c.alive <= c.end => c.end <= Len(queue[c.queue]) BY <1>3, <1>4, <1>9
    <3>. QED BY <3>1, <2>1, <1>4, EraseIs
  <2>4. R \in AllQueues /\ \A q \in Queues : q # c.queue => R[q] = queue[q] BY <2>3 DEF Erases
  <2>5. EventsKept' /\ LifetimesKept' BY <2>2 DEF SignalInv, EventsKept, LifetimesKept, Alive
  <2>6. Advised' = Advised /\ Living' = Living /\ ToRelease' = ToRelease
    BY <2>2 DEF Advised, Living, Alive, ToRelease
  <2>7. QueuesHold(queue, Advised)'
    <3>1. QueuesHold(queue, Advised) BY DEF SignalInv
    <3>2. QueuesHold(R, Advised) BY <3>1, <2>3, <1>4, ErasedQueuesHold
    <3>. QED BY <3>2, <2>2, <2>6
  <2>8. CallsHold(queue, state, action, F) BY <1>2 DEF SignalInv
  <2>9. ASSUME "throw" \notin effects
        PROVE  /\ LeftErased(queue, ToRelease, F)
               /\ \A p \in DOMAIN R[c.queue] : R[c.queue][p] \notin ToRelease
    <3>1. LeftErased(queue, ToRelease, F) BY <2>9, <1>0, <1>2 DEF SignalInv
    <3>2. ASSUME NEW p \in DOMAIN R[c.queue], R[c.queue][p] \in ToRelease PROVE FALSE
      <4>1. /\ Back(c, p) \in DOMAIN queue[c.queue] /\ R[c.queue][p] = queue[c.queue][Back(c, p)]
            /\ ~(c.alive <= Back(c, p) /\ Back(c, p) <= c.end)
        BY <2>3, <3>2 DEF Erases
      <4>2. c.alive <= Back(c, p) /\ Back(c, p) <= c.end BY <4>1, <3>1, <3>2, <1>4, LeftAtTop
      <4>. QED BY <4>1, <4>2
    <3>. QED BY <3>1, <3>2
  <2>10. ASSUME "fire" \notin effects
         PROVE  AllQueued(R, Living, Advised) /\ \A q \in Queues : Sorted(R[q], Living, order)
    <3>1. AllQueued(queue, Living, Advised) /\ \A q \in Queues : Sorted(queue[q], Living, order)
      BY <2>10, <1>6 DEF SingleHolds
    <3>2. ZoneDead(queue, Living, c) BY <2>10, <1>6 DEF CallInOrder
    <3>. QED BY <3>1, <3>2, <2>3, <1>4, ErasedAllQueued, ErasedSorted
  <2>11. ASSUME effects = {}
         PROVE  /\ NoHole(R)
                /\ \A e \in c.due \cap Living : e \in Range(c.heard) \/ (c.queue = "priority" /\ InQueue(R, "normal", e))
                /\ c.queue = "priority" => \A d : Begins(R, d, "normal", c.heard) /\ d.due = c.due =>
                     OnlyHoles(R, d) /\ CallComplete(R, Living, d)
    BY <2>11, <2>3, <1>4, <1>7, CompleteEnded
  <2>12. CASE c.queue = "priority"
    <3>1. PICK d : d = Walk("normal", c.heard, c.due) OBVIOUS
    <3>2. PICK G : G = Append(Front(F), d) OBVIOUS
    <3>3. fireCalls' = G /\ missed' = missed BY <3>1, <3>2, <2>2, <2>12, <1>2 DEF SetTop
    <3>4. R["normal"] = queue["normal"] /\ Len(R["normal"]) \in Nat BY <2>4, <2>12, PlacesAreNumbers DEF Queues
    <3>5. Begins(R, d, "normal", c.heard) /\ d.due = c.due /\ d \in FireCalls
      <4>1. d.queue = "normal" /\ d.it = 1 /\ d.alive = 1 /\ d.end = Len(R["normal"]) /\ d.at = "next"
            /\ d.current = Null /\ d.heard = c.heard /\ d.due = c.due
        BY <3>1, <3>4 DEF Walk
      <4>2. d \in FireCalls BY <3>1, <3>4, <1>4 DEF Walk, FireCalls, Queues, Slots
      <4>. QED BY <4>1, <4>2 DEF Begins
    <3>6. Replaces(F, G, d) BY <3>2, <3>5, <1>4, TopReplaced
    <3>7. SignalTypeOK' BY <3>3, <3>6, <2>2, <2>4 DEF SignalInv, SignalTypeOK, Replaces, AllQueues
    <3>8. CallsHold(queue, state, action, fireCalls)'
      <4>1. CallHolds(state, action, d) BY <3>4, <3>5, <1>4 DEF CallHolds, Begins
      <4>2. d.at = "next" BY <3>5 DEF Begins
      <4>3. CallsHold(R, state, action, G)
        BY <4>1, <4>2, <3>5, <3>6, <2>8, <1>4, <1>5, CallsReplaced
      <4>. QED BY <4>3, <3>3, <2>2
    <3>9. ASSUME "throw" \notin effects PROVE LeftErased(queue, ToRelease, fireCalls)'
      <4>1. Begins(R, d, "normal", d.heard) BY <3>5 DEF Begins
      <4>2. \A p \in DOMAIN R["priority"] : R["priority"][p] \notin ToRelease BY <3>9, <2>9, <2>12
      <4>3. LeftErased(queue, ToRelease, F) BY <3>9, <2>9
      <4>4. LeftErased(R, ToRelease, G)
        BY <4>1, <4>2, <4>3, <3>4, <3>6, <2>4, <2>12, <1>4, LeftNormal
      <4>. QED BY <4>4, <3>3, <2>2, <2>6
    <3>10. ASSUME "fire" \notin effects PROVE SingleHolds(queue, Living, order, Advised, fireCalls)'
      <4>1. CallInOrder(R, Living, order, d) BY <3>5, <3>10, <2>3, <2>12, <1>4, <1>6, NormalInOrder
      <4>2. SingleHolds(R, Living, order, Advised, G)
        BY <4>1, <3>6, <3>10, <2>10, <1>4, <1>6, SingleReplaced
      <4>. QED BY <4>2, <3>3, <2>2, <2>6
    <3>11. ASSUME effects = {} PROVE UndisturbedHolds(queue, Living, fireCalls)' /\ missed' = {}
      <4>1. OnlyHoles(R, d) /\ CallComplete(R, Living, d) BY <3>5, <3>11, <2>11, <2>12
      <4>2. DOMAIN G = {1} /\ G[1] = d BY <3>6, <3>11, <1>6 DEF Replaces
      <4>3. UndisturbedHolds(R, Living, G) BY <4>1, <4>2, UndisturbedOnly
      <4>4. missed = {} BY <3>11 DEF SignalInv
      <4>. QED BY <4>3, <4>4, <3>3, <2>2, <2>6
    <3>. QED BY <3>7, <3>8, <3>9, <3>10, <3>11, <2>2, <2>5, <2>7, <1>0 DEF SignalInv
  <2>13. CASE c.queue # "priority"
    <3>1. PICK G : G = Front(F) OBVIOUS
    <3>2. fireCalls' = G /\ missed' = missed \cup Uncalled(c) BY <3>1, <2>2, <2>13, <1>2 DEF Pop
    <3>3. Pops(F, G) BY <3>1, <1>4, TopPopped
    <3>4. SignalTypeOK'
      <4>1. Uncalled(c) \subseteq Listeners BY <1>4 DEF Uncalled
      <4>. QED BY <4>1, <3>2, <3>3, <2>2, <2>4 DEF SignalInv, SignalTypeOK, Pops, AllQueues
    <3>5. CallsHold(queue, state, action, fireCalls)'
      <4>1. CallsHold(R, state, action, G) BY <3>3, <2>8, <1>4, <1>5, CallsPopped
      <4>. QED BY <4>1, <3>2, <2>2
    <3>6. ASSUME "throw" \notin effects PROVE LeftErased(queue, ToRelease, fireCalls)'
      <4>1. LeftErased(R, ToRelease, G) BY <3>3, <3>6, <2>4, <2>9, <1>4, LeftPopped
      <4>. QED BY <4>1, <3>2, <2>2, <2>6
    <3>7. ASSUME "fire" \notin effects PROVE SingleHolds(queue, Living, order, Advised, fireCalls)'
      <4>1. SingleHolds(R, Living, order, Advised, G) BY <3>3, <3>7, <2>10, <1>4, <1>6, SinglePopped
      <4>. QED BY <4>1, <3>2, <2>2, <2>6
    <3>8. ASSUME effects = {} PROVE UndisturbedHolds(queue, Living, fireCalls)' /\ missed' = {}
      <4>1. NoHole(R) /\ \A e \in c.due \cap Living : e \in Range(c.heard) BY <3>8, <2>11, <2>13
      <4>2. DOMAIN G = {} BY <3>3, <3>8, <1>6 DEF Pops
      <4>3. UndisturbedHolds(R, Living, G) BY <4>1, <4>2, UndisturbedNone
      <4>4. Uncalled(c) = {}
        <5>. SUFFICES ASSUME NEW e \in c.due, Alive(e), ~Contains(c.heard, e) PROVE FALSE BY DEF Uncalled
        <5>1. e \in Range(c.heard) BY <4>1, <1>4 DEF Living
        <5>2. DOMAIN c.heard = 1 .. Len(c.heard) BY <1>4
        <5>. QED BY <5>1, <5>2 DEF Range, Contains
      <4>5. missed = {} BY <3>8 DEF SignalInv
      <4>. QED BY <4>3, <4>4, <4>5, <3>2, <2>2, <2>6
    <3>. QED BY <3>4, <3>5, <3>6, <3>7, <3>8, <2>2, <2>5, <2>7, <1>0 DEF SignalInv
  <2>. QED BY <2>12, <2>13
<1>. QED BY <1>8, <1>9

\* A call of fire begins, from outside or in a handler.
LEMMA FireKeeps == ASSUME SignalInv, Fire PROVE SignalInv'
<1>1. PICK F : F = fireCalls OBVIOUS
<1>2. PICK d : d = Walk("priority", <<>>, SubscribedTo) OBVIOUS
<1>3. PICK G : G = Append(F, d) OBVIOUS
<1>4. /\ ~signalFault /\ advising = Null /\ (F # <<>> => Last(F).at = "running") /\ fireCalls' = G
      /\ UNCHANGED <<queue, state, action, lifetimeEnding, lifetimeActions, released, advising, order, missed,
                     signalFault>>
  BY <1>1, <1>2, <1>3 DEF Fire, MayDo, TopFire, lifeVars
<1>5. /\ effects \subseteq effects' /\ effects' \subseteq {"fire", "advise", "throw"}
      /\ effects' = {} => effects = {}
      /\ "fire" \notin effects' => F = <<>>
  BY <1>1 DEF Fire, Effect, SignalInv, SignalTypeOK
<1>6. queue \in AllQueues /\ F \in Seq(FireCalls) BY <1>1 DEF SignalInv, SignalTypeOK, AllQueues
<1>7. SubscribedTo \subseteq Advised
  <2>. SUFFICES ASSUME NEW e \in Listeners, Contains(order, e) PROVE state[e] # "none"
    BY DEF SubscribedTo, Advised
  <2>1. order \in Seq(Listeners) BY DEF SignalInv, SignalTypeOK
  <2>2. e \in Range(order)
    <3>1. DOMAIN order = 1 .. Len(order) BY <2>1
    <3>. QED BY <3>1 DEF Contains, Range
  <2>. QED BY <2>2 DEF SignalInv, EventsKept
<1>8. Begins(queue, d, "priority", <<>>) /\ d.due = SubscribedTo /\ d \in FireCalls /\ d.at = "next"
  <2>1. d.queue = "priority" /\ d.it = 1 /\ d.alive = 1 /\ d.end = Len(queue["priority"]) /\ d.at = "next"
        /\ d.current = Null /\ d.heard = <<>> /\ d.due = SubscribedTo
    BY <1>2 DEF Walk
  <2>2. Len(queue["priority"]) \in Nat /\ "priority" \in Queues BY <1>6, PlacesAreNumbers DEF Queues
  <2>3. SubscribedTo \in SUBSET Listeners /\ <<>> \in Seq(Listeners) /\ 1 \in Nat \ {0} BY DEF SubscribedTo
  <2>4. d \in FireCalls BY <2>2, <2>3, <1>2 DEF Walk, FireCalls, Slots
  <2>. QED BY <2>1, <2>4 DEF Begins
<1>9. Pushes(F, G, d) BY <1>3, <1>6, <1>8, TopPushed
<1>10. SignalTypeOK' BY <1>4, <1>5, <1>9 DEF SignalInv, SignalTypeOK, Pushes
<1>11. EventsKept' /\ LifetimesKept' BY <1>4 DEF SignalInv, EventsKept, LifetimesKept, Alive
<1>12. Advised' = Advised /\ Living' = Living /\ ToRelease' = ToRelease
  BY <1>4 DEF Advised, Living, Alive, ToRelease
<1>13. QueuesHold(queue, Advised)' BY <1>4, <1>12 DEF SignalInv
<1>14. CallsHold(queue, state, action, fireCalls)'
  <2>1. CallsHold(queue, state, action, F) BY <1>1 DEF SignalInv
  <2>2. CallHolds(state, action, d)
    <3>1. Len(queue["priority"]) \in Nat BY <1>6, PlacesAreNumbers DEF Queues
    <3>. QED BY <3>1, <1>8 DEF CallHolds, Begins
  <2>3. CallsHold(queue, state, action, G) BY <2>1, <2>2, <1>4, <1>6, <1>8, <1>9, CallsPushed
  <2>. QED BY <2>3, <1>4
<1>15. ASSUME "throw" \notin effects' PROVE LeftErased(queue, ToRelease, fireCalls)'
  <2>1. LeftErased(queue, ToRelease, F) BY <1>1, <1>4, <1>5, <1>15 DEF SignalInv
  <2>2. LeftErased(queue, ToRelease, G) BY <2>1, <1>6, <1>8, <1>9, LeftPushed
  <2>. QED BY <2>2, <1>4, <1>12
<1>16. ASSUME "fire" \notin effects'
       PROVE  /\ F = <<>> /\ DOMAIN G = {1} /\ G[1] = d
              /\ AllQueued(queue, Living, Advised) /\ \A q \in Queues : Sorted(queue[q], Living, order)
  <2>1. F = <<>> BY <1>5, <1>16
  <2>2. SingleHolds(queue, Living, order, Advised, F) BY <1>1, <1>5, <1>16 DEF SignalInv
  <2>3. Len(G) = 1 /\ G \in Seq(FireCalls) /\ G[1] = d BY <2>1, <1>9 DEF Pushes
  <2>4. DOMAIN G = 1 .. 1 BY <2>3
  <2>. QED BY <2>1, <2>2, <2>3, <2>4 DEF SingleHolds
<1>17. ASSUME "fire" \notin effects' PROVE SingleHolds(queue, Living, order, Advised, fireCalls)'
  <2>1. CallInOrder(queue, Living, order, d) BY <1>6, <1>8, BegunInOrder
  <2>2. SingleHolds(queue, Living, order, Advised, G) BY <2>1, <1>16, <1>17 DEF SingleHolds
  <2>. QED BY <2>2, <1>4, <1>12
<1>18. ASSUME effects' = {} PROVE UndisturbedHolds(queue, Living, fireCalls)' /\ missed' = {}
  <2>1. /\ F = <<>> /\ DOMAIN G = {1} /\ G[1] = d /\ AllQueued(queue, Living, Advised)
    BY <1>16, <1>18
  <2>2. UndisturbedHolds(queue, Living, F) /\ missed = {} BY <1>1, <1>5, <1>18 DEF SignalInv
  <2>3. NoHole(queue)
    <3>1. DOMAIN F = {} BY <2>1
    <3>. QED BY <3>1, <2>2, UndisturbedNone
  <2>4. OnlyHoles(queue, d) /\ CallComplete(queue, Living, d)
    BY <2>1, <2>3, <1>6, <1>7, <1>8, CompleteBegun
  <2>5. UndisturbedHolds(queue, Living, G) BY <2>1, <2>4, UndisturbedOnly
  <2>. QED BY <2>2, <2>5, <1>4, <1>12
<1>. QED BY <1>4, <1>10, <1>11, <1>13, <1>14, <1>15, <1>17, <1>18 DEF SignalInv

\* advise0 asks the lifetime.
LEMMA AdviseKeeps ==
  ASSUME SignalInv, NEW e \in Listeners, NEW q \in Queues, Advise(e, q)
  PROVE  SignalInv'
<1>1. /\ ~signalFault /\ (fireCalls # <<>> => TopFire.at = "running") /\ state[e] = "none"
      /\ advising' = [listener |-> e, queue |-> q]
      /\ UNCHANGED <<queue, state, action, fireCalls, lifetimeEnding, lifetimeActions, released, order, missed,
                     signalFault>>
  BY DEF Advise, MayDo, lifeVars
<1>2. /\ effects \subseteq effects' /\ effects' \subseteq {"fire", "advise", "throw"}
      /\ fireCalls # <<>> => "advise" \in effects'
  BY DEF Advise, Effect, SignalInv, SignalTypeOK
<1>3. SignalTypeOK' BY <1>1, <1>2 DEF SignalInv, SignalTypeOK
<1>4. EventsKept' /\ LifetimesKept'
  <2>1. advising'.listener = e BY <1>1
  <2>. QED BY <2>1, <1>1 DEF SignalInv, EventsKept, LifetimesKept, Alive
<1>5. Advised' = Advised /\ Living' = Living /\ ToRelease' = ToRelease /\ TopFire' = TopFire
  BY <1>1 DEF Advised, Living, Alive, ToRelease, TopFire
<1>. QED BY <1>1, <1>2, <1>3, <1>4, <1>5 DEF SignalInv

\* The listener joins its lifetime and its queue.
LEMMA AdviseAddKeeps == ASSUME SignalInv, AdviseAdd PROVE SignalInv'
<1>1. PICK e : e = advising.listener OBVIOUS
<1>2. PICK q : q = advising.queue OBVIOUS
<1>3. PICK l : l = LifetimeOf[e] OBVIOUS
<1>4. PICK F : F = fireCalls OBVIOUS
<1>5. /\ advising # Null /\ ~signalFault /\ e \in Listeners /\ q \in Queues /\ l \in ListenerLifetimes
      /\ Alive(e) /\ lifetimeEnding[l] = "alive" /\ state[e] = "none" /\ e # Null
  <2>1. advising # Null /\ ~signalFault BY DEF AdviseAdd
  <2>2. Alive(e) BY <1>1 DEF AdviseAdd
  <2>3. e \in Listeners /\ q \in Queues BY <2>1, <1>1, <1>2 DEF SignalInv, SignalTypeOK
  <2>4. state[e] = "none" BY <2>1, <1>1 DEF SignalInv, EventsKept
  <2>. QED BY <2>1, <2>2, <2>3, <2>4, <1>3, SignalAssumption DEF Alive
<1>6. PICK st : st = [state EXCEPT ![e] = "ACTIVE"] OBVIOUS
<1>7. PICK ac : ac = [action EXCEPT ![e] = TRUE] OBVIOUS
<1>8. PICK la : la = IF l = Eternal THEN lifetimeActions ELSE [lifetimeActions EXCEPT ![l] = Append(@, e)] OBVIOUS
<1>9. PICK R : R = [queue EXCEPT ![q] = Push(@, e)] OBVIOUS
<1>10. PICK O : O = Append(order, e) OBVIOUS
<1>11. /\ state' = st /\ action' = ac /\ lifetimeActions' = la /\ queue' = R /\ order' = O /\ advising' = Null
       /\ UNCHANGED <<lifetimeEnding, released, fireCalls, missed, effects>>
       /\ signalFault' \in {FALSE} \cup {\E i \in DOMAIN F : F[i].queue = q}
  BY <1>1, <1>2, <1>3, <1>4, <1>6, <1>7, <1>8, <1>9, <1>10 DEF AdviseAdd
<1>12. signalFault' \in BOOLEAN /\ (F = <<>> => ~signalFault')
  <2>1. (\E i \in DOMAIN F : F[i].queue = q) \in BOOLEAN BY Zenon
  <2>2. signalFault' \in BOOLEAN
    <3>1. CASE signalFault' = FALSE BY <3>1, Zenon
    <3>2. CASE signalFault' = (\E i \in DOMAIN F : F[i].queue = q) BY <3>2, <2>1, Zenon
    <3>. QED BY <3>1, <3>2, <1>11, Zenon
  <2>3. F = <<>> => ~(\E i \in DOMAIN F : F[i].queue = q)
    <3>1. DOMAIN <<>> = {} OBVIOUS
    <3>. QED BY <3>1
  <2>4. F = <<>> => ~signalFault'
    <3>1. CASE signalFault' = FALSE BY <3>1, Zenon
    <3>2. CASE signalFault' = (\E i \in DOMAIN F : F[i].queue = q) BY <3>2, <2>3, Zenon
    <3>. QED BY <3>1, <3>2, <1>11, Zenon
  <2>. QED BY <2>2, <2>4
<1>13. /\ queue \in AllQueues /\ F \in Seq(FireCalls) /\ order \in Seq(Listeners)
       /\ state \in [Listeners -> {"none", "ACTIVE", "FIRING", "TERMINATED"}]
       /\ action \in [Listeners -> BOOLEAN] /\ lifetimeActions \in [ListenerLifetimes -> Seq(Listeners)]
  BY <1>4 DEF SignalInv, SignalTypeOK, AllQueues
<1>14. Adds(queue, R, q, e) /\ R \in AllQueues
  <2>1. Adds(queue, R, q, e) BY <1>5, <1>9, <1>13, AddIs
  <2>. QED BY <2>1 DEF Adds
<1>15. /\ st \in [Listeners -> {"none", "ACTIVE", "FIRING", "TERMINATED"}]
       /\ st[e] = "ACTIVE" /\ \A x \in Listeners : x # e => st[x] = state[x]
  BY <1>5, <1>6, <1>13
<1>16. ac \in [Listeners -> BOOLEAN] /\ ac[e] /\ \A x \in Listeners : x # e => ac[x] = action[x]
  <2>1. TRUE \in BOOLEAN BY Zenon
  <2>2. ac \in [Listeners -> BOOLEAN] BY <2>1, <1>7, <1>13, Zenon
  <2>3. ac[e] BY <1>5, <1>7, <1>13, Zenon
  <2>4. \A x \in Listeners : x # e => ac[x] = action[x] BY <1>7, <1>13
  <2>. QED BY <2>2, <2>3, <2>4
<1>17. /\ la \in [ListenerLifetimes -> Seq(Listeners)]
       /\ \A k \in ListenerLifetimes : k # l => la[k] = lifetimeActions[k]
       /\ l = Eternal => la[l] = lifetimeActions[l]
       /\ l # Eternal => Range(la[l]) = Range(lifetimeActions[l]) \cup {e}
  <2>1. PICK s : s = lifetimeActions[l] OBVIOUS
  <2>2. s \in Seq(Listeners) BY <2>1, <1>5, <1>13
  <2>3. Append(s, e) \in Seq(Listeners) /\ Range(Append(s, e)) = Range(s) \cup {e} BY <2>2, <1>5, OrderAdded
  <2>4. CASE l = Eternal BY <2>4, <1>8, <1>13
  <2>5. CASE l # Eternal
    <3>1. la = [lifetimeActions EXCEPT ![l] = Append(s, e)] BY <2>1, <2>5, <1>8
    <3>2. la[l] = Append(s, e) BY <3>1, <1>5, <1>13
    <3>3. la \in [ListenerLifetimes -> Seq(Listeners)] BY <3>1, <2>3, <1>5, <1>13
    <3>4. \A k \in ListenerLifetimes : k # l => la[k] = lifetimeActions[k] BY <3>1, <1>13
    <3>. QED BY <2>1, <2>3, <2>5, <3>2, <3>3, <3>4
  <2>. QED BY <2>4, <2>5
<1>18. /\ O \in Seq(Listeners) /\ Range(O) = Range(order) \cup {e}
       /\ (\A i, j \in DOMAIN order : order[i] = order[j] => i = j) /\ e \notin Range(order) =>
            \A i, j \in DOMAIN O : O[i] = O[j] => i = j
  BY <1>5, <1>10, <1>13, OrderAdded
<1>19. e \notin Range(order) /\ Advised = Range(order) /\ e \notin Advised
  <2>1. e \notin Range(order) BY <1>5 DEF SignalInv, EventsKept
  <2>2. Advised = Range(order) BY <1>13, RangeIn DEF SignalInv, EventsKept, Advised
  <2>. QED BY <2>1, <2>2
<1>20. SignalTypeOK' BY <1>11, <1>12, <1>14, <1>15, <1>16, <1>17, <1>18 DEF SignalInv, SignalTypeOK, AllQueues
<1>21. \A x : Alive(x)' = Alive(x) BY <1>11 DEF Alive
<1>22. Advised' = Advised \cup {e} /\ Living' = Living
  <2>1. Advised' = Advised \cup {e} BY <1>5, <1>11, <1>15 DEF Advised
  <2>. QED BY <2>1, <1>21 DEF Living
<1>23. EventsKept'
  <2>1. \A x \in Listeners : st[x] = "none" <=> x \notin Range(O)
    BY <1>15, <1>18 DEF SignalInv, EventsKept
  <2>2. \A i, j \in DOMAIN O : O[i] = O[j] => i = j BY <1>18, <1>19 DEF SignalInv, EventsKept
  <2>3. \A x \in Listeners : st[x] = "none" => ~ac[x] BY <1>15, <1>16 DEF SignalInv, EventsKept
  <2>4. ASSUME NEW x \in Listeners, st[x] \in {"ACTIVE", "FIRING"}
        PROVE  ac[x] /\ (LifetimeOf[x] # Eternal => x \in Range(la[LifetimeOf[x]]))
    <3>1. CASE x = e BY <3>1, <1>3, <1>16, <1>17
    <3>2. CASE x # e
      <4>1. action[x] /\ (LifetimeOf[x] # Eternal => x \in Range(lifetimeActions[LifetimeOf[x]]))
        BY <3>2, <2>4, <1>15 DEF SignalInv, EventsKept
      <4>2. LifetimeOf[x] \in ListenerLifetimes BY SignalAssumption
      <4>. QED BY <4>1, <4>2, <3>2, <1>16, <1>17
    <3>. QED BY <3>1, <3>2
  <2>5. \A x \in Listeners : st[x] = "TERMINATED" => ~Alive(x) BY <1>15 DEF SignalInv, EventsKept
  <2>. QED BY <2>1, <2>2, <2>3, <2>4, <2>5, <1>11, <1>21 DEF EventsKept
<1>24. LifetimesKept'
  <2>1. ASSUME NEW k \in ListenerLifetimes, NEW x \in Range(la[k]) PROVE LifetimeOf[x] = k /\ st[x] # "none"
    <3>1. CASE x = e /\ k = l BY <3>1, <1>3, <1>15
    <3>2. CASE ~(x = e /\ k = l)
      <4>1. x \in Range(lifetimeActions[k]) BY <2>1, <3>2, <1>17
      <4>2. x \in Listeners BY <4>1, <1>13, RangeIn
      <4>3. LifetimeOf[x] = k /\ state[x] # "none" BY <4>1 DEF SignalInv, LifetimesKept
      <4>. QED BY <4>2, <4>3, <1>15
    <3>. QED BY <3>1, <3>2
  <2>2. ASSUME NEW k \in released PROVE la[k] = <<>> /\ lifetimeEnding[k] = "ended"
    <3>1. lifetimeActions[k] = <<>> /\ lifetimeEnding[k] = "ended" BY <2>2 DEF SignalInv, LifetimesKept
    <3>2. k \in ListenerLifetimes BY <2>2 DEF SignalInv, SignalTypeOK
    <3>3. k # l BY <3>1, <1>5
    <3>. QED BY <3>1, <3>2, <3>3, <1>17
  <2>. QED BY <2>1, <2>2, <1>11 DEF SignalInv, LifetimesKept
<1>25. QueuesHold(queue, Advised)'
  <2>1. QueuesHold(queue, Advised) BY DEF SignalInv
  <2>2. QueuesHold(R, Advised \cup {e}) BY <2>1, <1>13, <1>14, <1>19, AddedQueuesHold
  <2>. QED BY <2>2, <1>11, <1>22
<1>26. \A i \in DOMAIN F : F[i] \in FireCalls
  <2>1. DOMAIN F = 1 .. Len(F) /\ \A i \in 1 .. Len(F) : F[i] \in FireCalls BY <1>13
  <2>. QED BY <2>1
<1>27. CallsHold(queue, state, action, fireCalls)'
  <2>1. CallsHold(queue, state, action, F) BY <1>4 DEF SignalInv
  <2>2. ASSUME NEW i \in DOMAIN F, F[i].at = "checked", InPlace(queue, F[i]) PROVE InPlace(R, F[i])
    <3>1. F[i].queue \in Queues BY <1>26, CallIs
    <3>2. F[i].it \in DOMAIN queue[F[i].queue] /\ queue[F[i].queue][F[i].it] = F[i].current
      BY <2>2 DEF InPlace
    <3>3. F[i].it \in DOMAIN R[F[i].queue] /\ R[F[i].queue][F[i].it] = F[i].current
      BY <3>1, <3>2, <1>14, AddedKeeps
    <3>. QED BY <3>3 DEF InPlace
  <2>3. \A x \in Listeners : state[x] # "none" => st[x] # "none" BY <1>15
  <2>4. \A x \in Listeners : state[x] \in {"FIRING", "TERMINATED"} /\ action[x] =>
          st[x] \in {"FIRING", "TERMINATED"} /\ ac[x]
    BY <1>5, <1>15, <1>16
  <2>5. \A x \in Listeners : st[x] = "FIRING" => state[x] = "FIRING" BY <1>15
  <2>6. CallsHold(R, st, ac, F) BY <2>1, <2>2, <2>3, <2>4, <2>5, <1>13, CallsStay
  <2>. QED BY <2>6, <1>4, <1>11
<1>28. ASSUME "throw" \notin effects PROVE LeftErased(queue, ToRelease, fireCalls)'
  <2>1. LeftErased(queue, ToRelease, F) BY <1>4, <1>5, <1>28 DEF SignalInv
  <2>2. PICK M : M = {x \in Listeners : ac[x] /\ st[x] \in {"FIRING", "TERMINATED"}} OBVIOUS
  <2>3. M = ToRelease' BY <2>2, <1>11 DEF ToRelease
  <2>4. e \notin M /\ M \subseteq ToRelease BY <2>2, <1>15, <1>16 DEF ToRelease
  <2>5. LeftErased(R, M, F) BY <2>1, <2>4, <1>13, <1>14, LeftAdded
  <2>. QED BY <2>3, <2>5, <1>4, <1>11
<1>29. ASSUME "fire" \notin effects PROVE SingleHolds(queue, Living, order, Advised, fireCalls)'
  <2>1. SingleHolds(queue, Living, order, Advised, F) BY <1>4, <1>29 DEF SignalInv
  <2>2. QueuesHold(queue, Range(order)) BY <1>19 DEF SignalInv
  <2>3. AllQueued(R, Living, Advised \cup {e})
    BY <2>1, <1>13, <1>14, AddedAllQueued DEF SingleHolds
  <2>4. \A p \in Queues : Sorted(R[p], Living, O)
    <3>1. \A p \in Queues : Sorted(queue[p], Living, order) BY <2>1 DEF SingleHolds
    <3>. QED BY <3>1, <2>2, <1>10, <1>13, <1>14, AddedSorted
  <2>5. ASSUME NEW i \in DOMAIN F PROVE i = 1 /\ CallInOrder(R, Living, O, F[i])
    <3>1. F # <<>>
      <4>1. DOMAIN <<>> = {} OBVIOUS
      <4>. QED BY <4>1, <2>5
    <3>2. /\ i = 1 /\ F[i] = Last(F) /\ CallInOrder(queue, Living, order, F[i])
      BY <3>1, <2>1, <2>5, <1>13, OnlyCall
    <3>3. F[i].at = "running" BY <3>1, <3>2, <1>4, <1>5 DEF SignalInv, TopFire
    <3>4. \A a \in DOMAIN F[i].heard : F[i].heard[a] \in Range(order)
      <4>1. CallHolds(state, action, F[i]) BY <2>5, <1>4 DEF SignalInv, CallsHold
      <4>2. F[i].heard \in Seq(Listeners) BY <2>5, <1>26, CallIs
      <4>3. PICK h : h = F[i].heard OBVIOUS
      <4>4. \A a \in DOMAIN h : h[a] \in Listeners BY <4>2, <4>3
      <4>5. \A a \in DOMAIN h : h[a] \in Range(order)
        BY <4>1, <4>3, <4>4 DEF CallHolds, SignalInv, EventsKept
      <4>. QED BY <4>3, <4>5
    <3>5. F[i] \in FireCalls BY <2>5, <1>26
    <3>6. CallInOrder(R, Living, O, F[i])
      BY <3>2, <3>3, <3>4, <3>5, <1>10, <1>13, <1>14, <1>19, AddedInOrder
    <3>. QED BY <3>2, <3>6
  <2>6. SingleHolds(R, Living, O, Advised \cup {e}, F) BY <2>3, <2>4, <2>5 DEF SingleHolds
  <2>. QED BY <2>6, <1>4, <1>11, <1>22
<1>30. ASSUME effects = {} PROVE UndisturbedHolds(queue, Living, fireCalls)' /\ missed' = {} /\ ~signalFault'
  <2>1. F = <<>> BY <1>4, <1>5, <1>30 DEF SignalInv
  <2>2. DOMAIN F = {} BY <2>1
  <2>3. NoHole(queue) /\ missed = {} BY <2>2, <1>4, <1>30, UndisturbedNone DEF SignalInv
  <2>4. NoHole(R)
    <3>. SUFFICES ASSUME NEW p \in Queues, NEW i \in DOMAIN R[p] PROVE R[p][i] # Null BY DEF NoHole
    <3>1. (i \in DOMAIN queue[p] /\ R[p][i] = queue[p][i]) \/ R[p][i] = e BY <1>13, <1>14, AddedFrom
    <3>. QED BY <3>1, <2>3, <1>5 DEF NoHole
  <2>5. UndisturbedHolds(R, Living, F) BY <2>2, <2>4, UndisturbedNone
  <2>. QED BY <2>1, <2>3, <2>5, <1>4, <1>11, <1>12, <1>22
<1>. QED BY <1>11, <1>20, <1>23, <1>24, <1>25, <1>27, <1>28, <1>29, <1>30 DEF SignalInv

\* A lifetime sets its flag: fewer listeners live.
LEMMA EndLifetimeKeeps ==
  ASSUME SignalInv, NEW l \in ListenerLifetimes, EndLifetime(l)
  PROVE  SignalInv'
<1>1. /\ l # Eternal /\ lifetimeEnding[l] = "alive"
      /\ lifetimeEnding' = [lifetimeEnding EXCEPT ![l] = "running"]
      /\ UNCHANGED <<queue, state, action, lifetimeActions, released, advising, fireCalls, order, missed, effects,
                     signalFault>>
  BY DEF EndLifetime, signalHist
<1>2. /\ lifetimeEnding' \in [ListenerLifetimes -> {"alive", "running", "ended"}]
      /\ lifetimeEnding'[l] = "running"
      /\ \A k \in ListenerLifetimes : k # l => lifetimeEnding'[k] = lifetimeEnding[k]
  BY <1>1 DEF SignalInv, SignalTypeOK
<1>3. SignalTypeOK' BY <1>1, <1>2 DEF SignalInv, SignalTypeOK
<1>4. \A x \in Listeners : Alive(x)' => Alive(x) BY <1>2, SignalAssumption DEF Alive
<1>5. EventsKept' BY <1>1, <1>4 DEF SignalInv, EventsKept
<1>6. LifetimesKept'
  <2>1. \A k \in released : k \in ListenerLifetimes /\ k # l
    BY <1>1 DEF SignalInv, SignalTypeOK, LifetimesKept
  <2>. QED BY <2>1, <1>1, <1>2 DEF SignalInv, LifetimesKept
<1>7. Advised' = Advised /\ ToRelease' = ToRelease /\ TopFire' = TopFire
  BY <1>1 DEF Advised, ToRelease, TopFire
<1>8. PICK B : B = Living' OBVIOUS
<1>9. B \subseteq Living BY <1>4, <1>8 DEF Living
<1>10. ASSUME "fire" \notin effects PROVE SingleHolds(queue, Living, order, Advised, fireCalls)'
  <2>1. SingleHolds(queue, B, order, Advised, fireCalls) BY <1>9, <1>10, FewerLive DEF SignalInv
  <2>. QED BY <2>1, <1>1, <1>7, <1>8
<1>11. ASSUME effects = {} PROVE UndisturbedHolds(queue, Living, fireCalls)'
  <2>1. UndisturbedHolds(queue, B, fireCalls) BY <1>9, <1>11, CompleteFewer DEF SignalInv
  <2>. QED BY <2>1, <1>1, <1>8
<1>. QED BY <1>1, <1>3, <1>5, <1>6, <1>7, <1>10, <1>11 DEF SignalInv

\* A lifetime terminates its last listener.
LEMMA TerminateLastKeeps ==
  ASSUME SignalInv, NEW l \in ListenerLifetimes, TerminateLast(l)
  PROVE  SignalInv'
<1>1. PICK s : s = lifetimeActions[l] OBVIOUS
<1>2. PICK e : e = Last(s) OBVIOUS
<1>3. s \in Seq(Listeners) /\ s # <<>> /\ lifetimeEnding[l] = "running"
  BY <1>1 DEF TerminateLast, SignalInv, SignalTypeOK
<1>4. PICK f : f = Front(s) OBVIOUS
<1>5. /\ e \in Listeners /\ e \in Range(s) /\ f \in Seq(Listeners)
      /\ \A x \in Range(f) : x \in Range(s)
      /\ \A x \in Range(s) : x # e => x \in Range(f)
  <2>1. /\ Len(s) \in Nat /\ Len(s) >= 1 /\ e = s[Len(s)] /\ e \in Listeners /\ f \in Seq(Listeners)
        /\ Len(f) = Len(s) - 1 /\ \A i \in 1 .. Len(s) - 1 : f[i] = s[i]
    BY <1>2, <1>3, <1>4, FrontIs
  <2>2. DOMAIN s = 1 .. Len(s) /\ DOMAIN f = 1 .. Len(s) - 1 BY <2>1, <1>3
  <2>3. Len(s) \in 1 .. Len(s) /\ \A i \in 1 .. Len(s) - 1 : i \in 1 .. Len(s) BY <2>1
  <2>4. \A i \in 1 .. Len(s) : i # Len(s) => i \in 1 .. Len(s) - 1 BY <2>1
  <2>5. e \in Range(s) BY <2>1, <2>2, <2>3 DEF Range
  <2>6. \A x \in Range(f) : x \in Range(s) BY <2>1, <2>2, <2>3 DEF Range
  <2>7. \A x \in Range(s) : x # e => x \in Range(f) BY <2>1, <2>2, <2>4 DEF Range
  <2>. QED BY <2>1, <2>5, <2>6, <2>7
<1>6. LifetimeOf[e] = l /\ state[e] # "none" /\ ~Alive(e)
  <2>1. LifetimeOf[e] = l /\ state[e] # "none" BY <1>1, <1>5 DEF SignalInv, LifetimesKept
  <2>. QED BY <2>1, <1>3 DEF Alive
<1>7. PICK st : st = [state EXCEPT ![e] = "TERMINATED"] OBVIOUS
<1>8. PICK ac : ac = [action EXCEPT ![e] = @ /\ state[e] # "ACTIVE"] OBVIOUS
<1>9. PICK la : la = [lifetimeActions EXCEPT ![l] = f] OBVIOUS
<1>10. /\ state' = st /\ action' = ac /\ lifetimeActions' = la
       /\ UNCHANGED <<queue, lifetimeEnding, released, advising, fireCalls, order, missed, effects, signalFault>>
  BY <1>1, <1>2, <1>4, <1>7, <1>8, <1>9 DEF TerminateLast, IsTerminated, signalHist
<1>11. /\ st \in [Listeners -> {"none", "ACTIVE", "FIRING", "TERMINATED"}]
       /\ st[e] = "TERMINATED" /\ \A x \in Listeners : x # e => st[x] = state[x]
  BY <1>5, <1>7 DEF SignalInv, SignalTypeOK
<1>12. ac \in [Listeners -> BOOLEAN] /\ \A x \in Listeners : x # e => ac[x] = action[x]
  <2>1. action \in [Listeners -> BOOLEAN] BY DEF SignalInv, SignalTypeOK
  <2>2. (action[e] /\ state[e] # "ACTIVE") \in BOOLEAN BY Zenon
  <2>. QED BY <2>1, <2>2, <1>8
<1>13. ac[e] <=> action[e] /\ state[e] # "ACTIVE"
  <2>1. action \in [Listeners -> BOOLEAN] BY DEF SignalInv, SignalTypeOK
  <2>2. ac[e] = (action[e] /\ state[e] # "ACTIVE") BY <2>1, <1>5, <1>8, Zenon
  <2>. QED BY <2>2, Zenon
<1>14. /\ la \in [ListenerLifetimes -> Seq(Listeners)] /\ la[l] = f
       /\ \A k \in ListenerLifetimes : k # l => la[k] = lifetimeActions[k]
  BY <1>5, <1>9 DEF SignalInv, SignalTypeOK
<1>15. SignalTypeOK' BY <1>10, <1>11, <1>12, <1>14 DEF SignalInv, SignalTypeOK
<1>16. \A x : Alive(x)' = Alive(x) BY <1>10 DEF Alive
<1>17. Advised' = Advised /\ Living' = Living /\ TopFire' = TopFire
  BY <1>6, <1>10, <1>11, <1>16 DEF Advised, Living, TopFire
<1>18. EventsKept'
  <2>1. \A x \in Listeners : st[x] = "none" <=> x \notin Range(order)
    BY <1>6, <1>11 DEF SignalInv, EventsKept
  <2>2. \A x \in Listeners : st[x] = "none" => ~ac[x] BY <1>11, <1>12 DEF SignalInv, EventsKept
  <2>3. ASSUME NEW x \in Listeners, st[x] \in {"ACTIVE", "FIRING"}
        PROVE  ac[x] /\ (LifetimeOf[x] # Eternal => x \in Range(la[LifetimeOf[x]]))
    <3>1. x # e /\ state[x] \in {"ACTIVE", "FIRING"} BY <2>3, <1>11
    <3>2. action[x] /\ (LifetimeOf[x] # Eternal => x \in Range(lifetimeActions[LifetimeOf[x]]))
      BY <3>1 DEF SignalInv, EventsKept
    <3>3. LifetimeOf[x] \in ListenerLifetimes BY SignalAssumption
    <3>4. x \in Range(lifetimeActions[LifetimeOf[x]]) => x \in Range(la[LifetimeOf[x]])
      BY <3>1, <3>3, <1>1, <1>5, <1>14
    <3>. QED BY <3>1, <3>2, <3>4, <1>12
  <2>4. \A x \in Listeners : st[x] = "TERMINATED" => ~Alive(x)
    BY <1>6, <1>11 DEF SignalInv, EventsKept
  <2>5. advising # Null => st[advising.listener] = "none"
    <3>1. advising # Null => advising.listener \in Listeners BY DEF SignalInv, SignalTypeOK
    <3>. QED BY <3>1, <1>6, <1>11 DEF SignalInv, EventsKept
  <2>6. \A i, j \in DOMAIN order : order[i] = order[j] => i = j BY DEF SignalInv, EventsKept
  <2>. QED BY <2>1, <2>2, <2>3, <2>4, <2>5, <2>6, <1>10, <1>16 DEF EventsKept
<1>19. LifetimesKept'
  <2>1. ASSUME NEW k \in ListenerLifetimes, NEW x \in Range(la[k]) PROVE LifetimeOf[x] = k /\ st[x] # "none"
    <3>1. x \in Range(lifetimeActions[k]) BY <2>1, <1>1, <1>5, <1>14
    <3>2. x \in Listeners BY <3>1, RangeIn DEF SignalInv, SignalTypeOK
    <3>3. LifetimeOf[x] = k /\ state[x] # "none" BY <3>1 DEF SignalInv, LifetimesKept
    <3>. QED BY <3>2, <3>3, <1>11
  <2>2. \A k \in released : k \in ListenerLifetimes /\ k # l
    BY <1>3 DEF SignalInv, SignalTypeOK, LifetimesKept
  <2>. QED BY <2>1, <2>2, <1>10, <1>14 DEF SignalInv, LifetimesKept
<1>20. CallsHold(queue, state, action, fireCalls)'
  <2>1. CallsHold(queue, state, action, fireCalls) /\ fireCalls \in Seq(FireCalls)
    BY DEF SignalInv, SignalTypeOK
  <2>2. \A x \in Listeners : state[x] # "none" => st[x] # "none" BY <1>11
  <2>3. \A x \in Listeners : state[x] \in {"FIRING", "TERMINATED"} /\ action[x] =>
          st[x] \in {"FIRING", "TERMINATED"} /\ ac[x]
    BY <1>11, <1>12, <1>13
  <2>4. \A x \in Listeners : st[x] = "FIRING" => state[x] = "FIRING" BY <1>11
  <2>5. CallsHold(queue, st, ac, fireCalls) BY <2>1, <2>2, <2>3, <2>4, CallsStay
  <2>. QED BY <2>5, <1>10
<1>21. ASSUME "throw" \notin effects, ~signalFault PROVE LeftErased(queue, ToRelease, fireCalls)'
  <2>1. LeftErased(queue, ToRelease, fireCalls) BY <1>21 DEF SignalInv
  <2>2. PICK M : M = {x \in Listeners : ac[x] /\ st[x] \in {"FIRING", "TERMINATED"}} OBVIOUS
  <2>3. M = ToRelease' BY <2>2, <1>10 DEF ToRelease
  <2>4. M \subseteq ToRelease
    <3>. SUFFICES ASSUME NEW x \in M PROVE x \in ToRelease OBVIOUS
    <3>1. x \in Listeners /\ ac[x] /\ st[x] \in {"FIRING", "TERMINATED"} BY <2>2
    <3>2. CASE x = e
      <4>1. action[e] /\ state[e] # "ACTIVE" BY <3>1, <3>2, <1>13
      <4>2. state[e] \in {"none", "ACTIVE", "FIRING", "TERMINATED"} BY <1>5 DEF SignalInv, SignalTypeOK
      <4>. QED BY <4>1, <4>2, <3>2, <1>5, <1>6 DEF ToRelease
    <3>3. CASE x # e BY <3>1, <3>3, <1>11, <1>12 DEF ToRelease
    <3>. QED BY <3>2, <3>3
  <2>5. LeftErased(queue, M, fireCalls) BY <2>1, <2>4, FewerLeft DEF SignalInv, SignalTypeOK, AllQueues
  <2>. QED BY <2>3, <2>5, <1>10
<1>. QED BY <1>10, <1>15, <1>17, <1>18, <1>19, <1>20, <1>21 DEF SignalInv

\* A lifetime lets its actions go.
LEMMA EndedLifetimeKeeps ==
  ASSUME SignalInv, NEW l \in ListenerLifetimes, EndedLifetime(l)
  PROVE  SignalInv'
<1>1. /\ lifetimeEnding[l] = "running" /\ lifetimeActions[l] = <<>>
      /\ lifetimeEnding' = [lifetimeEnding EXCEPT ![l] = "ended"] /\ released' = released \cup {l}
      /\ UNCHANGED <<queue, state, action, lifetimeActions, advising, fireCalls, order, missed, effects, signalFault>>
  BY DEF EndedLifetime, signalHist
<1>2. /\ lifetimeEnding' \in [ListenerLifetimes -> {"alive", "running", "ended"}]
      /\ lifetimeEnding'[l] = "ended"
      /\ \A k \in ListenerLifetimes : k # l => lifetimeEnding'[k] = lifetimeEnding[k]
  BY <1>1 DEF SignalInv, SignalTypeOK
<1>3. SignalTypeOK' BY <1>1, <1>2 DEF SignalInv, SignalTypeOK
<1>4. \A x \in Listeners : Alive(x)' = Alive(x) BY <1>1, <1>2, SignalAssumption DEF Alive
<1>5. EventsKept' BY <1>1, <1>4 DEF SignalInv, EventsKept
<1>6. LifetimesKept'
  <2>1. \A k \in released : k \in ListenerLifetimes BY DEF SignalInv, SignalTypeOK
  <2>2. l # Eternal BY <1>1 DEF SignalInv, LifetimesKept
  <2>. QED BY <2>1, <2>2, <1>1, <1>2 DEF SignalInv, LifetimesKept
<1>7. Advised' = Advised /\ ToRelease' = ToRelease /\ TopFire' = TopFire /\ Living' = Living
  BY <1>1, <1>4 DEF Advised, ToRelease, TopFire, Living
<1>. QED BY <1>1, <1>3, <1>5, <1>6, <1>7 DEF SignalInv

\* The invariant holds when nobody has subscribed.
LEMMA SignalBegins == SignalInit => SignalInv
<1>. SUFFICES ASSUME SignalInit PROVE SignalInv OBVIOUS
<1>1. /\ <<>> \in Seq(Slots) /\ <<>> \in Seq(Listeners) /\ <<>> \in Seq(FireCalls)
      /\ DOMAIN <<>> = {} /\ \A x : x \notin Range(<<>>)
  BY DEF Range
<1>2. TRUE \in BOOLEAN /\ FALSE \in BOOLEAN BY Zenon
<1>3. SignalTypeOK
  <2>1. signalFault \in BOOLEAN BY <1>2 DEF SignalInit
  <2>2. action \in [Listeners -> BOOLEAN] BY <1>2 DEF SignalInit
  <2>. QED BY <2>1, <2>2, <1>1 DEF SignalInit, SignalTypeOK
<1>4. \A q \in Queues : queue[q] = <<>> BY DEF SignalInit
<1>5. EventsKept BY <1>1 DEF SignalInit, EventsKept
<1>6. LifetimesKept BY <1>1 DEF SignalInit, LifetimesKept
<1>7. Advised = {} /\ ToRelease = {} BY DEF SignalInit, Advised, ToRelease
<1>8. QueuesHold(queue, Advised) BY <1>1, <1>4 DEF QueuesHold
<1>9. fireCalls = <<>> /\ DOMAIN fireCalls = {} BY <1>1 DEF SignalInit
<1>10. CallsHold(queue, state, action, fireCalls)
  <2>1. \A e \in Listeners : state[e] # "FIRING" BY DEF SignalInit
  <2>. QED BY <2>1, <1>9 DEF CallsHold
<1>11. LeftErased(queue, ToRelease, fireCalls) BY <1>7 DEF LeftErased
<1>12. SingleHolds(queue, Living, order, Advised, fireCalls)
  BY <1>1, <1>4, <1>7, <1>9 DEF SingleHolds, AllQueued, Sorted
<1>13. UndisturbedHolds(queue, Living, fireCalls)
  BY <1>1, <1>4, <1>9 DEF UndisturbedHolds, NoHoles
<1>14. advising = Null /\ missed = {} /\ ~signalFault BY DEF SignalInit
<1>. QED BY <1>3, <1>5, <1>6, <1>8, <1>10, <1>11, <1>12, <1>13, <1>14 DEF SignalInv

\* Every step keeps the invariant.
THEOREM SignalInvariance == SignalSpec => []SignalInv
<1>1. SignalInv /\ [SignalNext]_signalVars => SignalInv'
  <2>. SUFFICES ASSUME SignalInv, [SignalNext]_signalVars PROVE SignalInv' OBVIOUS
  <2>1. CASE UNCHANGED signalVars
    <3>1. UNCHANGED <<queue, state, action, lifetimeEnding, lifetimeActions, released, advising, fireCalls, order,
                      missed, effects, signalFault>>
      BY <2>1 DEF signalVars, lifeVars, signalHist
    <3>2. SignalTypeOK' BY <3>1 DEF SignalInv, SignalTypeOK
    <3>3. EventsKept' /\ LifetimesKept' BY <3>1 DEF SignalInv, EventsKept, LifetimesKept, Alive
    <3>4. Advised' = Advised /\ Living' = Living /\ ToRelease' = ToRelease /\ TopFire' = TopFire
      BY <3>1 DEF Advised, Living, Alive, ToRelease, TopFire
    <3>. QED BY <3>1, <3>2, <3>3, <3>4 DEF SignalInv
  <2>2. CASE \E e \in Listeners, q \in Queues : Advise(e, q) BY <2>2, AdviseKeeps
  <2>3. CASE AdviseAdd BY <2>3, AdviseAddKeeps
  <2>4. CASE AdviseThrows BY <2>4, AdviseThrowsKeeps
  <2>5. CASE Fire BY <2>5, FireKeeps
  <2>6. CASE CheckLifetime BY <2>6, CheckLifetimeKeeps
  <2>7. CASE TryFire BY <2>7, TryFireKeeps
  <2>8. CASE ReturnHandler BY <2>8, ReturnHandlerKeeps
  <2>9. CASE ThrowHandler BY <2>9, ThrowHandlerKeeps
  <2>10. CASE EndWalk BY <2>10, EndWalkKeeps
  <2>11. CASE \E l \in ListenerLifetimes : EndLifetime(l) \/ TerminateLast(l) \/ EndedLifetime(l)
    BY <2>11, EndLifetimeKeeps, TerminateLastKeeps, EndedLifetimeKeeps
  <2>. QED BY <2>1, <2>2, <2>3, <2>4, <2>5, <2>6, <2>7, <2>8, <2>9, <2>10, <2>11 DEF SignalNext
<1>. QED BY <1>1, SignalBegins, PTL DEF SignalSpec

\* What the invariant says of the property's parts.
LEMMA NoActionLeft == ASSUME SignalInv PROVE ReleasedUnlessThrown
<1>. SUFFICES ASSUME fireCalls = <<>>, ~signalFault, "throw" \notin effects,
                     NEW e \in Listeners, LifetimeOf[e] \in released, action[e], Referenced(e)
              PROVE  FALSE
  BY DEF ReleasedUnlessThrown
<1>1. PICK l : l = LifetimeOf[e] OBVIOUS
<1>2. l \in ListenerLifetimes /\ l \in released BY <1>1, SignalAssumption
<1>3. lifetimeActions[l] = <<>> /\ lifetimeEnding[l] = "ended" BY <1>2 DEF SignalInv, LifetimesKept
<1>4. l # Eternal BY <1>2, <1>3 DEF SignalInv, LifetimesKept
<1>5. e \notin Range(lifetimeActions[l])
  <2>1. DOMAIN <<>> = {} OBVIOUS
  <2>. QED BY <2>1, <1>3 DEF Range
<1>6. state[e] = "TERMINATED"
  <2>1. state[e] \in {"none", "ACTIVE", "FIRING", "TERMINATED"} BY DEF SignalInv, SignalTypeOK
  <2>2. state[e] # "none" BY DEF SignalInv, EventsKept
  <2>3. state[e] \notin {"ACTIVE", "FIRING"} BY <1>1, <1>4, <1>5 DEF SignalInv, EventsKept
  <2>. QED BY <2>1, <2>2, <2>3
<1>7. e \in ToRelease BY <1>6 DEF ToRelease
<1>8. PICK q \in Queues : Contains(queue[q], e) BY DEF Referenced
<1>9. queue \in AllQueues BY DEF SignalInv, SignalTypeOK, AllQueues
<1>10. PICK p \in DOMAIN queue[q] : queue[q][p] = e
  <2>1. DOMAIN queue[q] = 1 .. Len(queue[q]) BY <1>9, PlacesAreNumbers
  <2>. QED BY <2>1, <1>8 DEF Contains
<1>11. \E i \in DOMAIN fireCalls : TRUE BY <1>7, <1>10 DEF SignalInv, LeftErased
<1>12. DOMAIN fireCalls = {}
  <2>1. DOMAIN <<>> = {} OBVIOUS
  <2>. QED BY <2>1
<1>. QED BY <1>11, <1>12

\* The order in a queue is that of the places in the history of advise.
LEMMA HeardByAge == ASSUME SignalInv PROVE OrderUnlessReentered
<1>. SUFFICES ASSUME "fire" \notin effects PROVE InAdviseOrder BY DEF OrderUnlessReentered
<1>1. SingleHolds(queue, Living, order, Advised, fireCalls) /\ queue \in AllQueues
  BY DEF SignalInv, SignalTypeOK, AllQueues
<1>2. \A q \in Queues : \A x : Contains(queue[q], x) => InQueue(queue, q, x)
  <2>1. \A q \in Queues : DOMAIN queue[q] = 1 .. Len(queue[q]) BY <1>1, PlacesAreNumbers
  <2>. QED BY <2>1 DEF Contains, InQueue
<1>3. ASSUME NEW x, NEW y, OlderIn(order, x, y) PROVE Place(x) < Place(y)
  <2>1. PICK i \in DOMAIN order, j \in DOMAIN order : i < j /\ order[i] = x /\ order[j] = y
    BY <1>3 DEF OlderIn
  <2>2. \A k, m \in DOMAIN order : order[k] = order[m] => k = m BY DEF SignalInv, EventsKept
  <2>3. Place(x) \in DOMAIN order /\ order[Place(x)] = x BY <2>1 DEF Place
  <2>4. Place(y) \in DOMAIN order /\ order[Place(y)] = y BY <2>1 DEF Place
  <2>5. Place(x) = i /\ Place(y) = j BY <2>1, <2>2, <2>3, <2>4
  <2>. QED BY <2>1, <2>5
<1>. SUFFICES ASSUME NEW i \in DOMAIN fireCalls, NEW q \in Queues, NEW h, h = fireCalls[i].heard,
                     NEW a \in DOMAIN h, NEW b \in DOMAIN h, a < b,
                     Contains(queue[q], h[a]), Contains(queue[q], h[b])
              PROVE  Place(h[a]) < Place(h[b])
  BY DEF InAdviseOrder
<1>4. HeardInOrder(queue, order, fireCalls[i]) BY <1>1 DEF SingleHolds, CallInOrder
<1>5. OlderIn(order, h[a], h[b]) BY <1>2, <1>4 DEF HeardInOrder
<1>. QED BY <1>3, <1>5

\* The only call finds its listener in place, with the reference of the queue.
LEMMA KeptByTheCall == ASSUME SignalInv PROVE KeptUnlessReentered
<1>. SUFFICES ASSUME "fire" \notin effects, NEW i \in DOMAIN fireCalls, fireCalls[i].at = "running"
              PROVE  action[fireCalls[i].current] /\ Referenced(fireCalls[i].current)
  BY DEF KeptUnlessReentered, KeptWhileRunning
<1>1. fireCalls # <<>> /\ fireCalls \in Seq(FireCalls)
  <2>1. DOMAIN <<>> = {} OBVIOUS
  <2>. QED BY <2>1 DEF SignalInv, SignalTypeOK
<1>2. SingleHolds(queue, Living, order, Advised, fireCalls) BY DEF SignalInv
<1>3. fireCalls[i] = TopFire /\ CallInOrder(queue, Living, order, TopFire) BY <1>1, <1>2, OnlyCall DEF TopFire
<1>4. TopFire.at = "running" /\ InPlace(queue, TopFire) BY <1>3 DEF CallInOrder
<1>. QED BY <1>1, <1>3, <1>4, TopRuns

\* The invariant implies each part of what fire owes its listeners.
LEMMA SignalIsCorrect == ASSUME SignalInv PROVE SignalCorrect
<1>1. CalledUnlessDisturbed BY DEF SignalInv, CalledUnlessDisturbed, CalledEveryTime
<1>2. NeverStuckFiring BY DEF SignalInv, CallsHold, NeverStuckFiring
<1>. QED BY <1>1, <1>2, NoActionLeft, HeardByAge, KeptByTheCall DEF SignalCorrect

\* Whatever listeners subscribe, end, throw, or fire again: a call of fire
\* calls those that live once and in order, with an action that lasts for the
\* call and not beyond its lifetime, each part until the effect that breaks it.
THEOREM SignalTheorem == SignalSpec => []SignalCorrect
BY SignalInvariance, SignalIsCorrect, PTL
===============================================================================
