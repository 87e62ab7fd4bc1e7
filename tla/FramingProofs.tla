--------------------------- MODULE FramingProofs ----------------------------
(***************************************************************************)
(* Theorems about Framing: the data handler of network/TcpServer.ts takes  *)
(* the same packets out of a stream however it is cut, and its buffer is   *)
(* bounded.                                                                *)
(*                                                                         *)
(* Loops are recursive functions over the rounds made so far.  A function  *)
(* that follows the same recursion (Follows, Track) is the loop, so most    *)
(* loops are shown to do something by writing down what they have after    *)
(* each round.                                                             *)
(***************************************************************************)
EXTENDS Framing, SequenceTheorems, WellFoundedInduction, TLAPS

-----------------------------------------------------------------------------
(* Natural numbers and loops. *)

LEMMA NatOrder == \E R : /\ IsWellFoundedOn(R, Nat)
                         /\ \A m, n \in Nat : m < n => <<m, n>> \in R
<1>1. \A m, n \in Nat : m < n => <<m, n>> \in OpToRel(<, Nat)
  BY DEF OpToRel
<1>2. QED  BY <1>1, NatLessThanWellFounded, Zenon

(* A nonempty set of natural numbers has a least element. *)
LEMMA Least ==
    ASSUME NEW S \in SUBSET Nat, S # {}
    PROVE  \E m \in S : \A n \in S : m <= n
<1>1. PICK R : /\ IsWellFoundedOn(R, Nat)
               /\ \A m, n \in Nat : m < n => <<m, n>> \in R
  BY NatOrder, Zenon
<1>2. \E m \in S : \A n \in S : ~(<<n, m>> \in R)
  <2>1. IsWellFoundedOn(R, Nat) /\ S \subseteq Nat
    BY <1>1
  <2>2. QED  BY <2>1, WFMin
<1>3. PICK m \in S : \A n \in S : ~(<<n, m>> \in R)
  BY <1>2, Zenon
<1>4. \A n \in S : ~(n < m)
  BY <1>1, <1>3, Zenon
<1>5. QED  BY <1>4

(* Induction, on a set of numbers. *)
LEMMA Counting ==
    ASSUME NEW T, 0 \in T, \A n \in Nat : n \in T => n + 1 \in T
    PROVE  \A n \in Nat : n \in T
<1> DEFINE S == {n \in Nat : n \notin T}
<1>1. SUFFICES ASSUME S # {} PROVE FALSE
  OBVIOUS
<1>2. PICK m \in S : \A n \in S : m <= n
  BY <1>1, Least
<1>3. m # 0 /\ m - 1 \in Nat /\ m - 1 \notin S
  BY <1>2
<1>4. m - 1 \in T /\ (m - 1) + 1 = m
  BY <1>3
<1>5. QED  BY <1>2, <1>3, <1>4

(* Loops of N rounds: round n takes x to step[n][x], and keeps it in S. *)
StaysIn(S, N, step) == \A n \in 1 .. N : \A x \in S : step[n][x] \in S

Follows(f, first, S, N, step) ==
    f[0] = first /\ \A n \in 1 .. N : f[n - 1] \in S => f[n] = step[n][f[n - 1]]

LEMMA LoopRuns ==
    ASSUME NEW S, NEW first \in S, NEW N \in Nat, NEW step, StaysIn(S, N, step)
    PROVE  \E f \in [0 .. N -> S] : Follows(f, first, S, N, step)
<1> DEFINE Runs(k) == \E f \in [0 .. k -> S] : Follows(f, first, S, k, step)
           T == {k \in Nat : k <= N => Runs(k)}
<1>1. 0 \in T
  <2> DEFINE f == [i \in 0 .. 0 |-> first]
  <2>1. f \in [0 .. 0 -> S] /\ f[0] = first /\ \A n \in 1 .. 0 : f[n] = step[n][f[n - 1]]
    OBVIOUS
  <2> HIDE DEF f
  <2>2. Runs(0)
    BY <2>1 DEF Follows
  <2>3. QED  BY <2>2
<1>2. ASSUME NEW k \in Nat, k \in T PROVE k + 1 \in T
  <2>1. SUFFICES ASSUME k + 1 <= N PROVE Runs(k + 1)
    OBVIOUS
  <2>2. PICK f \in [0 .. k -> S] : Follows(f, first, S, k, step)
    BY <1>2, <2>1
  <2> DEFINE g == [i \in 0 .. k + 1 |-> IF i = k + 1 THEN step[k + 1][f[k]] ELSE f[i]]
  <2>3. step[k + 1][f[k]] \in S
    BY <2>1, <2>2 DEF StaysIn
  <2>4. g \in [0 .. k + 1 -> S]
    BY <2>2, <2>3
  <2>5. Follows(g, first, S, k + 1, step)
    BY <2>2 DEF Follows
  <2> HIDE DEF g
  <2>6. QED  BY <2>4, <2>5
<1>3. N \in T
  <2> HIDE DEF T
  <2>1. QED  BY <1>1, <1>2, Counting
<1>4. QED  BY <1>3

(* All that follow the same loop come to the same result. *)
LEMMA SameLoop ==
    ASSUME NEW S, NEW first \in S, NEW N \in Nat, NEW step, StaysIn(S, N, step),
           NEW f, NEW g, Follows(f, first, S, N, step), Follows(g, first, S, N, step)
    PROVE  f[N] = g[N] /\ f[N] \in S
<1> DEFINE T == {k \in Nat : k <= N => f[k] = g[k] /\ f[k] \in S}
<1>1. 0 \in T
  BY DEF Follows
<1>2. ASSUME NEW k \in Nat, k \in T PROVE k + 1 \in T
  <2>1. SUFFICES ASSUME k + 1 <= N PROVE f[k + 1] = g[k + 1] /\ f[k + 1] \in S
    OBVIOUS
  <2>2. f[k] = g[k] /\ f[k] \in S /\ k + 1 \in 1 .. N /\ (k + 1) - 1 = k
    BY <1>2, <2>1
  <2>3. f[k + 1] = step[k + 1][f[k]] /\ g[k + 1] = step[k + 1][g[k]]
    BY <2>2 DEF Follows
  <2>4. QED  BY <2>2, <2>3 DEF StaysIn
<1>3. N \in T
  <2> HIDE DEF T
  <2>1. QED  BY <1>1, <1>2, Counting
<1>4. QED  BY <1>3

-----------------------------------------------------------------------------
(* The bytes of a length. *)

LEMMA ByteValue == ASSUME NEW b \in Bytes PROVE b \in Nat
BY BytesAssumption

LEMMA ValueInt == ASSUME NEW s \in Seq(Int) PROVE Value(s) \in Int
<1> DEFINE N == Len(s)
           step == [n \in 1 .. N |-> [x \in Int |-> s[N + 1 - n] + 128 * x]]
           Rec(f) == f = [n \in 0 .. N |->
                             IF n = 0 THEN 0 ELSE s[N + 1 - n] + 128 * f[n - 1]]
           c == CHOOSE f : Rec(f)
<1>1. N \in Nat /\ 0 \in Int
  OBVIOUS
<1>2. ASSUME NEW n \in 1 .. N, NEW x \in Int
      PROVE  step[n][x] = s[N + 1 - n] + 128 * x /\ step[n][x] \in Int
  <2>1. s[N + 1 - n] \in Int
    <3>1. N + 1 - n \in 1 .. Len(s)
      OBVIOUS
    <3>2. QED  BY <3>1
  <2>2. step[n][x] = s[N + 1 - n] + 128 * x
    OBVIOUS
  <2>3. QED  BY <2>1, <2>2
<1>3. StaysIn(Int, N, step)
  <2> HIDE DEF step
  <2>1. QED  BY <1>2 DEF StaysIn
<1>4. PICK f \in [0 .. N -> Int] : Follows(f, 0, Int, N, step)
  <2> HIDE DEF step, N
  <2>1. QED  BY <1>1, <1>3, LoopRuns, Zenon
<1>5. Rec(f)
  <2>1. f[0] = 0
    BY <1>4 DEF Follows
  <2>2. ASSUME NEW n \in 1 .. N PROVE f[n] = s[N + 1 - n] + 128 * f[n - 1]
    <3>1. f[n - 1] \in Int
      OBVIOUS
    <3> HIDE DEF step
    <3>2. f[n] = step[n][f[n - 1]]
      BY <1>4, <3>1 DEF Follows
    <3>3. QED  BY <1>2, <3>1, <3>2
  <2>3. QED  BY <2>1, <2>2
<1>6. Rec(c)
  <2> HIDE DEF Rec
  <2>1. QED  BY <1>5
<1>7. Follows(c, 0, Int, N, step)
  <2> HIDE DEF c
  <2>1. c[0] = 0 /\ \A n \in 1 .. N : c[n] = s[N + 1 - n] + 128 * c[n - 1]
    <3> HIDE DEF N
    <3>1. QED  BY <1>1, <1>6
  <2>2. ASSUME NEW n \in 1 .. N, c[n - 1] \in Int PROVE c[n] = step[n][c[n - 1]]
    <3> HIDE DEF step
    <3>1. step[n][c[n - 1]] = s[N + 1 - n] + 128 * c[n - 1]
      BY <1>2, <2>2
    <3>2. QED  BY <2>1, <3>1
  <2> HIDE DEF step
  <2>3. QED  BY <2>1, <2>2 DEF Follows
<1>8. c[N] \in Int
  <2> HIDE DEF step, c, N
  <2>1. QED  BY <1>1, <1>3, <1>7, SameLoop, Zenon
<1>9. Value(s) = c[N]
  BY DEF Value
<1>10. QED  BY <1>8, <1>9

(* A length is an integer, whatever its bytes (readULEB). *)
LEMMA LengthInt == ASSUME NEW p \in Seq(Bytes) PROVE LengthOf(p) \in Int
<1> DEFINE digits == [i \in 1 .. Len(p) |->
                         IF i = 5 THEN ((p[i] + 8) % 16) - 8 ELSE p[i] % 128]
<1>1. digits \in Seq(Int)
  <2>1. ASSUME NEW i \in 1 .. Len(p) PROVE digits[i] \in Int
    <3>1. p[i] \in Bytes
      OBVIOUS
    <3>2. p[i] \in Int
      BY <3>1, ByteValue
    <3>3. QED  BY <3>2
  <2>2. Len(p) \in Nat
    OBVIOUS
  <2> HIDE DEF digits
  <2>3. digits = [i \in 1 .. Len(p) |-> digits[i]]
    BY DEF digits
  <2>4. QED  BY <2>1, <2>2, <2>3
<1> HIDE DEF digits
<1>2. Value(digits) \in Int
  BY <1>1, ValueInt
<1>3. QED  BY <1>2 DEF LengthOf, digits

(* UlebBytes finds the first byte that ends. *)
LEMMA UlebFound ==
    ASSUME NEW s \in Seq(Bytes)
    PROVE  /\ UlebBytes(s) \in 0 .. Len(s)
           /\ UlebBytes(s) = 0 => \A i \in 1 .. Len(s) : More(s[i])
           /\ UlebBytes(s) # 0 => ~More(s[UlebBytes(s)])
           /\ UlebBytes(s) # 0 => \A i \in 1 .. UlebBytes(s) - 1 : More(s[i])
<1> DEFINE I == {i \in 1 .. Len(s) : ~More(s[i])}
<1>1. UlebBytes(s) = IF I # {} THEN CHOOSE m \in I : \A n \in I : m <= n ELSE 0
  BY DEF UlebBytes, SelectInSeq, Min
<1>2. CASE I = {}
  BY <1>1, <1>2
<1>3. CASE I # {}
  <2>1. \E m \in I : \A n \in I : m <= n
    <3>1. I \in SUBSET Nat
      OBVIOUS
    <3> HIDE DEF I
    <3>2. QED  BY <1>3, <3>1, Least
  <2>2. UlebBytes(s) \in I /\ \A n \in I : UlebBytes(s) <= n
    BY <1>1, <1>3, <2>1
  <2>3. QED  BY <2>2
<1>4. QED  BY <1>2, <1>3

-----------------------------------------------------------------------------
(* The reference. *)
Commands == {Parse(p) : p \in Seq(Bytes)}

Receivers ==
    [mode : {"version", "prefix", "packet", "stuck", "closed", "negative"}, prefix : Seq(Bytes),
     left : Int, packet : Seq(Bytes), heard : Seq(Commands)]

LEMMA BytesAppended ==
    ASSUME NEW s \in Seq(Bytes), NEW b \in Bytes
    PROVE  Append(s, b) \in Seq(Bytes)
BY AppendProperties

LEMMA PacketEndsType == ASSUME NEW r \in Receivers PROVE PacketEnds(r) \in Receivers
<1> DEFINE command == Parse(r.packet)
<1>1. r.heard \in Seq(Commands) /\ command \in Commands
  BY DEF Receivers, Commands
<1> HIDE DEF command
<1>2. Append(r.heard, command) \in Seq(Commands)
  BY <1>1, AppendProperties
<1>3. <<>> \in Seq(Bytes)
  OBVIOUS
<1>4. PacketEnds(r) = IF command = Illegal THEN [r EXCEPT !.mode = "closed"]
        ELSE [r EXCEPT !.mode = "prefix", !.prefix = <<>>, !.packet = <<>>,
                       !.heard = IF Dropped(command) THEN @ ELSE Append(@, command)]
  BY DEF PacketEnds, command
<1>5. QED  BY <1>1, <1>2, <1>3, <1>4 DEF Receivers

LEMMA PartsReplaced ==
    ASSUME NEW r \in Receivers, NEW left \in Int, NEW bytes \in Seq(Bytes)
    PROVE  /\ [r EXCEPT !.mode = "packet", !.left = left] \in Receivers
           /\ [r EXCEPT !.prefix = bytes] \in Receivers
           /\ [r EXCEPT !.packet = bytes, !.left = left] \in Receivers
BY DEF Receivers

LEMMA HearType ==
    ASSUME NEW r \in Receivers, NEW b \in Bytes
    PROVE  Hear(r, b) \in Receivers
<1>1. ASSUME NEW q \in Receivers PROVE PrefixEnds(q) \in Receivers
  <2>1. LengthOf(q.prefix) \in Int
    BY <1>1, LengthInt DEF Receivers
  <2>2. /\ [q EXCEPT !.mode = "closed"] \in Receivers
        /\ [q EXCEPT !.mode = "negative"] \in Receivers
    BY DEF Receivers
  <2>3. [q EXCEPT !.mode = "packet", !.left = LengthOf(q.prefix)] \in Receivers
    <3> DEFINE v == LengthOf(q.prefix)
    <3>1. v \in Int /\ <<>> \in Seq(Bytes)
      BY <2>1
    <3> HIDE DEF v
    <3>2. [q EXCEPT !.mode = "packet", !.left = v] \in Receivers
      BY <3>1, PartsReplaced
    <3>3. QED  BY <3>2 DEF v
  <2>4. QED  BY <2>2, <2>3, PacketEndsType DEF PrefixEnds
<1>2. r.prefix \in Seq(Bytes) /\ r.packet \in Seq(Bytes)
  BY DEF Receivers
<1>3. CASE r.mode = "version"
  BY <1>3 DEF Hear, Receivers
<1>4. CASE r.mode = "prefix"
  <2> DEFINE next == [r EXCEPT !.prefix = Append(@, b)]
  <2> DEFINE longer == Append(r.prefix, b)
  <2>1. next \in Receivers /\ [next EXCEPT !.mode = "stuck"] \in Receivers
    <3>1. longer \in Seq(Bytes) /\ 0 \in Int
      BY <1>2, BytesAppended
    <3> HIDE DEF longer
    <3>2. [r EXCEPT !.prefix = longer] \in Receivers
      BY <3>1, PartsReplaced
    <3>3. next = [r EXCEPT !.prefix = longer]
      BY DEF longer
    <3>4. QED  BY <3>2, <3>3 DEF Receivers
  <2> HIDE DEF next
  <2>2. Hear(r, b) = IF ~More(b) THEN PrefixEnds(next)
                     ELSE IF Len(next.prefix) = 5 THEN [next EXCEPT !.mode = "stuck"] ELSE next
    BY <1>4 DEF Hear, next
  <2>3. QED  BY <1>1, <2>1, <2>2
<1>5. CASE r.mode = "packet"
  <2> DEFINE next == [r EXCEPT !.packet = Append(@, b), !.left = @ - 1]
  <2> DEFINE longer == Append(r.packet, b)
             rest == r.left - 1
  <2>1. next \in Receivers
    <3>1. longer \in Seq(Bytes) /\ rest \in Int
      BY <1>2, BytesAppended DEF Receivers
    <3> HIDE DEF longer, rest
    <3>2. [r EXCEPT !.packet = longer, !.left = rest] \in Receivers
      BY <3>1, PartsReplaced
    <3>3. QED  BY <3>2 DEF longer, rest
  <2> HIDE DEF next
  <2>2. Hear(r, b) = IF next.left = 0 THEN PacketEnds(next) ELSE next
    BY <1>5 DEF Hear, next
  <2>3. QED  BY <2>1, <2>2, PacketEndsType
<1>6. CASE r.mode \notin {"version", "prefix", "packet"}
  BY <1>6 DEF Hear
<1>7. QED  BY <1>3, <1>4, <1>5, <1>6

(* f[n] is the receiver after n bytes of s. *)
Track(f, r, s) == f[0] = r /\ \A n \in 1 .. Len(s) : f[n] = Hear(f[n - 1], s[n])

LEMMA HearingTrack ==
    ASSUME NEW r \in Receivers, NEW s \in Seq(Bytes)
    PROVE  /\ \E f : Track(f, r, s)
           /\ \A f : Track(f, r, s) => Hearing(r, s) = f[Len(s)]
           /\ Hearing(r, s) \in Receivers
<1> DEFINE N == Len(s)
           step == [n \in 1 .. N |-> [x \in Receivers |-> Hear(x, s[n])]]
           Rec(f) == f = [n \in 0 .. N |-> IF n = 0 THEN r ELSE Hear(f[n - 1], s[n])]
           c == CHOOSE f : Rec(f)
<1>1. N \in Nat
  OBVIOUS
<1>2. ASSUME NEW n \in 1 .. N, NEW x \in Receivers
      PROVE  step[n][x] = Hear(x, s[n]) /\ Hear(x, s[n]) \in Receivers
  <2>1. s[n] \in Bytes
    OBVIOUS
  <2>2. QED  BY <2>1, HearType
<1>3. StaysIn(Receivers, N, step)
  <2> HIDE DEF step
  <2>1. QED  BY <1>2 DEF StaysIn
<1>4. PICK f \in [0 .. N -> Receivers] : Follows(f, r, Receivers, N, step)
  <2> HIDE DEF step
  <2>1. QED  BY <1>1, <1>3, LoopRuns, Zenon
<1>5. Track(f, r, s)
  <2>1. f[0] = r
    BY <1>4 DEF Follows
  <2>2. ASSUME NEW n \in 1 .. N PROVE f[n] = Hear(f[n - 1], s[n])
    <3>1. f[n - 1] \in Receivers
      OBVIOUS
    <3> HIDE DEF step
    <3>2. f[n] = step[n][f[n - 1]]
      BY <1>4, <3>1 DEF Follows
    <3>3. QED  BY <1>2, <3>1, <3>2
  <2>3. QED  BY <2>1, <2>2 DEF Track
<1>6. Rec(f)
  BY <1>5 DEF Track
<1>7. Rec(c)
  <2> HIDE DEF Rec
  <2>1. QED  BY <1>6
<1>8. Track(c, r, s)
  <2> HIDE DEF c
  <2>1. QED  BY <1>1, <1>7 DEF Track
<1>9. ASSUME NEW g, Track(g, r, s) PROVE g[N] = f[N] /\ g[N] \in Receivers
  <2> HIDE DEF step
  <2>1. Follows(g, r, Receivers, N, step)
    BY <1>2, <1>9 DEF Follows, Track
  <2>2. Follows(f, r, Receivers, N, step)
    BY <1>4
  <2> HIDE DEF N
  <2>3. QED  BY <1>1, <1>3, <2>1, <2>2, SameLoop, Zenon
<1>10. Hearing(r, s) = c[N]
  BY DEF Hearing
<1>11. QED
  <2> HIDE DEF c, step, N
  <2>1. QED  BY <1>5, <1>8, <1>9, <1>10, Zenon DEF N

(* To say what is heard, say what the receiver is after each byte. *)
LEMMA HearingIs ==
    ASSUME NEW r \in Receivers, NEW s \in Seq(Bytes), NEW f, Track(f, r, s)
    PROVE  Hearing(r, s) = f[Len(s)] /\ Hearing(r, s) \in Receivers
BY HearingTrack, Zenon

LEMMA HearingConcat ==
    ASSUME NEW r \in Receivers, NEW s \in Seq(Bytes), NEW t \in Seq(Bytes)
    PROVE  Hearing(r, s \o t) = Hearing(Hearing(r, s), t)
<1> DEFINE all == s \o t
<1>1. /\ all \in Seq(Bytes) /\ Len(all) = Len(s) + Len(t)
      /\ Len(s) \in Nat /\ Len(t) \in Nat
      /\ \A i \in 1 .. Len(s) + Len(t) : all[i] = IF i <= Len(s) THEN s[i] ELSE t[i - Len(s)]
  BY ConcatProperties
<1> HIDE DEF all
<1>2. PICK f : Track(f, r, all)
  BY <1>1, HearingTrack, Zenon
<1>3. Hearing(r, all) = f[Len(s) + Len(t)]
  <2>1. Hearing(r, all) = f[Len(all)]
    BY <1>1, <1>2, HearingIs, Zenon
  <2>2. QED  BY <1>1, <2>1
<1>4. Track(f, r, s)
  BY <1>1, <1>2 DEF Track
<1>5. f[Len(s)] = Hearing(r, s) /\ Hearing(r, s) \in Receivers
  BY <1>4, HearingIs
<1> DEFINE g == [n \in 0 .. Len(t) |-> f[Len(s) + n]]
<1>6. Track(g, Hearing(r, s), t)
  <2>1. g[0] = Hearing(r, s)
    BY <1>1, <1>5
  <2>2. ASSUME NEW n \in 1 .. Len(t) PROVE g[n] = Hear(g[n - 1], t[n])
    <3>1. /\ Len(s) + n \in 1 .. Len(all) /\ (Len(s) + n) - Len(s) = n
          /\ ~(Len(s) + n <= Len(s)) /\ (Len(s) + n) - 1 = Len(s) + (n - 1)
      BY <1>1
    <3>2. f[Len(s) + n] = Hear(f[(Len(s) + n) - 1], all[Len(s) + n])
      BY <1>2, <3>1 DEF Track
    <3>3. all[Len(s) + n] = t[n]
      BY <1>1, <3>1
    <3>4. g[n] = f[Len(s) + n] /\ g[n - 1] = f[Len(s) + (n - 1)]
      BY <1>1
    <3>5. QED  BY <3>1, <3>2, <3>3, <3>4
  <2> HIDE DEF g
  <2>3. QED  BY <2>1, <2>2 DEF Track
<1>7. g[Len(t)] = f[Len(s) + Len(t)]
  BY <1>1
<1> HIDE DEF g
<1>8. QED  BY <1>3, <1>5, <1>6, <1>7, HearingIs DEF all

LEMMA HearingNothing == ASSUME NEW r \in Receivers PROVE Hearing(r, <<>>) = r
<1> DEFINE f == [n \in 0 .. 0 |-> r]
<1>1. Track(f, r, <<>>) /\ f[0] = r /\ <<>> \in Seq(Bytes) /\ Len(<<>>) = 0
  BY DEF Track
<1> HIDE DEF f
<1>2. Hearing(r, <<>>) = f[Len(<<>>)]
  BY <1>1, HearingIs, Zenon
<1>3. QED  BY <1>1, <1>2

LEMMA HearingOne ==
    ASSUME NEW r \in Receivers, NEW b \in Bytes
    PROVE  Hearing(r, <<b>>) = Hear(r, b)
<1> DEFINE f == [n \in 0 .. 1 |-> IF n = 0 THEN r ELSE Hear(r, b)]
<1>1. <<b>> \in Seq(Bytes) /\ Len(<<b>>) = 1
  OBVIOUS
<1>2. Track(f, r, <<b>>) /\ f[1] = Hear(r, b)
  BY DEF Track
<1> HIDE DEF f
<1>3. QED  BY <1>1, <1>2, HearingIs

(* A receiver that is stuck, or closed, or gave up, stays as it is. *)
LEMMA HearingIdle ==
    ASSUME NEW r \in Receivers, r.mode \in {"stuck", "closed", "negative"}, NEW s \in Seq(Bytes)
    PROVE  Hearing(r, s) = r
<1> DEFINE f == [n \in 0 .. Len(s) |-> r]
<1>1. \A b : Hear(r, b) = r
  BY DEF Hear
<1>2. Track(f, r, s) /\ f[Len(s)] = r
  BY <1>1 DEF Track
<1> HIDE DEF f
<1>3. QED  BY <1>2, HearingIs

-----------------------------------------------------------------------------
(* What the reference makes of a length and of a packet. *)

(* In a length, and in a packet of which `left` bytes are missing. *)
In(h, p) == [mode |-> "prefix", prefix |-> p, left |-> 0, packet |-> <<>>, heard |-> h]
Start(h) == In(h, <<>>)
Taking(h, p, k, q) ==
    [mode |-> "packet", prefix |-> p, left |-> k, packet |-> q, heard |-> h]

LEMMA InType ==
    ASSUME NEW h \in Seq(Commands), NEW p \in Seq(Bytes)
    PROVE  In(h, p) \in Receivers /\ Start(h) \in Receivers
<1>1. <<>> \in Seq(Bytes) /\ 0 \in Int
  OBVIOUS
<1>2. QED  BY <1>1 DEF In, Start, Receivers

LEMMA TakingType ==
    ASSUME NEW h \in Seq(Commands), NEW p \in Seq(Bytes), NEW k \in Int, NEW q \in Seq(Bytes)
    PROVE  Taking(h, p, k, q) \in Receivers
BY DEF Taking, Receivers

LEMMA FrontType ==
    ASSUME NEW s \in Seq(Bytes), NEW n \in 0 .. Len(s)
    PROVE  SubSeq(s, 1, n) \in Seq(Bytes) /\ Len(SubSeq(s, 1, n)) = n
<1>1. \A i \in 1 .. n : s[i] \in Bytes
  OBVIOUS
<1>2. n \in Int /\ 1 \in Int
  OBVIOUS
<1>3. QED  BY <1>1, <1>2, SubSeqProperties

LEMMA FrontAt ==
    ASSUME NEW s \in Seq(Bytes), NEW n \in 0 .. Len(s), NEW i \in 1 .. n
    PROVE  SubSeq(s, 1, n)[i] = s[i]
<1>1. \A j \in 1 .. n : s[j] \in Bytes
  OBVIOUS
<1>2. n \in Int /\ 1 \in Int
  OBVIOUS
<1>3. QED  BY <1>1, <1>2, SubSeqProperties

LEMMA FrontGrows ==
    ASSUME NEW s \in Seq(Bytes), NEW n \in 1 .. Len(s)
    PROVE  Append(SubSeq(s, 1, n - 1), s[n]) = SubSeq(s, 1, n)
<1>1. 1 \in 1 .. Len(s) /\ n \in 1 .. Len(s) /\ s[n] \in Bytes
  OBVIOUS
<1>2. SubSeq(s, 1, n) = SubSeq(s, 1, n - 1) \o <<s[n]>>
  BY <1>1, SubSeqRecursiveSecond
<1>3. n - 1 \in 0 .. Len(s)
  OBVIOUS
<1>4. SubSeq(s, 1, n - 1) \in Seq(Bytes)
  BY <1>3, FrontType
<1>5. QED  BY <1>1, <1>2, <1>4, AppendIsConcat

LEMMA FrontWhole == ASSUME NEW s \in Seq(Bytes) PROVE SubSeq(s, 1, Len(s)) = s
BY SubSeqFull

LEMMA FrontEmpty == ASSUME NEW s PROVE SubSeq(s, 1, 0) = <<>>
<1>1. 0 \in Int /\ 1 \in Int /\ 0 < 1
  OBVIOUS
<1>2. QED  BY <1>1, SubSeqEmpty

LEMMA NextIn ==
    ASSUME NEW h, NEW p, NEW q
    PROVE  [In(h, p) EXCEPT !.prefix = q] = In(h, q)
BY DEF In

(* A length that goes on. *)
LEMMA HearMore ==
    ASSUME NEW h \in Seq(Commands), NEW p \in Seq(Bytes), NEW b \in Bytes, More(b)
    PROVE  Hear(In(h, p), b) = IF Len(p) = 4 THEN [In(h, Append(p, b)) EXCEPT !.mode = "stuck"]
                               ELSE In(h, Append(p, b))
<1>1. Len(Append(p, b)) = 5 <=> Len(p) = 4
  <2> DEFINE n == Len(p)
             m == Len(Append(p, b))
  <2>1. n \in Nat /\ m = n + 1
    BY AppendProperties
  <2> HIDE DEF n, m
  <2>2. m = 5 <=> n = 4
    BY <2>1
  <2>3. QED  BY <2>2 DEF n, m
<1>2. In(h, p).mode = "prefix" /\ In(h, p).prefix = p
  BY DEF In
<1>3. [In(h, p) EXCEPT !.prefix = Append(@, b)] = In(h, Append(p, b))
  BY <1>2, NextIn
<1>4. In(h, Append(p, b)).prefix = Append(p, b)
  BY DEF In
<1>5. Hear(In(h, p), b) = IF Len(Append(p, b)) = 5
                          THEN [In(h, Append(p, b)) EXCEPT !.mode = "stuck"]
                          ELSE In(h, Append(p, b))
  BY <1>2, <1>3, <1>4 DEF Hear
<1>6. QED  BY <1>1, <1>5

(* A length that ends. *)
LEMMA HearLast ==
    ASSUME NEW h \in Seq(Commands), NEW p \in Seq(Bytes), NEW b \in Bytes, ~More(b)
    PROVE  Hear(In(h, p), b) = PrefixEnds(In(h, Append(p, b)))
<1>1. In(h, p).mode = "prefix" /\ In(h, p).prefix = p
  BY DEF In
<1>2. [In(h, p) EXCEPT !.prefix = Append(@, b)] = In(h, Append(p, b))
  BY <1>1, NextIn
<1>3. QED  BY <1>1, <1>2 DEF Hear

AllMore(p) == \A i \in 1 .. Len(p) : More(p[i])

LEMMA LengthGoesOn ==
    ASSUME NEW h \in Seq(Commands), NEW p \in Seq(Bytes), Len(p) <= 4, AllMore(p)
    PROVE  Hearing(Start(h), p) = In(h, p)
<1> DEFINE f == [n \in 0 .. Len(p) |-> In(h, SubSeq(p, 1, n))]
<1>1. f[0] = Start(h)
  BY FrontEmpty DEF Start
<1>2. ASSUME NEW n \in 1 .. Len(p) PROVE f[n] = Hear(f[n - 1], p[n])
  <2>1. /\ SubSeq(p, 1, n - 1) \in Seq(Bytes) /\ Len(SubSeq(p, 1, n - 1)) # 4
        /\ p[n] \in Bytes /\ More(p[n])
    <3>1. n - 1 \in 0 .. Len(p) /\ n - 1 # 4 /\ p[n] \in Bytes
      OBVIOUS
    <3>2. SubSeq(p, 1, n - 1) \in Seq(Bytes) /\ Len(SubSeq(p, 1, n - 1)) = n - 1
      BY <3>1, FrontType
    <3>3. QED  BY <3>1, <3>2 DEF AllMore
  <2>2. Hear(In(h, SubSeq(p, 1, n - 1)), p[n]) = In(h, Append(SubSeq(p, 1, n - 1), p[n]))
    BY <2>1, HearMore
  <2>3. Append(SubSeq(p, 1, n - 1), p[n]) = SubSeq(p, 1, n)
    BY FrontGrows
  <2>4. f[n] = In(h, SubSeq(p, 1, n)) /\ f[n - 1] = In(h, SubSeq(p, 1, n - 1))
    OBVIOUS
  <2> HIDE DEF f
  <2>5. QED  BY <2>2, <2>3, <2>4
<1>3. f[Len(p)] = In(h, p)
  BY FrontWhole
<1> HIDE DEF f
<1>4. Track(f, Start(h), p)
  BY <1>1, <1>2 DEF Track
<1>5. Start(h) \in Receivers
  BY InType
<1>6. QED  BY <1>3, <1>4, <1>5, HearingIs

LEMMA NotEmpty == ASSUME NEW p \in Seq(Bytes), Len(p) \in 1 .. 5 PROVE p # <<>>
<1>1. Len(p) # 0
  OBVIOUS
<1>2. QED  BY <1>1, EmptySeq

(* The last byte of bytes apart. *)
LEMMA LastByte ==
    ASSUME NEW p \in Seq(Bytes), p # <<>>
    PROVE  \E q \in Seq(Bytes), b \in Bytes :
              /\ p = q \o <<b>> /\ p = Append(q, b) /\ Len(p) = Len(q) + 1 /\ b = p[Len(p)]
              /\ \A i \in 1 .. Len(p) - 1 : q[i] = p[i]
<1>1. PICK q \in Seq(Bytes), b \in Bytes : p = Append(q, b)
  BY SequenceEmptyOrAppend
<1>2. QED  BY <1>1, AppendProperties, AppendIsConcat

LEMMA LengthEnds ==
    ASSUME NEW h \in Seq(Commands), NEW p \in Seq(Bytes), Len(p) \in 1 .. 5,
           ~More(p[Len(p)]), \A i \in 1 .. Len(p) - 1 : More(p[i])
    PROVE  Hearing(Start(h), p) = PrefixEnds(In(h, p))
<1>1. p # <<>>
  <2>1. Len(p) \in 1 .. 5
    OBVIOUS
  <2>2. QED  BY <2>1, NotEmpty, Zenon
<1>2. PICK q \in Seq(Bytes), b \in Bytes :
              /\ p = q \o <<b>> /\ p = Append(q, b) /\ Len(p) = Len(q) + 1 /\ b = p[Len(p)]
              /\ \A i \in 1 .. Len(p) - 1 : q[i] = p[i]
  BY <1>1, LastByte
<1>3. Len(q) <= 4 /\ ~More(b) /\ AllMore(q)
  BY <1>2 DEF AllMore
<1>4. Hearing(Start(h), q) = In(h, q)
  BY <1>3, LengthGoesOn
<1>5. <<b>> \in Seq(Bytes) /\ In(h, q) \in Receivers /\ Start(h) \in Receivers
  BY InType
<1>6. Hearing(Start(h), q \o <<b>>) = Hear(In(h, q), b)
  <2>1. Hearing(Start(h), q \o <<b>>) = Hearing(Hearing(Start(h), q), <<b>>)
    BY <1>5, HearingConcat, Zenon
  <2>2. Hearing(In(h, q), <<b>>) = Hear(In(h, q), b)
    BY <1>5, HearingOne, Zenon
  <2>3. QED  BY <1>4, <2>1, <2>2, Zenon
<1>7. Hear(In(h, q), b) = PrefixEnds(In(h, Append(q, b)))
  BY <1>3, HearLast
<1>8. QED  BY <1>2, <1>6, <1>7

LEMMA LengthTooLong ==
    ASSUME NEW h \in Seq(Commands), NEW p \in Seq(Bytes), Len(p) = 5, AllMore(p)
    PROVE  Hearing(Start(h), p) = [In(h, p) EXCEPT !.mode = "stuck"]
<1>1. p # <<>>
  <2>1. Len(p) \in 1 .. 5
    OBVIOUS
  <2>2. QED  BY <2>1, NotEmpty, Zenon
<1>2. PICK q \in Seq(Bytes), b \in Bytes :
              /\ p = q \o <<b>> /\ p = Append(q, b) /\ Len(p) = Len(q) + 1 /\ b = p[Len(p)]
              /\ \A i \in 1 .. Len(p) - 1 : q[i] = p[i]
  BY <1>1, LastByte
<1>3. Len(q) = 4
  <2> DEFINE n == Len(q)
  <2>1. n \in Nat /\ 5 = n + 1
    BY <1>2
  <2> HIDE DEF n
  <2>2. n = 4
    BY <2>1
  <2>3. QED  BY <2>2 DEF n
<1>4. More(b)
  BY <1>2 DEF AllMore
<1>5. AllMore(q)
  BY <1>2, <1>3 DEF AllMore
<1>6. Hearing(Start(h), q) = In(h, q)
  <2>1. Len(q) <= 4
    BY <1>3
  <2>2. QED  BY <1>5, <2>1, LengthGoesOn, Zenon
<1>7. <<b>> \in Seq(Bytes) /\ In(h, q) \in Receivers /\ Start(h) \in Receivers
  BY InType
<1>8. Hearing(Start(h), q \o <<b>>) = Hear(In(h, q), b)
  <2>1. Hearing(Start(h), q \o <<b>>) = Hearing(Hearing(Start(h), q), <<b>>)
    BY <1>7, HearingConcat, Zenon
  <2>2. Hearing(In(h, q), <<b>>) = Hear(In(h, q), b)
    BY <1>7, HearingOne, Zenon
  <2>3. QED  BY <1>6, <2>1, <2>2, Zenon
<1>9. Hear(In(h, q), b) = [In(h, Append(q, b)) EXCEPT !.mode = "stuck"]
  BY <1>3, <1>4, HearMore
<1>10. QED  BY <1>2, <1>8, <1>9

(* A byte of a packet. *)
LEMMA HearPacket ==
    ASSUME NEW h \in Seq(Commands), NEW p \in Seq(Bytes), NEW k \in Int,
           NEW q \in Seq(Bytes), NEW b \in Bytes
    PROVE  Hear(Taking(h, p, k, q), b) =
              IF k = 1 THEN PacketEnds(Taking(h, p, 0, Append(q, b)))
              ELSE Taking(h, p, k - 1, Append(q, b))
<1> DEFINE now == Taking(h, p, k, q)
           next == Taking(h, p, k - 1, Append(q, b))
<1>1. now.mode = "packet" /\ now.packet = q /\ now.left = k /\ next.left = k - 1
  BY DEF Taking
<1>2. [now EXCEPT !.packet = Append(@, b), !.left = @ - 1] = next
  <2> DEFINE t == Append(q, b)
             j == k - 1
  <2> HIDE DEF t, j
  <2>1. [now EXCEPT !.packet = t, !.left = j] = Taking(h, p, j, t)
    <3>1. [Taking(h, p, k, q) EXCEPT !.packet = t] = Taking(h, p, k, t)
      BY DEF Taking
    <3>2. [Taking(h, p, k, t) EXCEPT !.left = j] = Taking(h, p, j, t)
      BY DEF Taking
    <3>3. QED  BY <3>1, <3>2
  <2>2. [now EXCEPT !.packet = Append(q, b), !.left = k - 1] = next
    BY <2>1 DEF t, j
  <2> HIDE DEF now, next
  <2>3. QED  BY <1>1, <2>2
<1> HIDE DEF now, next
<1>3. Hear(now, b) = IF next.left = 0 THEN PacketEnds(next) ELSE next
  BY <1>1, <1>2 DEF Hear
<1>4. k - 1 = 0 <=> k = 1
  OBVIOUS
<1>5. QED  BY <1>1, <1>3, <1>4 DEF now, next

LEMMA PacketGoesOn ==
    ASSUME NEW h \in Seq(Commands), NEW p \in Seq(Bytes), NEW k \in Int,
           NEW t \in Seq(Bytes), Len(t) < k
    PROVE  Hearing(Taking(h, p, k, <<>>), t) = Taking(h, p, k - Len(t), t)
<1> DEFINE f == [n \in 0 .. Len(t) |-> Taking(h, p, k - n, SubSeq(t, 1, n))]
<1>1. f[0] = Taking(h, p, k, <<>>)
  <2>1. f[0] = Taking(h, p, k - 0, SubSeq(t, 1, 0)) /\ k - 0 = k
    OBVIOUS
  <2> HIDE DEF f
  <2>2. QED  BY <2>1, FrontEmpty
<1>2. ASSUME NEW n \in 1 .. Len(t) PROVE f[n] = Hear(f[n - 1], t[n])
  <2>1. SubSeq(t, 1, n - 1) \in Seq(Bytes) /\ t[n] \in Bytes
    <3>1. n - 1 \in 0 .. Len(t) /\ t[n] \in Bytes
      OBVIOUS
    <3>2. QED  BY <3>1, FrontType
  <2>2. k - (n - 1) \in Int /\ k - (n - 1) # 1 /\ (k - (n - 1)) - 1 = k - n
    OBVIOUS
  <2>3. Hear(Taking(h, p, k - (n - 1), SubSeq(t, 1, n - 1)), t[n])
           = Taking(h, p, k - n, Append(SubSeq(t, 1, n - 1), t[n]))
    <3> DEFINE j == k - (n - 1)
               q == SubSeq(t, 1, n - 1)
    <3>1. j \in Int /\ j # 1 /\ j - 1 = k - n /\ q \in Seq(Bytes) /\ t[n] \in Bytes
      BY <2>1, <2>2
    <3> HIDE DEF j, q
    <3>2. Hear(Taking(h, p, j, q), t[n]) = Taking(h, p, j - 1, Append(q, t[n]))
      BY <3>1, HearPacket
    <3>3. QED  BY <3>1, <3>2 DEF j, q
  <2>4. Append(SubSeq(t, 1, n - 1), t[n]) = SubSeq(t, 1, n)
    BY FrontGrows
  <2>5. /\ f[n] = Taking(h, p, k - n, SubSeq(t, 1, n))
        /\ f[n - 1] = Taking(h, p, k - (n - 1), SubSeq(t, 1, n - 1))
    OBVIOUS
  <2> HIDE DEF f
  <2>6. QED  BY <2>3, <2>4, <2>5
<1>3. f[Len(t)] = Taking(h, p, k - Len(t), t)
  <2>1. f[Len(t)] = Taking(h, p, k - Len(t), SubSeq(t, 1, Len(t)))
    OBVIOUS
  <2> HIDE DEF f
  <2>2. QED  BY <2>1, FrontWhole
<1> HIDE DEF f
<1>4. Track(f, Taking(h, p, k, <<>>), t)
  BY <1>1, <1>2 DEF Track
<1>5. Taking(h, p, k, <<>>) \in Receivers
  <2>1. <<>> \in Seq(Bytes)
    OBVIOUS
  <2>2. QED  BY <2>1, TakingType
<1>6. QED  BY <1>3, <1>4, <1>5, HearingIs

LEMMA PacketWhole ==
    ASSUME NEW h \in Seq(Commands), NEW p \in Seq(Bytes), NEW t \in Seq(Bytes), t # <<>>
    PROVE  Hearing(Taking(h, p, Len(t), <<>>), t) = PacketEnds(Taking(h, p, 0, t))
<1>1. PICK q \in Seq(Bytes), b \in Bytes :
              /\ t = q \o <<b>> /\ t = Append(q, b) /\ Len(t) = Len(q) + 1 /\ b = t[Len(t)]
              /\ \A i \in 1 .. Len(t) - 1 : q[i] = t[i]
  BY LastByte
<1>2. Len(t) \in Int /\ Len(q) < Len(t) /\ Len(t) - Len(q) = 1
  BY <1>1
<1>3. Hearing(Taking(h, p, Len(t), <<>>), q) = Taking(h, p, 1, q)
  BY <1>2, PacketGoesOn
<1>4. /\ <<b>> \in Seq(Bytes) /\ Taking(h, p, 1, q) \in Receivers
      /\ Taking(h, p, Len(t), <<>>) \in Receivers
  <2>1. <<>> \in Seq(Bytes) /\ <<b>> \in Seq(Bytes) /\ 1 \in Int
    OBVIOUS
  <2>2. QED  BY <1>2, <2>1, TakingType
<1>5. Hearing(Taking(h, p, Len(t), <<>>), q \o <<b>>) = Hear(Taking(h, p, 1, q), b)
  <2> DEFINE r == Taking(h, p, Len(t), <<>>)
             last == Taking(h, p, 1, q)
  <2> HIDE DEF r, last
  <2>1. Hearing(r, q \o <<b>>) = Hearing(Hearing(r, q), <<b>>)
    BY <1>4, HearingConcat DEF r
  <2>2. Hearing(last, <<b>>) = Hear(last, b)
    BY <1>4, HearingOne DEF last
  <2>3. QED  BY <1>3, <2>1, <2>2 DEF r, last
<1>6. Hear(Taking(h, p, 1, q), b) = PacketEnds(Taking(h, p, 0, Append(q, b)))
  <2>1. 1 \in Int
    OBVIOUS
  <2>2. QED  BY <2>1, HearPacket
<1>7. QED  BY <1>1, <1>5, <1>6

-----------------------------------------------------------------------------
(* A buffer begins with a length, a packet begins after it. *)

LEMMA PacketEndsIs ==
    ASSUME NEW r \in Receivers, r.left = 0, NEW command, command = Parse(r.packet)
    PROVE  /\ command = Illegal => /\ PacketEnds(r).mode = "closed"
                                   /\ PacketEnds(r).heard = r.heard
           /\ command # Illegal /\ Dropped(command) => PacketEnds(r) = Start(r.heard)
           /\ command # Illegal /\ ~Dropped(command)
                => PacketEnds(r) = Start(Append(r.heard, command))
<1>1. PacketEnds(r) = IF command = Illegal THEN [r EXCEPT !.mode = "closed"]
        ELSE [r EXCEPT !.mode = "prefix", !.prefix = <<>>, !.packet = <<>>,
                       !.heard = IF Dropped(command) THEN @ ELSE Append(@, command)]
  BY DEF PacketEnds
<1>2. CASE command = Illegal
  BY <1>1, <1>2 DEF Receivers
<1>3. ASSUME NEW heard
      PROVE  [r EXCEPT !.mode = "prefix", !.prefix = <<>>, !.packet = <<>>, !.heard = heard]
                = Start(heard)
  <2> DEFINE R(m, q, t, w) ==
                [mode |-> m, prefix |-> q, left |-> 0, packet |-> t, heard |-> w]
  <2>1. r = R(r.mode, r.prefix, r.packet, r.heard)
    BY DEF Receivers
  <2>2. [r EXCEPT !.mode = "prefix"] = R("prefix", r.prefix, r.packet, r.heard)
    BY <2>1
  <2>3. [R("prefix", r.prefix, r.packet, r.heard) EXCEPT !.prefix = <<>>]
           = R("prefix", <<>>, r.packet, r.heard)
    OBVIOUS
  <2>4. [R("prefix", <<>>, r.packet, r.heard) EXCEPT !.packet = <<>>]
           = R("prefix", <<>>, <<>>, r.heard)
    OBVIOUS
  <2>5. [R("prefix", <<>>, <<>>, r.heard) EXCEPT !.heard = heard]
           = R("prefix", <<>>, <<>>, heard)
    OBVIOUS
  <2>6. Start(heard) = R("prefix", <<>>, <<>>, heard)
    BY DEF Start, In
  <2> HIDE DEF R
  <2>7. QED  BY <2>2, <2>3, <2>4, <2>5, <2>6
<1>4. CASE command # Illegal /\ Dropped(command)
  <2>1. [r EXCEPT !.mode = "prefix", !.prefix = <<>>, !.packet = <<>>, !.heard = r.heard]
                = Start(r.heard)
    BY <1>3
  <2>2. QED  BY <1>1, <1>4, <2>1
<1>5. CASE command # Illegal /\ ~Dropped(command)
  <2> DEFINE longer == Append(r.heard, command)
  <2>1. [r EXCEPT !.mode = "prefix", !.prefix = <<>>, !.packet = <<>>, !.heard = longer]
                = Start(longer)
    BY <1>3
  <2>2. QED  BY <1>1, <1>5, <2>1
<1>6. QED  BY <1>2, <1>4, <1>5

LEMMA PrefixEndsIs ==
    ASSUME NEW h \in Seq(Commands), NEW p \in Seq(Bytes), NEW size, size = LengthOf(p)
    PROVE  /\ size \in Int
           /\ size > MaxPacketSize => /\ PrefixEnds(In(h, p)).mode = "closed"
                                      /\ PrefixEnds(In(h, p)).heard = h
           /\ size < 0 => /\ PrefixEnds(In(h, p)).mode = "negative"
                          /\ PrefixEnds(In(h, p)).heard = h
           /\ size <= MaxPacketSize /\ size = 0
                => PrefixEnds(In(h, p)) = PacketEnds(In(h, p))
           /\ size <= MaxPacketSize /\ size > 0
                => PrefixEnds(In(h, p)) = Taking(h, p, size, <<>>)
<1>1. size \in Int /\ MaxPacketSize \in Nat
  BY LengthInt, SizesAssumption
<1>2. In(h, p).prefix = p
  BY DEF In
<1>3. PrefixEnds(In(h, p)) =
        CASE size > MaxPacketSize -> [In(h, p) EXCEPT !.mode = "closed"]
          [] size < 0 -> [In(h, p) EXCEPT !.mode = "negative"]
          [] size = 0 -> PacketEnds(In(h, p))
          [] OTHER -> [In(h, p) EXCEPT !.mode = "packet", !.left = size]
  BY <1>2 DEF PrefixEnds
<1>4. /\ [In(h, p) EXCEPT !.mode = "closed"].mode = "closed"
      /\ [In(h, p) EXCEPT !.mode = "closed"].heard = h
      /\ [In(h, p) EXCEPT !.mode = "negative"].mode = "negative"
      /\ [In(h, p) EXCEPT !.mode = "negative"].heard = h
  BY DEF In
<1>5. [In(h, p) EXCEPT !.mode = "packet", !.left = size] = Taking(h, p, size, <<>>)
  <2>1. [In(h, p) EXCEPT !.mode = "packet"] = Taking(h, p, 0, <<>>)
    BY DEF In, Taking
  <2>2. [Taking(h, p, 0, <<>>) EXCEPT !.left = size] = Taking(h, p, size, <<>>)
    BY DEF Taking
  <2>3. QED  BY <2>1, <2>2
<1>6. CASE size > MaxPacketSize
  <2>1. ~(size < 0) /\ size # 0
    BY <1>1, <1>6
  <2>2. PrefixEnds(In(h, p)) = [In(h, p) EXCEPT !.mode = "closed"]
    BY <1>3, <1>6, <2>1
  <2>3. QED  BY <1>1, <1>4, <1>6, <2>1, <2>2
<1>7. CASE size < 0
  <2>1. ~(size > MaxPacketSize) /\ size # 0 /\ ~(size > 0)
    BY <1>1, <1>7
  <2>2. PrefixEnds(In(h, p)) = [In(h, p) EXCEPT !.mode = "negative"]
    BY <1>3, <1>7, <2>1
  <2>3. QED  BY <1>1, <1>4, <1>7, <2>1, <2>2
<1>8. CASE size <= MaxPacketSize /\ size = 0
  <2>1. ~(size > MaxPacketSize) /\ ~(size < 0)
    BY <1>1, <1>8
  <2>2. PrefixEnds(In(h, p)) = PacketEnds(In(h, p))
    BY <1>3, <1>8, <2>1
  <2>3. QED  BY <1>1, <1>8, <2>1, <2>2
<1>9. CASE size <= MaxPacketSize /\ size > 0
  <2>1. ~(size > MaxPacketSize) /\ ~(size < 0) /\ size # 0
    BY <1>1, <1>9
  <2>2. PrefixEnds(In(h, p)) = [In(h, p) EXCEPT !.mode = "packet", !.left = size]
    BY <1>3, <1>9, <2>1
  <2>3. QED  BY <1>1, <1>5, <1>9, <2>1, <2>2
<1>10. QED  BY <1>1, <1>6, <1>7, <1>8, <1>9

LEMMA RestType ==
    ASSUME NEW s \in Seq(Bytes), NEW n \in 0 .. Len(s)
    PROVE  From(s, n + 1) \in Seq(Bytes) /\ Len(From(s, n + 1)) = Len(s) - n
<1>1. /\ \A i \in n + 1 .. Len(s) : s[i] \in Bytes
      /\ n + 1 \in Int /\ Len(s) \in Int
  OBVIOUS
<1>2. /\ SubSeq(s, n + 1, Len(s)) \in Seq(Bytes)
      /\ Len(SubSeq(s, n + 1, Len(s))) = IF n + 1 <= Len(s) THEN Len(s) - (n + 1) + 1 ELSE 0
  BY <1>1, SubSeqProperties
<1>3. QED  BY <1>1, <1>2 DEF From

LEMMA Divided ==
    ASSUME NEW s \in Seq(Bytes), NEW n \in 0 .. Len(s)
    PROVE  s = SubSeq(s, 1, n) \o From(s, n + 1)
<1>1. /\ 1 \in 1 .. Len(s) + 1 /\ n \in 1 - 1 .. Len(s)
      /\ Len(s) \in n .. Len(s)
  OBVIOUS
<1>2. SubSeq(s, 1, n) \o SubSeq(s, n + 1, Len(s)) = SubSeq(s, 1, Len(s))
  BY <1>1, ConcatAdjacentSubSeq
<1>3. QED  BY <1>2, FrontWhole DEF From

(* What is heard of a buffer that begins with a length. *)
LEMMA LengthRead ==
    ASSUME NEW b \in Seq(Bytes), NEW h \in Seq(Commands), ReadULEB(b) = "read",
           NEW n, n = UlebBytes(b), NEW p, p = SubSeq(b, 1, n)
    PROVE  /\ n \in 1 .. 5 /\ n \in 0 .. Len(b)
           /\ p \in Seq(Bytes) /\ PacketLength(b) = LengthOf(p) /\ LengthOf(p) \in Int
           /\ From(b, n + 1) \in Seq(Bytes) /\ PrefixEnds(In(h, p)) \in Receivers
           /\ Hearing(Start(h), b) = Hearing(PrefixEnds(In(h, p)), From(b, n + 1))
<1>1. n \in 1 .. 5
  BY DEF ReadULEB
<1>2. /\ n \in 0 .. Len(b) /\ ~More(b[n]) /\ \A i \in 1 .. n - 1 : More(b[i])
  <2>1. /\ UlebBytes(b) \in 0 .. Len(b)
        /\ UlebBytes(b) # 0 => ~More(b[UlebBytes(b)])
        /\ UlebBytes(b) # 0 => \A i \in 1 .. UlebBytes(b) - 1 : More(b[i])
    BY UlebFound, Zenon
  <2>2. n # 0
    BY <1>1
  <2>3. QED  BY <2>1, <2>2
<1>3. p \in Seq(Bytes) /\ Len(p) = n
  BY <1>2, FrontType
<1>4. \A i \in 1 .. n : p[i] = b[i]
  BY <1>2, FrontAt
<1>5. /\ Len(p) \in 1 .. 5 /\ ~More(p[Len(p)])
      /\ \A i \in 1 .. Len(p) - 1 : More(p[i])
  BY <1>1, <1>2, <1>3, <1>4
<1>6. Hearing(Start(h), p) = PrefixEnds(In(h, p))
  BY <1>3, <1>5, LengthEnds
<1>7. Start(h) \in Receivers
  BY InType
<1>8. From(b, n + 1) \in Seq(Bytes)
  BY <1>2, RestType
<1>9. b = p \o From(b, n + 1)
  BY <1>2, Divided
<1>10. Hearing(Start(h), p \o From(b, n + 1)) = Hearing(Hearing(Start(h), p), From(b, n + 1))
  BY <1>3, <1>7, <1>8, HearingConcat
<1>11. Hearing(Start(h), b) = Hearing(PrefixEnds(In(h, p)), From(b, n + 1))
  BY <1>6, <1>9, <1>10
<1>12. PrefixEnds(In(h, p)) \in Receivers
  BY <1>3, <1>6, <1>7, HearingTrack
<1>13. PacketLength(b) = LengthOf(p) /\ LengthOf(p) \in Int
  BY <1>3, LengthInt DEF PacketLength
<1>14. QED  BY <1>1, <1>2, <1>3, <1>8, <1>11, <1>12, <1>13

(* A buffer in which nothing can be taken is one heard without a word. *)
LEMMA NothingToTake ==
    ASSUME NEW b \in Seq(Bytes), NEW h \in Seq(Commands), ~TooLarge(b), ~Complete(b)
    PROVE  /\ Hearing(Start(h), b).mode \notin {"closed", "negative"}
           /\ Hearing(Start(h), b).heard = h
<1>1. CASE ReadULEB(b) = "read"
  <2> DEFINE n == UlebBytes(b)
             p == SubSeq(b, 1, n)
             t == From(b, n + 1)
             v == LengthOf(p)
  <2>1. /\ n \in 1 .. 5 /\ n \in 0 .. Len(b)
        /\ p \in Seq(Bytes) /\ PacketLength(b) = v /\ v \in Int
        /\ t \in Seq(Bytes)
        /\ Hearing(Start(h), b) = Hearing(PrefixEnds(In(h, p)), t)
    BY <1>1, LengthRead
  <2>2. Len(t) = Len(b) - n
    BY <2>1, RestType
  <2>3. v <= MaxPacketSize /\ Len(b) < n + v
    BY <1>1, <2>1, SizesAssumption DEF TooLarge, Complete
  <2>4. v > 0 /\ Len(t) < v
    BY <2>1, <2>2, <2>3
  <2>5. PrefixEnds(In(h, p)) = Taking(h, p, v, <<>>)
    BY <2>1, <2>3, <2>4, PrefixEndsIs
  <2> HIDE DEF n, p, t, v
  <2>6. Hearing(Taking(h, p, v, <<>>), t) = Taking(h, p, v - Len(t), t)
    BY <2>1, <2>4, PacketGoesOn
  <2>7. Hearing(Start(h), b) = Taking(h, p, v - Len(t), t)
    BY <2>1, <2>5, <2>6
  <2>8. QED  BY <2>7 DEF Taking
<1>2. CASE ReadULEB(b) = "incomplete"
  <2>1. Len(b) <= 4 /\ UlebBytes(b) \notin 1 .. 5
    BY <1>2 DEF ReadULEB
  <2>2. UlebBytes(b) \in 0 .. Len(b)
    BY UlebFound, Zenon
  <2>3. UlebBytes(b) = 0
    BY <2>1, <2>2
  <2>4. AllMore(b)
    BY <2>3, UlebFound, Zenon DEF AllMore
  <2>5. Hearing(Start(h), b) = In(h, b)
    BY <2>1, <2>4, LengthGoesOn
  <2>6. QED  BY <2>5 DEF In
<1>3. CASE ReadULEB(b) = "invalid"
  <2> DEFINE p == SubSeq(b, 1, 5)
             t == From(b, 5 + 1)
             stuck == [In(h, p) EXCEPT !.mode = "stuck"]
  <2>1. Len(b) >= 5 /\ UlebBytes(b) \notin 1 .. 5
    BY <1>3 DEF ReadULEB
  <2>2. \A i \in 1 .. 5 : More(b[i])
    <3>1. CASE UlebBytes(b) = 0
      <4>1. \A i \in 1 .. Len(b) : More(b[i])
        BY <3>1, UlebFound, Zenon
      <4>2. QED  BY <2>1, <4>1
    <3>2. CASE UlebBytes(b) # 0
      <4>1. UlebBytes(b) \in 0 .. Len(b) /\ \A i \in 1 .. UlebBytes(b) - 1 : More(b[i])
        BY <3>2, UlebFound, Zenon
      <4>2. QED  BY <2>1, <3>2, <4>1
    <3>3. QED  BY <3>1, <3>2
  <2>3. 5 \in 0 .. Len(b)
    BY <2>1
  <2>4. /\ p \in Seq(Bytes) /\ Len(p) = 5 /\ t \in Seq(Bytes)
        /\ b = p \o t
    BY <2>3, FrontType, RestType, Divided
  <2>5. AllMore(p)
    <3>1. \A i \in 1 .. 5 : p[i] = b[i]
      BY <2>3, FrontAt
    <3> HIDE DEF p
    <3>2. QED  BY <2>2, <2>4, <3>1 DEF AllMore
  <2> HIDE DEF p, t
  <2>6. Hearing(Start(h), p) = stuck
    BY <2>4, <2>5, LengthTooLong
  <2>7. Start(h) \in Receivers
    BY InType
  <2>8. Hearing(Start(h), b) = Hearing(stuck, t) /\ stuck \in Receivers
    <3>1. Hearing(Start(h), p) \in Receivers
      BY <2>4, <2>7, HearingTrack, Zenon
    <3>2. Hearing(Start(h), p \o t) = Hearing(Hearing(Start(h), p), t)
      BY <2>4, <2>7, HearingConcat
    <3> HIDE DEF stuck
    <3>3. QED  BY <2>4, <2>6, <3>1, <3>2
  <2>9. stuck.mode = "stuck" /\ stuck.heard = h
    BY DEF In
  <2> HIDE DEF stuck
  <2>10. Hearing(stuck, t) = stuck
    BY <2>4, <2>8, <2>9, HearingIdle
  <2>11. QED  BY <2>8, <2>9, <2>10
<1>4. QED  BY <1>1, <1>2, <1>3 DEF ReadULEB

(* A length above the limit closes the connection. *)
LEMMA TooLargeHeard ==
    ASSUME NEW b \in Seq(Bytes), NEW h \in Seq(Commands), TooLarge(b)
    PROVE  /\ Hearing(Start(h), b).mode = "closed"
           /\ Hearing(Start(h), b).heard = h
<1> DEFINE n == UlebBytes(b)
           p == SubSeq(b, 1, n)
           t == From(b, n + 1)
           closed == PrefixEnds(In(h, p))
<1>1. ReadULEB(b) = "read" /\ PacketLength(b) > MaxPacketSize
  BY DEF TooLarge
<1>2. /\ p \in Seq(Bytes) /\ PacketLength(b) = LengthOf(p) /\ t \in Seq(Bytes)
      /\ closed \in Receivers
      /\ Hearing(Start(h), b) = Hearing(closed, t)
  BY <1>1, LengthRead
<1>3. LengthOf(p) > MaxPacketSize
  BY <1>1, <1>2
<1>4. closed.mode = "closed" /\ closed.heard = h
  BY <1>2, <1>3, PrefixEndsIs
<1> HIDE DEF closed, t
<1>5. Hearing(closed, t) = closed
  BY <1>2, <1>4, HearingIdle
<1>6. QED  BY <1>2, <1>4, <1>5

(* w is a receiver that, after what it heard as h, heard the packet and    *)
(* then the rest.                                                          *)
HeardAs(h, packet, rest, w) ==
    \E r \in Receivers : /\ r.left = 0 /\ r.heard = h /\ r.packet = packet
                         /\ w = Hearing(PacketEnds(r), rest)

(* What is cut off the buffer, by the length that is in front of it. *)
LEMMA PacketCut ==
    ASSUME NEW b \in Seq(Bytes), Complete(b)
    PROVE  /\ PacketEnd(b) \in 0 .. Len(b) /\ PacketLength(b) \in Int
           /\ PacketLength(b) >= 0 => PacketEnd(b) = UlebBytes(b) + PacketLength(b)
           /\ FirstPacket(b) \in Seq(Bytes) /\ BehindPacket(b) \in Seq(Bytes)
           /\ FirstPacket(b) # <<>> \/ PacketLength(b) >= 0
                => Len(BehindPacket(b)) < Len(b)
<1> DEFINE n == UlebBytes(b)
           v == PacketLength(b)
           e == PacketEnd(b)
<1>1. ReadULEB(b) = "read" /\ Len(b) >= n + v
  BY DEF Complete
<1>2. n \in 1 .. 5 /\ n \in 0 .. Len(b) /\ v \in Int
  <2>1. <<>> \in Seq(Commands)
    OBVIOUS
  <2>2. QED  BY <1>1, <2>1, LengthRead
<1>3. e = IF n + v >= 0 THEN n + v ELSE IF Len(b) + (n + v) > 0 THEN Len(b) + (n + v) ELSE 0
  BY DEF PacketEnd, Index
<1>4. Len(b) \in Nat
  OBVIOUS
<1> HIDE DEF n, v, e
<1>5. e \in 0 .. Len(b) /\ (v >= 0 => e = n + v)
  BY <1>1, <1>2, <1>3, <1>4
<1>6. BehindPacket(b) \in Seq(Bytes) /\ Len(BehindPacket(b)) = Len(b) - e
  BY <1>5, RestType DEF BehindPacket, e
<1>7. /\ FirstPacket(b) \in Seq(Bytes)
      /\ Len(FirstPacket(b)) = IF n + 1 <= e THEN e - (n + 1) + 1 ELSE 0
  <2>1. n + 1 \in Int /\ e \in Int /\ \A i \in n + 1 .. e : b[i] \in Bytes
    BY <1>2, <1>5
  <2>2. FirstPacket(b) = SubSeq(b, n + 1, e)
    BY DEF FirstPacket, n, e
  <2>3. QED  BY <2>1, <2>2, SubSeqProperties
<1>8. FirstPacket(b) # <<>> \/ v >= 0 => e >= 1
  <2>1. CASE v >= 0
    BY <1>2, <1>5, <2>1
  <2>2. CASE FirstPacket(b) # <<>>
    <3>1. Len(FirstPacket(b)) # 0
      BY <1>7, <2>2, EmptySeq
    <3>2. n + 1 <= e
      BY <1>7, <3>1
    <3>3. QED  BY <1>2, <1>5, <3>2
  <2>3. QED  BY <2>1, <2>2
<1>9. FirstPacket(b) # <<>> \/ v >= 0 => Len(BehindPacket(b)) < Len(b)
  BY <1>4, <1>5, <1>6, <1>8
<1>10. QED  BY <1>2, <1>5, <1>6, <1>7, <1>9 DEF n, v, e

(* A negative length: the receiver gives up. *)
LEMMA NegativeHeard ==
    ASSUME NEW b \in Seq(Bytes), NEW h \in Seq(Commands), ReadULEB(b) = "read",
           PacketLength(b) < 0
    PROVE  /\ Hearing(Start(h), b).mode = "negative"
           /\ Hearing(Start(h), b).heard = h
<1> DEFINE n == UlebBytes(b)
           p == SubSeq(b, 1, n)
           t == From(b, n + 1)
           lost == PrefixEnds(In(h, p))
<1>1. /\ p \in Seq(Bytes) /\ PacketLength(b) = LengthOf(p) /\ t \in Seq(Bytes)
      /\ lost \in Receivers
      /\ Hearing(Start(h), b) = Hearing(lost, t)
  BY LengthRead
<1>2. LengthOf(p) < 0
  BY <1>1
<1>3. lost.mode = "negative" /\ lost.heard = h
  BY <1>1, <1>2, PrefixEndsIs
<1> HIDE DEF lost, t
<1>4. Hearing(lost, t) = lost
  BY <1>1, <1>3, HearingIdle
<1>5. QED  BY <1>1, <1>3, <1>4

(* A complete packet is heard as such, and then what comes behind it. *)
LEMMA PacketTaken ==
    ASSUME NEW b \in Seq(Bytes), NEW h \in Seq(Commands), ~TooLarge(b), Complete(b),
           PacketLength(b) >= 0,
           NEW packet, packet = FirstPacket(b), NEW rest, rest = BehindPacket(b)
    PROVE  HeardAs(h, packet, rest, Hearing(Start(h), b))
<1> DEFINE n == UlebBytes(b)
           p == SubSeq(b, 1, n)
           t == From(b, n + 1)
           v == LengthOf(p)
           size == n + v
<1>1. ReadULEB(b) = "read" /\ Len(b) >= n + PacketLength(b)
  BY DEF Complete
<1>2. /\ n \in 1 .. 5 /\ n \in 0 .. Len(b)
      /\ p \in Seq(Bytes) /\ PacketLength(b) = v /\ v \in Int /\ t \in Seq(Bytes)
      /\ PrefixEnds(In(h, p)) \in Receivers
      /\ Hearing(Start(h), b) = Hearing(PrefixEnds(In(h, p)), t)
  BY <1>1, LengthRead
<1>3. /\ v >= 0 /\ v <= MaxPacketSize /\ size \in 0 .. Len(b) /\ size >= 1
      /\ packet = SubSeq(b, n + 1, size) /\ rest = From(b, size + 1)
  <2>1. v >= 0 /\ v <= MaxPacketSize /\ size \in 0 .. Len(b) /\ size >= 1
    BY <1>1, <1>2, SizesAssumption DEF TooLarge
  <2>2. PacketEnd(b) = size
    BY <1>2, PacketCut
  <2>3. QED  BY <2>1, <2>2 DEF FirstPacket, BehindPacket
<1>4. Len(t) = Len(b) - n
  BY <1>2, RestType
<1>5. rest \in Seq(Bytes) /\ Len(rest) = Len(b) - size
  BY <1>3, RestType
<1>6. packet \in Seq(Bytes) /\ Len(packet) = v /\ t = packet \o rest
  <2>1. /\ n + 1 \in 1 .. Len(b) + 1 /\ size \in (n + 1) - 1 .. Len(b) /\ Len(b) \in size .. Len(b)
        /\ n + 1 \in Int /\ size \in Int /\ \A i \in n + 1 .. size : b[i] \in Bytes
    BY <1>2, <1>3
  <2>2. SubSeq(b, n + 1, size) \o SubSeq(b, size + 1, Len(b)) = SubSeq(b, n + 1, Len(b))
    BY <2>1, ConcatAdjacentSubSeq
  <2>3. /\ SubSeq(b, n + 1, size) \in Seq(Bytes)
        /\ Len(SubSeq(b, n + 1, size)) = IF n + 1 <= size THEN size - (n + 1) + 1 ELSE 0
    BY <2>1, SubSeqProperties
  <2>4. (IF n + 1 <= size THEN size - (n + 1) + 1 ELSE 0) = v
    BY <1>2, <1>3
  <2>5. QED  BY <1>3, <2>2, <2>3, <2>4 DEF From
<1>7. CASE v = 0
  <2> DEFINE r == In(h, p)
  <2>1. PrefixEnds(In(h, p)) = PacketEnds(r)
    BY <1>2, <1>3, <1>7, PrefixEndsIs
  <2>2. packet = <<>>
    BY <1>6, <1>7, EmptySeq
  <2>3. t = rest
    BY <1>5, <1>6, <2>2, ConcatEmptySeq
  <2>4. r \in Receivers /\ r.left = 0 /\ r.heard = h /\ r.packet = packet
    BY <1>2, <2>2, InType DEF In
  <2> HIDE DEF r
  <2>5. Hearing(Start(h), b) = Hearing(PacketEnds(r), rest)
    BY <1>2, <2>1, <2>3
  <2>6. QED  BY <2>4, <2>5 DEF HeardAs
<1>8. CASE v # 0
  <2> DEFINE r == Taking(h, p, 0, packet)
             first == Taking(h, p, v, <<>>)
  <2>1. PrefixEnds(In(h, p)) = first
    <3>1. v > 0
      BY <1>2, <1>3, <1>8
    <3>2. QED  BY <1>2, <1>3, <3>1, PrefixEndsIs
  <2>2. packet # <<>>
    <3>1. Len(packet) # 0
      BY <1>6, <1>8
    <3>2. QED  BY <1>6, <3>1, EmptySeq
  <2>3. Hearing(first, packet) = PacketEnds(r)
    BY <1>2, <1>6, <2>2, PacketWhole
  <2>4. r \in Receivers /\ r.left = 0 /\ r.heard = h /\ r.packet = packet
    <3>1. 0 \in Int
      OBVIOUS
    <3>2. r \in Receivers
      BY <1>2, <1>6, <3>1, TakingType
    <3>3. QED  BY <3>2 DEF Taking
  <2> HIDE DEF r, first
  <2>5. Hearing(first, packet \o rest) = Hearing(Hearing(first, packet), rest)
    BY <1>2, <1>5, <1>6, <2>1, HearingConcat
  <2>6. Hearing(Start(h), b) = Hearing(PacketEnds(r), rest)
    BY <1>2, <1>6, <2>1, <2>3, <2>5
  <2>7. QED  BY <2>4, <2>6 DEF HeardAs
<1>9. QED  BY <1>7, <1>8

-----------------------------------------------------------------------------
(* The loop of processPackets. *)
Conns == [open : BOOLEAN, handled : Seq(Commands), buffer : Seq(Bytes)]

(* The loop is through with the buffer. *)
Through(conn) == ~conn.open \/ (~TooLarge(conn.buffer) /\ ~Complete(conn.buffer))

(* The connection is where a receiver w is that heard the whole stream, as *)
(* soon as this one has heard what is left in the buffer; or w gave up.    *)
Agrees(conn, w) ==
    \/ w.mode = "negative" /\ IsPrefix(w.heard, conn.handled)
    \/ IF conn.open THEN Hearing(Start(conn.handled), conn.buffer) = w
       ELSE w.mode = "closed" /\ w.heard = conn.handled

LEMMA PrefixOfItself == ASSUME NEW s PROVE IsPrefix(s, s)
BY DEF IsPrefix

LEMMA PrefixStays ==
    ASSUME NEW S, NEW s \in Seq(S), NEW t \in Seq(S), IsPrefix(s, t), NEW x \in S
    PROVE  IsPrefix(s, Append(t, x))
<1> DEFINE n == Len(s)
           m == Len(t)
           u == Append(t, x)
<1>1. /\ n \in Nat /\ m \in Nat /\ n <= m /\ SubSeq(s, 1, n) = SubSeq(t, 1, n)
  BY DEF IsPrefix
<1>2. /\ u \in Seq(S) /\ Len(u) = m + 1 /\ \A i \in 1 .. m : u[i] = t[i]
  BY AppendProperties
<1>3. SubSeq(u, 1, n) = SubSeq(t, 1, n)
  <2>1. /\ 1 \in Int /\ n \in Int
        /\ \A i \in 1 .. n : u[i] \in S /\ t[i] \in S /\ u[i] = t[i]
    BY <1>1, <1>2
  <2> HIDE DEF u, n
  <2>2. SubSeq(u, 1, n) = [i \in 1 .. n |-> u[i]]
    BY <1>1, <2>1
  <2>3. SubSeq(t, 1, n) = [i \in 1 .. n |-> t[i]]
    BY <1>1, <2>1
  <2>4. QED  BY <2>1, <2>2, <2>3
<1>4. n <= m + 1
  BY <1>1
<1>5. QED  BY <1>1, <1>2, <1>3, <1>4 DEF IsPrefix

(* A round that takes a packet: less is left, or the connection is closed. *)
LEMMA TakenType ==
    ASSUME NEW conn \in Conns, conn.open, Complete(conn.buffer)
    PROVE  /\ TakePacket(conn) \in Conns
           /\ \/ ~TakePacket(conn).open
              \/ Len(TakePacket(conn).buffer) < Len(conn.buffer)
           /\ \/ TakePacket(conn).handled = conn.handled
              \/ \E c \in Commands : TakePacket(conn).handled = Append(conn.handled, c)
<1> DEFINE b == conn.buffer
           h == conn.handled
           packet == FirstPacket(b)
           rest == BehindPacket(b)
           command == Parse(packet)
<1>1. b \in Seq(Bytes) /\ h \in Seq(Commands) /\ conn.open \in BOOLEAN /\ FALSE \in BOOLEAN
  BY DEF Conns
<1>2. /\ packet \in Seq(Bytes) /\ rest \in Seq(Bytes)
      /\ packet # <<>> => Len(rest) < Len(b)
  BY <1>1, PacketCut
<1>3. command \in Commands /\ (packet = <<>> => command = Illegal)
  BY <1>2 DEF Commands, Parse
<1>4. Append(h, command) \in Seq(Commands)
  BY <1>1, <1>3, AppendProperties
<1>5. TakePacket(conn) =
        CASE command = Illegal -> [conn EXCEPT !.open = FALSE, !.buffer = rest]
          [] Dropped(command) -> [conn EXCEPT !.buffer = rest]
          [] OTHER -> [conn EXCEPT !.buffer = rest, !.handled = Append(h, command)]
  BY DEF TakePacket
<1> HIDE DEF packet, rest, command
<1>6. CASE command = Illegal
  <2>1. ~Dropped(command)
    BY <1>6 DEF Dropped, Illegal
  <2>2. TakePacket(conn) = [conn EXCEPT !.open = FALSE, !.buffer = rest]
    BY <1>5, <1>6, <2>1
  <2> DEFINE x == [conn EXCEPT !.open = FALSE]
             next == [x EXCEPT !.buffer = rest]
  <2>3. TakePacket(conn) = next
    BY <2>2, Zenon
  <2>4. x \in Conns /\ ~x.open /\ x.handled = h
    BY <1>1 DEF Conns
  <2> HIDE DEF x
  <2>5. next \in Conns /\ ~next.open /\ next.handled = h
    BY <1>2, <2>4 DEF Conns
  <2> HIDE DEF next
  <2>6. QED  BY <2>3, <2>5
<1>7. ASSUME command # Illegal, NEW h2 \in Seq(Commands),
             h2 = h \/ h2 = Append(h, command),
             TakePacket(conn) = [conn EXCEPT !.buffer = rest, !.handled = h2]
      PROVE  /\ TakePacket(conn) \in Conns /\ Len(TakePacket(conn).buffer) < Len(b)
             /\ TakePacket(conn).handled = h2
  <2> DEFINE x == [conn EXCEPT !.buffer = rest]
             next == [x EXCEPT !.handled = h2]
  <2>1. TakePacket(conn) = next
    BY <1>7, Zenon
  <2>2. x \in Conns /\ x.buffer = rest
    BY <1>2 DEF Conns
  <2> HIDE DEF x
  <2>3. next \in Conns /\ next.handled = h2 /\ next.buffer = rest
    BY <1>7, <2>2 DEF Conns
  <2> HIDE DEF next
  <2>4. Len(rest) < Len(b)
    BY <1>2, <1>3, <1>7
  <2>5. QED  BY <2>1, <2>3, <2>4
<1>8. CASE command # Illegal /\ Dropped(command)
  <2>1. TakePacket(conn) = [conn EXCEPT !.buffer = rest]
    BY <1>5, <1>8
  <2>2. [conn EXCEPT !.buffer = rest] = [conn EXCEPT !.buffer = rest, !.handled = h]
    BY DEF Conns
  <2>3. QED  BY <1>1, <1>7, <1>8, <2>1, <2>2
<1>9. CASE command # Illegal /\ ~Dropped(command)
  <2> DEFINE h2 == Append(h, command)
  <2>1. TakePacket(conn) = [conn EXCEPT !.buffer = rest, !.handled = h2]
    BY <1>5, <1>9
  <2>2. h2 \in Seq(Commands) /\ h2 = Append(h, command)
    BY <1>4
  <2> HIDE DEF h2
  <2>3. /\ TakePacket(conn) \in Conns /\ Len(TakePacket(conn).buffer) < Len(b)
        /\ TakePacket(conn).handled = h2
    BY <1>7, <1>9, <2>1, <2>2
  <2>4. QED  BY <1>3, <2>2, <2>3
<1>10. QED  BY <1>6, <1>8, <1>9

LEMMA TakenAgrees ==
    ASSUME NEW conn \in Conns, NEW w \in Receivers, Agrees(conn, w), conn.open,
           ~TooLarge(conn.buffer), Complete(conn.buffer)
    PROVE  Agrees(TakePacket(conn), w)
<1> DEFINE b == conn.buffer
           h == conn.handled
           packet == FirstPacket(b)
           rest == BehindPacket(b)
           command == Parse(packet)
<1>0. TakePacket(conn) \in Conns
  BY TakenType
<1>1. b \in Seq(Bytes) /\ h \in Seq(Commands) /\ conn.open \in BOOLEAN /\ FALSE \in BOOLEAN
  BY DEF Conns
<1>2. ReadULEB(b) = "read" /\ PacketLength(b) \in Int
  BY <1>1, PacketCut DEF Complete
(* w gave up before, or does so at this length ... *)
<1>3. CASE (w.mode = "negative" /\ IsPrefix(w.heard, h)) \/ PacketLength(b) < 0
  <2>1. w.mode = "negative" /\ IsPrefix(w.heard, h)
    <3>1. CASE ~(w.mode = "negative" /\ IsPrefix(w.heard, h))
      <4>1. Hearing(Start(h), b) = w /\ PacketLength(b) < 0
        BY <1>3, <3>1 DEF Agrees
      <4>2. w.mode = "negative" /\ w.heard = h
        BY <1>1, <1>2, <4>1, NegativeHeard
      <4>3. QED  BY <4>2, PrefixOfItself
    <3>2. QED  BY <3>1
  <2>2. w.heard \in Seq(Commands)
    BY DEF Receivers
  <2>3. IsPrefix(w.heard, TakePacket(conn).handled)
    <3>1. CASE TakePacket(conn).handled = h
      BY <2>1, <3>1
    <3>2. ASSUME NEW c \in Commands, TakePacket(conn).handled = Append(h, c)
          PROVE  IsPrefix(w.heard, TakePacket(conn).handled)
      BY <1>1, <2>1, <2>2, <3>2, PrefixStays
    <3>3. QED  BY <3>1, <3>2, TakenType
  <2>4. QED  BY <2>1, <2>3 DEF Agrees
(* ... or hears the packet. *)
<1>4. CASE ~(w.mode = "negative" /\ IsPrefix(w.heard, h)) /\ PacketLength(b) >= 0
  <2>1. w = Hearing(Start(h), b)
    BY <1>4 DEF Agrees
  <2>2. /\ packet \in Seq(Bytes) /\ rest \in Seq(Bytes)
        /\ HeardAs(h, packet, rest, Hearing(Start(h), b))
    <3>1. packet \in Seq(Bytes) /\ rest \in Seq(Bytes)
      BY <1>1, PacketCut
    <3>2. /\ packet = FirstPacket(b) /\ rest = BehindPacket(b)
          /\ ~TooLarge(b) /\ Complete(b) /\ PacketLength(b) >= 0
      BY <1>4
    <3> HIDE DEF b, h, packet, rest
    <3>3. HeardAs(h, packet, rest, Hearing(Start(h), b))
      BY <1>1, <3>2, PacketTaken, Zenon
    <3>4. QED  BY <3>1, <3>3
  <2>3. PICK r \in Receivers :
           /\ r.left = 0 /\ r.heard = h /\ r.packet = packet
           /\ Hearing(Start(h), b) = Hearing(PacketEnds(r), rest)
    BY <2>2, Zenon DEF HeardAs
  <2>4. w = Hearing(PacketEnds(r), rest) /\ PacketEnds(r) \in Receivers
    BY <2>1, <2>3, PacketEndsType
  <2>5. command = Parse(r.packet) /\ command \in Commands
    BY <2>2, <2>3 DEF Commands
  <2>6. TakePacket(conn) =
        CASE command = Illegal -> [conn EXCEPT !.open = FALSE, !.buffer = rest]
          [] Dropped(command) -> [conn EXCEPT !.buffer = rest]
          [] OTHER -> [conn EXCEPT !.buffer = rest, !.handled = Append(h, command)]
    BY DEF TakePacket
  <2> HIDE DEF packet, rest, command
  <2>7. CASE command = Illegal
    <3>1. ~Dropped(command)
      BY <2>7 DEF Dropped, Illegal
    <3>2. TakePacket(conn) = [conn EXCEPT !.open = FALSE, !.buffer = rest]
      BY <2>6, <2>7, <3>1
    <3>3. ~TakePacket(conn).open /\ TakePacket(conn).handled = h
      BY <1>1, <3>2 DEF Conns
    <3>4. PacketEnds(r).mode = "closed" /\ PacketEnds(r).heard = h
      BY <2>3, <2>5, <2>7, PacketEndsIs
    <3>5. w = PacketEnds(r)
      BY <2>2, <2>4, <3>4, HearingIdle
    <3>6. QED  BY <3>3, <3>4, <3>5 DEF Agrees
  <2>8. ASSUME NEW h2 \in Seq(Commands), PacketEnds(r) = Start(h2),
               TakePacket(conn) = [conn EXCEPT !.buffer = rest, !.handled = h2]
        PROVE  Agrees(TakePacket(conn), w)
    <3> DEFINE x == [conn EXCEPT !.buffer = rest]
               next == [x EXCEPT !.handled = h2]
    <3>1. TakePacket(conn) = next
      BY <2>8, Zenon
    <3>2. x \in Conns /\ x.open = conn.open /\ x.buffer = rest
      BY <2>2 DEF Conns
    <3> HIDE DEF x
    <3>3. next.open = conn.open /\ next.handled = h2 /\ next.buffer = rest
      BY <2>8, <3>2 DEF Conns
    <3> HIDE DEF next
    <3>4. next.open
      BY <3>3
    <3>5. Agrees(next, w)
      BY <2>4, <2>8, <3>3, <3>4 DEF Agrees
    <3>6. QED  BY <3>1, <3>5
  <2>9. CASE command # Illegal /\ Dropped(command)
    <3>1. PacketEnds(r) = Start(h)
      BY <2>3, <2>5, <2>9, PacketEndsIs
    <3>2. TakePacket(conn) = [conn EXCEPT !.buffer = rest]
      BY <2>6, <2>9
    <3>3. [conn EXCEPT !.buffer = rest] = [conn EXCEPT !.buffer = rest, !.handled = h]
      BY DEF Conns
    <3>4. QED  BY <1>1, <2>8, <3>1, <3>2, <3>3
  <2>10. CASE command # Illegal /\ ~Dropped(command)
    <3> DEFINE h2 == Append(h, command)
    <3>1. PacketEnds(r) = Start(h2)
      BY <2>3, <2>5, <2>10, PacketEndsIs
    <3>2. TakePacket(conn) = [conn EXCEPT !.buffer = rest, !.handled = h2]
      BY <2>6, <2>10
    <3>3. h2 \in Seq(Commands)
      BY <1>1, <2>5, AppendProperties
    <3> HIDE DEF h2
    <3>4. QED  BY <2>8, <3>1, <3>2, <3>3
  <2>11. QED  BY <2>7, <2>9, <2>10
<1>5. QED  BY <1>2, <1>3, <1>4

LEMMA RoundAgrees ==
    ASSUME NEW conn \in Conns, NEW w \in Receivers, Agrees(conn, w)
    PROVE  /\ ProcessPacket(conn) \in Conns /\ Agrees(ProcessPacket(conn), w)
           /\ Through(conn) => ProcessPacket(conn) = conn
           /\ \/ Through(ProcessPacket(conn))
              \/ Len(ProcessPacket(conn).buffer) < Len(conn.buffer)
<1>1. conn.buffer \in Seq(Bytes) /\ conn.handled \in Seq(Commands) /\ conn.open \in BOOLEAN
  BY DEF Conns
<1>2. CASE Through(conn)
  <2>1. ProcessPacket(conn) = conn
    BY <1>2 DEF ProcessPacket, Through
  <2>2. QED  BY <1>2, <2>1
<1>3. CASE conn.open /\ TooLarge(conn.buffer)
  <2> DEFINE next == [conn EXCEPT !.open = FALSE]
  <2>1. ProcessPacket(conn) = next
    BY <1>3 DEF ProcessPacket
  <2>2. next \in Conns /\ ~next.open /\ next.handled = conn.handled
    <3>1. FALSE \in BOOLEAN
      OBVIOUS
    <3>2. QED  BY <3>1 DEF Conns
  <2> HIDE DEF next
  <2>3. Agrees(next, w)
    BY <1>1, <1>3, <2>2, TooLargeHeard DEF Agrees
  <2>4. Through(next)
    BY <2>2 DEF Through
  <2>5. ~Through(conn)
    BY <1>3, Zenon DEF Through
  <2>6. QED  BY <2>1, <2>2, <2>3, <2>4, <2>5
<1>4. CASE conn.open /\ ~TooLarge(conn.buffer) /\ Complete(conn.buffer)
  <2>1. ProcessPacket(conn) = TakePacket(conn) /\ ~Through(conn)
    BY <1>4 DEF ProcessPacket, Through
  <2>2. /\ TakePacket(conn) \in Conns /\ Agrees(TakePacket(conn), w)
        /\ \/ ~TakePacket(conn).open
           \/ Len(TakePacket(conn).buffer) < Len(conn.buffer)
    BY <1>4, TakenType, TakenAgrees
  <2>3. QED  BY <2>1, <2>2 DEF Through
<1>5. QED  BY <1>2, <1>3, <1>4, Zenon DEF Through

LEMMA LoopAgrees ==
    ASSUME NEW conn \in Conns, NEW w \in Receivers, Agrees(conn, w)
    PROVE  /\ ProcessPackets(conn) \in Conns /\ Agrees(ProcessPackets(conn), w)
           /\ Through(ProcessPackets(conn))
<1> DEFINE N == Len(conn.buffer)
           Good == {x \in Conns : Agrees(x, w)}
           step == [n \in 1 .. N |-> [x \in Good |-> ProcessPacket(x)]]
           Rec(f) == f = [n \in 0 .. N |-> IF n = 0 THEN conn ELSE ProcessPacket(f[n - 1])]
           c == CHOOSE f : Rec(f)
<1>1. N \in Nat /\ conn \in Good
  BY DEF Conns
<1>2. ASSUME NEW n \in 1 .. N, NEW x \in Good
      PROVE  step[n][x] = ProcessPacket(x) /\ ProcessPacket(x) \in Good
  BY RoundAgrees
<1>3. StaysIn(Good, N, step)
  <2> HIDE DEF step, Good
  <2>1. QED  BY <1>2 DEF StaysIn
<1>4. PICK f \in [0 .. N -> Good] : Follows(f, conn, Good, N, step)
  <2> HIDE DEF step, Good, N
  <2>1. QED  BY <1>1, <1>3, LoopRuns, Zenon
<1>5. Rec(f)
  <2>1. f[0] = conn
    BY <1>4 DEF Follows
  <2>2. ASSUME NEW n \in 1 .. N PROVE f[n] = ProcessPacket(f[n - 1])
    <3> HIDE DEF Good
    <3>1. f[n - 1] \in Good
      OBVIOUS
    <3> HIDE DEF step
    <3>2. f[n] = step[n][f[n - 1]]
      BY <1>4, <3>1 DEF Follows
    <3>3. QED  BY <1>2, <3>1, <3>2
  <2> HIDE DEF Good
  <2>3. QED  BY <2>1, <2>2
<1>6. Rec(c)
  <2> HIDE DEF Rec
  <2>1. QED  BY <1>5
<1>7. ProcessPackets(conn) = c[N]
  BY DEF ProcessPackets
<1> HIDE DEF c
<1>8. c[0] = conn /\ \A n \in 1 .. N : c[n] = ProcessPacket(c[n - 1])
  <2> HIDE DEF N
  <2>1. QED  BY <1>1, <1>6
<1> DEFINE Left(k) == c[k] \in Good /\ (Through(c[k]) \/ Len(c[k].buffer) <= N - k)
           T == {k \in Nat : k <= N => Left(k)}
<1>9. 0 \in T
  BY <1>1, <1>8
<1>10. ASSUME NEW k \in Nat, k \in T PROVE k + 1 \in T
  <2>1. SUFFICES ASSUME k + 1 <= N PROVE Left(k + 1)
    OBVIOUS
  <2> DEFINE x == c[k]
  <2>2. /\ x \in Conns /\ Agrees(x, w)
        /\ Through(x) \/ Len(x.buffer) <= N - k
    BY <1>10, <2>1
  <2>3. c[k + 1] = ProcessPacket(x)
    BY <1>1, <1>8, <2>1
  <2> HIDE DEF x
  <2>4. /\ ProcessPacket(x) \in Conns /\ Agrees(ProcessPacket(x), w)
        /\ Through(x) => ProcessPacket(x) = x
        /\ Through(ProcessPacket(x)) \/ Len(ProcessPacket(x).buffer) < Len(x.buffer)
    BY <2>2, RoundAgrees
  <2>5. Len(ProcessPacket(x).buffer) \in Nat /\ Len(x.buffer) \in Nat
    BY <2>2, <2>4 DEF Conns
  <2>6. Through(ProcessPacket(x)) \/ Len(ProcessPacket(x).buffer) <= N - (k + 1)
    BY <1>1, <2>2, <2>4, <2>5
  <2>7. QED  BY <2>3, <2>4, <2>6
<1>11. N \in T
  <2> HIDE DEF T
  <2>1. QED  BY <1>1, <1>9, <1>10, Counting
<1>12. c[N] \in Conns /\ Agrees(c[N], w) /\ (Through(c[N]) \/ Len(c[N].buffer) <= 0)
  BY <1>1, <1>11
<1>13. ASSUME Len(c[N].buffer) <= 0 PROVE Through(c[N])
  <2>1. c[N].buffer \in Seq(Bytes)
    BY <1>12 DEF Conns
  <2>2. Len(c[N].buffer) = 0
    BY <1>13, <2>1
  <2>3. UlebBytes(c[N].buffer) \in 0 .. Len(c[N].buffer)
    BY <2>1, UlebFound, Zenon
  <2>4. UlebBytes(c[N].buffer) = 0
    BY <2>2, <2>3
  <2>5. QED  BY <2>2, <2>4 DEF Through, TooLarge, Complete, ReadULEB
<1>14. QED  BY <1>7, <1>12, <1>13

-----------------------------------------------------------------------------
(* The data handler. *)

(* The inductive invariant: an open connection has taken out all there is, *)
(* and a receiver that goes on from what was handled, with what is in the  *)
(* buffer, is where one is that heard the whole stream, or that one gave   *)
(* up.                                                                     *)
FInv ==
    /\ stream \in Seq(Bytes) /\ buffer \in Seq(Bytes)
    /\ handled \in Seq(Commands) /\ open \in BOOLEAN
    /\ version = <<>> => stream = <<>> /\ buffer = <<>> /\ handled = <<>> /\ open
    /\ \/ Heard.mode = "negative" /\ IsPrefix(Heard.heard, handled)
       \/ /\ version # <<>> /\ open => Hearing(Start(handled), buffer) = Heard
          /\ ~open => Heard.mode = "closed" /\ Heard.heard = handled
    /\ open => ~TooLarge(buffer) /\ ~Complete(buffer)

LEMMA FreshType == Fresh \in Receivers /\ Fresh.mode = "version" /\ Fresh.heard = <<>>
<1>1. <<>> \in Seq(Bytes) /\ <<>> \in Seq(Commands) /\ 0 \in Int
  OBVIOUS
<1>2. QED  BY <1>1 DEF Fresh, Receivers

LEMMA EmptyBuffer == ~TooLarge(<<>>) /\ ~Complete(<<>>)
<1>1. <<>> \in Seq(Bytes) /\ Len(<<>>) = 0
  OBVIOUS
<1>2. UlebBytes(<<>>) \in 0 .. Len(<<>>)
  BY <1>1, UlebFound, Zenon
<1>3. UlebBytes(<<>>) \notin 1 .. 5
  BY <1>1, <1>2
<1>4. QED  BY <1>3 DEF TooLarge, Complete, ReadULEB

LEMMA FInvInit == Init => FInv
<1>1. <<>> \in Seq(Bytes) /\ <<>> \in Seq(Commands) /\ TRUE \in BOOLEAN
  OBVIOUS
<1>2. QED  BY <1>1, EmptyBuffer DEF Init, FInv

(* Before a version byte nothing counts; after it, packets begin. *)
LEMMA VersionHeard ==
    ASSUME NEW s \in Seq(Bytes), s # <<>>
    PROVE  Tail(s) \in Seq(Bytes) /\ Hearing(Fresh, s) = Hearing(Start(<<>>), Tail(s))
<1>1. 1 \in 1 .. Len(s) /\ Len(s) \in 1 .. Len(s) /\ s[1] \in Bytes /\ 1 \in 0 .. Len(s)
  <2>1. Len(s) # 0
    BY EmptySeq
  <2>2. QED  BY <2>1
<1>2. Tail(s) = From(s, 2) /\ Tail(s) \in Seq(Bytes)
  BY TailIsSubSeq, HeadTailProperties DEF From
<1>3. s = SubSeq(s, 1, 1) \o From(s, 1 + 1)
  BY <1>1, Divided
<1>4. SubSeq(s, 1, 1) = <<s[1]>>
  <2>1. Append(SubSeq(s, 1, 1 - 1), s[1]) = SubSeq(s, 1, 1)
    BY <1>1, FrontGrows, Zenon
  <2>2. SubSeq(s, 1, 1 - 1) = <<>>
    <3>1. 1 - 1 = 0
      OBVIOUS
    <3>2. QED  BY <3>1, FrontEmpty, Zenon
  <2>3. Append(<<>>, s[1]) = <<s[1]>>
    OBVIOUS
  <2>4. QED  BY <2>1, <2>2, <2>3, Zenon
<1>5. s = <<s[1]>> \o Tail(s)
  BY <1>2, <1>3, <1>4
<1>6. Hear(Fresh, s[1]) = Start(<<>>)
  <2>1. Hear(Fresh, s[1]) = [Fresh EXCEPT !.mode = "prefix"]
    BY FreshType DEF Hear
  <2>2. QED  BY <2>1 DEF Fresh, Start, In
<1>7. <<s[1]>> \in Seq(Bytes)
  BY <1>1
<1>8. Hearing(Fresh, <<s[1]>> \o Tail(s)) = Hearing(Hearing(Fresh, <<s[1]>>), Tail(s))
  BY <1>2, <1>7, FreshType, HearingConcat
<1>9. Hearing(Fresh, <<s[1]>>) = Hear(Fresh, s[1])
  BY <1>1, FreshType, HearingOne
<1>10. QED  BY <1>2, <1>5, <1>6, <1>8, <1>9

LEMMA FInvData ==
    ASSUME FInv, NEW chunk \in Seq(Bytes), chunk # <<>>, Data(chunk)
    PROVE  FInv'
<1> DEFINE all == buffer \o chunk
           rest == IF version = <<>> THEN Tail(all) ELSE all
           conn == [open |-> TRUE, handled |-> handled, buffer |-> rest]
           after == ProcessPackets(conn)
<1>1. /\ stream \in Seq(Bytes) /\ buffer \in Seq(Bytes) /\ handled \in Seq(Commands) /\ open
      /\ version = <<>> => stream = <<>> /\ buffer = <<>> /\ handled = <<>>
      /\ \/ Heard.mode = "negative" /\ IsPrefix(Heard.heard, handled)
         \/ version # <<>> => Hearing(Start(handled), buffer) = Heard
  BY DEF FInv, Data
<1>2. /\ stream' = stream \o chunk /\ version' # <<>>
      /\ buffer' = after.buffer /\ open' = after.open /\ handled' = after.handled
  BY DEF Data
<1>3. stream' \in Seq(Bytes) /\ all \in Seq(Bytes)
  BY <1>1, <1>2, ConcatProperties
<1>4. Fresh \in Receivers /\ Hearing(Fresh, stream') \in Receivers
  BY <1>3, FreshType, HearingTrack
<1>5. Hearing(Fresh, stream') = Hearing(Heard, chunk) /\ Heard \in Receivers
  <2>1. Hearing(Fresh, stream \o chunk) = Hearing(Hearing(Fresh, stream), chunk)
    BY <1>1, <1>4, HearingConcat
  <2>2. Hearing(Fresh, stream) \in Receivers
    BY <1>1, <1>4, HearingTrack
  <2>3. QED  BY <1>2, <2>1, <2>2 DEF Heard
<1> DEFINE w == Hearing(Fresh, stream')
           Goal == /\ rest \in Seq(Bytes)
                   /\ \/ w.mode = "negative" /\ IsPrefix(w.heard, handled)
                      \/ Hearing(Start(handled), rest) = w
<1>6. ASSUME version = <<>> PROVE Goal
  <2>1. all = chunk /\ stream' = chunk
    BY <1>1, <1>2, <1>6, ConcatEmptySeq
  <2>2. rest = Tail(chunk) /\ handled = <<>>
    BY <1>1, <1>6, <2>1
  <2>3. QED  BY <2>1, <2>2, VersionHeard
<1>7. ASSUME version # <<>> PROVE Goal
  <2>1. rest = all
    BY <1>7
  <2>2. CASE Heard.mode = "negative" /\ IsPrefix(Heard.heard, handled)
    <3>1. Hearing(Heard, chunk) = Heard
      BY <1>5, <2>2, HearingIdle
    <3>2. QED  BY <1>3, <1>5, <2>1, <2>2, <3>1
  <2>3. CASE Hearing(Start(handled), buffer) = Heard
    <3>1. Start(handled) \in Receivers
      <4>1. <<>> \in Seq(Bytes)
        OBVIOUS
      <4>2. QED  BY <1>1, <4>1, InType
    <3>2. Hearing(Start(handled), all) = Hearing(Hearing(Start(handled), buffer), chunk)
      BY <1>1, <3>1, HearingConcat
    <3>3. QED  BY <1>3, <1>5, <2>1, <2>3, <3>2
  <2>4. QED  BY <1>1, <1>7, <2>2, <2>3
<1>8. Goal
  BY <1>6, <1>7
<1> HIDE DEF rest, w
<1>9. conn \in Conns /\ conn.open /\ conn.handled = handled /\ conn.buffer = rest
  <2>1. TRUE \in BOOLEAN
    OBVIOUS
  <2>2. QED  BY <1>1, <1>8, <2>1 DEF Conns
<1> HIDE DEF conn
<1>10. Agrees(conn, w) /\ w \in Receivers
  BY <1>4, <1>8, <1>9 DEF Agrees, w
<1>11. after \in Conns /\ Agrees(after, w) /\ Through(after)
  BY <1>9, <1>10, LoopAgrees
<1> HIDE DEF after
<1>12. buffer' \in Seq(Bytes) /\ handled' \in Seq(Commands) /\ open' \in BOOLEAN
  BY <1>2, <1>11 DEF Conns
<1>13. open' => ~TooLarge(buffer') /\ ~Complete(buffer')
  BY <1>2, <1>11, Zenon DEF Through
<1>14. \/ w.mode = "negative" /\ IsPrefix(w.heard, handled')
       \/ /\ open' => Hearing(Start(handled'), buffer') = w
          /\ ~open' => w.mode = "closed" /\ w.heard = handled'
  BY <1>2, <1>11, Zenon DEF Agrees
<1>15. Heard' = w
  BY DEF Heard, w
<1>16. QED  BY <1>2, <1>3, <1>12, <1>13, <1>14, <1>15 DEF FInv

LEMMA FInvNext == FInv /\ [Next]_vars => FInv'
<1> SUFFICES ASSUME FInv, [Next]_vars PROVE FInv'
  OBVIOUS
<1>1. CASE Next
  <2>1. PICK n \in 1 .. (MaxStream - Len(stream)) :
           \E chunk \in [1 .. n -> Bytes] : Data(chunk)
    BY <1>1 DEF Next
  <2>2. PICK chunk \in [1 .. n -> Bytes] : Data(chunk)
    BY <2>1
  <2>3. n \in Nat /\ n # 0
    BY <2>1 DEF FInv
  <2>4. chunk \in Seq(Bytes) /\ Len(chunk) = n
    BY <2>2, <2>3
  <2>5. chunk # <<>>
    BY <2>3, <2>4, EmptySeq
  <2>6. QED  BY <2>2, <2>4, <2>5, FInvData
<1>2. CASE UNCHANGED vars
  <2>1. /\ stream' = stream /\ version' = version /\ buffer' = buffer
        /\ open' = open /\ handled' = handled
    BY <1>2 DEF vars
  <2>2. QED  BY <2>1 DEF FInv, Heard
<1>3. QED  BY <1>1, <1>2

THEOREM FInvAlways == Spec => []FInv
BY FInvInit, FInvNext, PTL DEF Spec

(* However TCP cuts a stream of any bytes and any length, the data handler *)
(* and its loop (processPackets) handle the commands that a receiver of    *)
(* single bytes hears, in their order, and close the connection if that    *)
(* receiver would; of a stream with a negative length, the commands before *)
(* it are the first ones handled.                                          *)
THEOREM CuttingIrrelevant == Spec => []ChunkingIrrelevant
<1>1. FInv => ChunkingIrrelevant
  <2> SUFFICES ASSUME FInv PROVE ChunkingIrrelevant
    OBVIOUS
  <2>1. CASE version = <<>>
    <3>1. Heard = Fresh
      <4>1. stream = <<>>
        BY <2>1 DEF FInv
      <4>2. QED  BY <4>1, FreshType, HearingNothing DEF Heard
    <3>2. Fresh.mode \notin {"closed", "negative"}
      BY FreshType
    <3>3. handled = <<>> /\ open
      BY <2>1 DEF FInv
    <3>4. open = (Heard.mode # "closed")
      BY <3>1, <3>2, <3>3 DEF FInv
    <3>5. QED  BY <3>1, <3>2, <3>3, <3>4, FreshType DEF ChunkingIrrelevant
  <2>2. CASE Heard.mode = "negative" /\ IsPrefix(Heard.heard, handled)
    BY <2>2 DEF ChunkingIrrelevant
  <2>3. CASE open /\ Hearing(Start(handled), buffer) = Heard
    <3>1. /\ Hearing(Start(handled), buffer).mode \notin {"closed", "negative"}
          /\ Hearing(Start(handled), buffer).heard = handled
      BY <2>3, NothingToTake DEF FInv
    <3>2. open = (Heard.mode # "closed")
      BY <2>3, <3>1 DEF FInv
    <3>3. QED  BY <2>3, <3>1, <3>2 DEF ChunkingIrrelevant
  <2>4. CASE ~open /\ Heard.mode = "closed" /\ Heard.heard = handled
    <3>1. open = (Heard.mode # "closed")
      BY <2>4 DEF FInv
    <3>2. QED  BY <2>4, <3>1 DEF ChunkingIrrelevant
  <2>5. QED  BY <2>1, <2>2, <2>3, <2>4 DEF FInv
<1>2. QED  BY <1>1, FInvAlways, PTL

(* The buffer of an open connection is a packet cut short (processPackets  *)
(* leaves nothing complete behind), for any limit and any stream: a        *)
(* negative length, too, is complete at once.  Excepted is what the        *)
(* property excepts, the prefix that is too long.                          *)
THEOREM BufferAlwaysBounded == Spec => []BufferBounded
<1>1. FInv => BufferBounded
  <2> SUFFICES ASSUME FInv, open PROVE BufferBounded
    BY DEF BufferBounded
  <2>1. buffer \in Seq(Bytes) /\ ~TooLarge(buffer) /\ ~Complete(buffer)
    BY DEF FInv
  <2>2. CASE ReadULEB(buffer) = "read"
    <3> DEFINE n == UlebBytes(buffer)
               v == PacketLength(buffer)
    <3>1. n \in 0 .. Len(buffer) /\ v \in Int
      <4>1. n \in 0 .. Len(buffer)
        BY <2>1, UlebFound, Zenon
      <4>2. SubSeq(buffer, 1, n) \in Seq(Bytes)
        BY <2>1, <4>1, FrontType
      <4>3. QED  BY <4>1, <4>2, LengthInt DEF PacketLength
    <3>2. ~(v > MaxPacketSize) /\ ~(Len(buffer) >= n + v)
      BY <2>1, <2>2 DEF TooLarge, Complete
    <3>3. Len(buffer) < n + MaxPacketSize
      BY <2>1, <3>1, <3>2, SizesAssumption
    <3>4. QED  BY <2>2, <3>3 DEF BufferBounded
  <2>3. CASE ReadULEB(buffer) = "incomplete"
    <3>1. Len(buffer) < 5
      BY <2>3 DEF ReadULEB
    <3>2. QED  BY <2>3, <3>1 DEF BufferBounded
  <2>4. CASE ReadULEB(buffer) \notin {"read", "incomplete"}
    BY <2>4 DEF BufferBounded
  <2>5. QED  BY <2>2, <2>3, <2>4
<1>2. QED  BY <1>1, FInvAlways, PTL
=============================================================================
