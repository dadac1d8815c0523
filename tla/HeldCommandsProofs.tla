------------------------- MODULE HeldCommandsProofs -------------------------
(***************************************************************************)
(* Proofs about HeldCommands, for any number of channels, X-Plane commands *)
(* and requests: X-Plane's count of every command is accounted for, and a  *)
(* command that finishes by itself has run as often as it was asked to.    *)
(***************************************************************************)
EXTENDS HeldCommands, TLAPS, FiniteSetTheorems, WellFoundedInduction

-----------------------------------------------------------------------------
(* The parts of the inductive invariant. *)

Exists(c) == cmd[c] # NoCommand

\* The schedule is locked exactly while tasks run, and only then is there
\* something left to run.
Locked ==
  /\ schedule = "xp" <=> xp.pc = "run"
  /\ schedule = "post" <=> post.pc \in {"run", "release"}
  /\ xp.pc # "run" => xp.todo = {}
  /\ post.pc \notin {"run", "release"} => post.todo = {}

\* The schedule has the commands that think they are scheduled.
Scheduled ==
  /\ \A c \in Channels : c \in tasks <=> Exists(c) /\ cmd[c].task
  /\ xp.todo \subseteq tasks /\ post.todo \subseteq tasks

\* A channel has a command; once its destruction is requested that is idle.
ChannelsAgree ==
  \A c \in Channels :
    /\ chan[c].state = "none" <=> cmd[c] = NoCommand
    /\ chan[c].doomed => Exists(c) /\ ~cmd[c].task

\* The command that post-processing releases is still there, and unscheduled.
PostAgrees ==
  post.pc = "release" => post.at \in Channels /\ Exists(post.at) /\ ~cmd[post.at].task

\* So is the one that goes with its session.
NetAgrees ==
  /\ net.pc # "watch" => life # "live"
  /\ net.pc = "next" => net.at \in Channels
  /\ net.pc \in {"unschedule", "release", "destroy"} => net.at \in Channels /\ Exists(net.at)
  /\ net.pc \in {"release", "destroy"} => ~cmd[net.at].task

\* A command that has not begun anything, or has ended it, holds nothing.
HoldingIsMarked(k) ==
  /\ k.req.kind = "CMTR" /\ ~k.holding => k.held = {}
  /\ k.req.kind = "CMHD" /\ ~k.init => k.held = {}

\* Rounds that were run and rounds that are left make up what was asked for.
RoundsAddUp(k) ==
  /\ k.req.times > 0 => k.times >= 0 /\ k.rounds + k.times >= k.req.times
  /\ k.finishing => k.rounds >= k.req.times

CommandsAgree == \A c \in Channels : Exists(c) => HoldingIsMarked(cmd[c]) /\ RoundsAddUp(cmd[c])

\* Every begin is held, queued for its end or given up.
Accounted ==
  \A x \in XPCommands : begun[x] = Held(Channels, x) + Queued(x) + abandoned[x]

IInv ==
  /\ TypeOK
  /\ Locked /\ Scheduled /\ ChannelsAgree /\ PostAgrees /\ NetAgrees
  /\ CommandsAgree /\ Accounted

-----------------------------------------------------------------------------
(* The naturals: induction by their least members. *)

\* Every set of naturals has a smallest member.
LEMMA Smallest == ASSUME NEW S, S \subseteq Nat, S # {}
                  PROVE  \E m \in S : \A k \in S : m <= k
<1>1. PICK m \in S : \A k \in S : ~(<<k, m>> \in OpToRel(<, Nat))
  <2> HIDE DEF OpToRel
  <2> QED BY NatLessThanWellFounded, WFMin, Zenon
<1>2. \A k \in S : ~(k < m)  BY <1>1 DEF OpToRel
<1> QED BY <1>2

\* A set with 0 that goes from each member to the next has all naturals.
LEMMA AllNaturals == ASSUME NEW S, 0 \in S, \A n \in Nat : n \in S => n + 1 \in S
                     PROVE  Nat \subseteq S
<1> SUFFICES ASSUME Nat \ S # {} PROVE FALSE  OBVIOUS
<1>1. PICK m \in Nat \ S : \A k \in Nat \ S : m <= k
  <2>1. Nat \ S \subseteq Nat  OBVIOUS
  <2> QED BY <2>1, Smallest
<1>2. m # 0 /\ m - 1 \in Nat /\ m - 1 < m  OBVIOUS
<1>3. m - 1 \in S  BY <1>1, <1>2
<1>4. (m - 1) + 1 \in S  BY <1>2, <1>3
<1> QED BY <1>4, <1>2

-----------------------------------------------------------------------------
(* Counting. *)

\* Sets without a common member add up.
LEMMA CountApart ==
  ASSUME NEW S, NEW T, IsFiniteSet(S), IsFiniteSet(T), S \cap T = {}
  PROVE  IsFiniteSet(S \cup T) /\ Cardinality(S \cup T) = Cardinality(S) + Cardinality(T)
<1>1. Cardinality(S) \in Nat /\ Cardinality(T) \in Nat  BY FS_CardinalityType
<1>2. Cardinality(S \cap T) = 0  BY FS_EmptySet
<1>3. IsFiniteSet(S \cup T) /\ Cardinality(S \cup T) = Cardinality(S) + Cardinality(T) - Cardinality(S \cap T)
  BY FS_Union
<1> QED BY <1>1, <1>2, <1>3

\* A function that is one to one keeps the count.
LEMMA CountRenamed ==
  ASSUME NEW S, IsFiniteSet(S), NEW f, DOMAIN f = S, f = [s \in S |-> f[s]],
         \A s, t \in S : f[s] = f[t] => s = t
  PROVE  IsFiniteSet({f[s] : s \in S}) /\ Cardinality({f[s] : s \in S}) = Cardinality(S)
<1> DEFINE T == {f[s] : s \in S}
<1>1. f \in Surjection(S, T)  BY DEF Surjection
<1>2. f \in Injection(S, T)
  <2>1. f \in [S -> T]  OBVIOUS
  <2> QED BY <2>1 DEF Injection, IsInjective
<1> HIDE DEF T
<1>3. IsFiniteSet(T) /\ (Cardinality(T) = Cardinality(S) <=> f \in Injection(S, T))
  BY <1>1, FS_Surjection
<1> QED BY <1>2, <1>3 DEF T

\* How often x is in a sequence.
Occurs(q, x) == Cardinality({j \in DOMAIN q : q[j] = x})

\* The count in a sequence is a natural.
LEMMA OccursType == ASSUME NEW q \in Seq(XPCommands), NEW x
                    PROVE  /\ IsFiniteSet({j \in DOMAIN q : q[j] = x})
                           /\ Occurs(q, x) \in Nat
<1>1. IsFiniteSet(1..Len(q))  BY FS_Interval
<1>2. {j \in DOMAIN q : q[j] = x} \in SUBSET (1..Len(q))  OBVIOUS
<1>3. IsFiniteSet({j \in DOMAIN q : q[j] = x})  BY <1>1, <1>2, FS_Subset
<1> QED BY <1>3, FS_CardinalityType DEF Occurs

\* One sequence after the other: the counts add up.
LEMMA OccursAfter ==
  ASSUME NEW p \in Seq(XPCommands), NEW q \in Seq(XPCommands), NEW x
  PROVE  p \o q \in Seq(XPCommands) /\ Occurs(p \o q, x) = Occurs(p, x) + Occurs(q, x)
<1> DEFINE P == {j \in DOMAIN p : p[j] = x}
           Q == {j \in DOMAIN q : q[j] = x}
           R == {j \in DOMAIN (p \o q) : (p \o q)[j] = x}
           f == [j \in Q |-> j + Len(p)]
           T == {f[j] : j \in Q}
<1>1. /\ p \o q \in Seq(XPCommands)
      /\ Len(p) \in Nat /\ Len(q) \in Nat
      /\ DOMAIN p = 1..Len(p) /\ DOMAIN q = 1..Len(q) /\ DOMAIN (p \o q) = 1..(Len(p) + Len(q))
      /\ \A j \in 1..Len(p) : (p \o q)[j] = p[j]
      /\ \A j \in 1..Len(q) : (p \o q)[j + Len(p)] = q[j]
  OBVIOUS
<1>2. IsFiniteSet(P) /\ IsFiniteSet(Q)  BY OccursType
<1>3. IsFiniteSet(T) /\ Cardinality(T) = Cardinality(Q)
  <2>1. \A s, t \in Q : f[s] = f[t] => s = t  BY <1>1
  <2>2. DOMAIN f = Q /\ f = [s \in Q |-> f[s]]  OBVIOUS
  <2> HIDE DEF Q, f
  <2> QED BY <2>1, <2>2, <1>2, CountRenamed
<1>4. \A t \in T : t \in (1 + Len(p))..(Len(p) + Len(q)) /\ (p \o q)[t] = x
  <2> SUFFICES ASSUME NEW j \in Q
               PROVE  f[j] \in (1 + Len(p))..(Len(p) + Len(q)) /\ (p \o q)[f[j]] = x
    OBVIOUS
  <2>1. f[j] = j + Len(p) /\ j \in 1..Len(q) /\ q[j] = x  BY <1>1
  <2>2. j + Len(p) \in (1 + Len(p))..(Len(p) + Len(q)) /\ (p \o q)[j + Len(p)] = x  BY <1>1, <2>1
  <2> QED BY <2>1, <2>2
<1>40. P \cap T = {}
  <2>1. \A t \in P : t <= Len(p)  BY <1>1
  <2> HIDE DEF P, T
  <2> QED BY <2>1, <1>4, <1>1
<1>5. R = P \cup T
  <2>1. ASSUME NEW j \in R PROVE j \in P \/ j \in T
    <3>1. CASE j \in 1..Len(p)  BY <3>1, <1>1
    <3>2. CASE ~(j <= Len(p))
      <4>1. j - Len(p) \in 1..Len(q) /\ (j - Len(p)) + Len(p) = j  BY <3>2, <1>1
      <4>2. j - Len(p) \in Q  BY <4>1, <1>1
      <4> QED BY <4>1, <4>2
    <3> QED BY <3>1, <3>2, <1>1
  <2>2. P \subseteq R  BY <1>1
  <2>3. T \subseteq R
    <3> HIDE DEF T
    <3> QED BY <1>4, <1>1
  <2> QED BY <2>1, <2>2, <2>3
<1>6. Cardinality(R) = Cardinality(P) + Cardinality(T)
  <2> HIDE DEF P, T, R
  <2> QED BY <1>2, <1>3, <1>40, <1>5, CountApart
<1> QED BY <1>1, <1>3, <1>6 DEF Occurs

\* A sequence of one.
LEMMA OccursOnce == ASSUME NEW e \in XPCommands, NEW x
                    PROVE  /\ <<e>> \in Seq(XPCommands)
                           /\ Occurs(<<e>>, x) = IF e = x THEN 1 ELSE 0
<1>1. CASE e = x
  <2>1. {j \in DOMAIN <<e>> : <<e>>[j] = x} = {1}  BY <1>1
  <2> QED BY <1>1, <2>1, FS_Singleton DEF Occurs
<1>2. CASE e # x
  <2>1. {j \in DOMAIN <<e>> : <<e>>[j] = x} = {}  BY <1>2
  <2> QED BY <1>2, <2>1, FS_EmptySet DEF Occurs
<1> QED BY <1>1, <1>2

\* Nothing is in the empty sequence.
LEMMA OccursNever == ASSUME NEW x
                     PROVE  << >> \in Seq(XPCommands) /\ Occurs(<< >>, x) = 0
<1>1. {j \in DOMAIN << >> : << >>[j] = x} = {}  OBVIOUS
<1> QED BY <1>1, FS_EmptySet DEF Occurs

-----------------------------------------------------------------------------
(* The entries of a command. *)

\* What a command is made of.
LEMMA CommandIs == ASSUME NEW k \in CommandRecords
                   PROVE  /\ k.req \in Requests
                          /\ k.req.entries \in Seq(XPCommands) /\ Len(k.req.entries) \in Nat
                          /\ Entries(k) \subseteq Nat
                          /\ \A i \in Entries(k) : k.req.entries[i] \in XPCommands
                          /\ IsFiniteSet(Entries(k))
<1>1. k.req \in Requests  BY DEF CommandRecords
<1>2. k.req.entries \in Seq(XPCommands)  BY <1>1, HeldCommandsAssumption
<1>3. Len(k.req.entries) \in Nat /\ \A i \in 1..Len(k.req.entries) : k.req.entries[i] \in XPCommands
  BY <1>2
<1>4. IsFiniteSet(1..Len(k.req.entries))  BY <1>3, FS_Interval
<1> QED BY <1>1, <1>2, <1>3, <1>4 DEF Entries

\* A command is none of the values that stand for no command.
LEMMA CommandIsNotNone == NoCommand \notin CommandRecords
<1> SUFFICES ASSUME NoCommand \in CommandRecords PROVE FALSE  OBVIOUS
<1>1. DOMAIN NoCommand = {"req"}  BY DEF NoCommand
<1>2. "task" \in DOMAIN NoCommand  BY DEF CommandRecords
<1> QED BY <1>1, <1>2

\* The count of entries is a natural.
LEMMA CountType == ASSUME NEW k \in CommandRecords, NEW S, S \subseteq Entries(k), NEW x
                   PROVE  /\ IsFiniteSet({i \in S : k.req.entries[i] = x})
                          /\ Count(k, S, x) \in Nat
<1>1. IsFiniteSet(Entries(k))  BY CommandIs
<1>2. {i \in S : k.req.entries[i] = x} \in SUBSET Entries(k)  OBVIOUS
<1>3. IsFiniteSet({i \in S : k.req.entries[i] = x})  BY <1>1, <1>2, FS_Subset
<1> QED BY <1>3, FS_CardinalityType DEF Count

\* No entries, nothing counted.
LEMMA CountNone == ASSUME NEW k, NEW x PROVE Count(k, {}, x) = 0
<1>1. {i \in {} : k.req.entries[i] = x} = {}  OBVIOUS
<1> QED BY <1>1, FS_EmptySet DEF Count

\* Two parts of the entries make up their union.
LEMMA CountSplit ==
  ASSUME NEW k \in CommandRecords, NEW S, S \subseteq Entries(k),
         NEW P, NEW Q, S = P \cup Q, P \cap Q = {}, NEW x
  PROVE  Count(k, S, x) = Count(k, P, x) + Count(k, Q, x)
<1> DEFINE A == {i \in P : k.req.entries[i] = x}
           B == {i \in Q : k.req.entries[i] = x}
           C == {i \in S : k.req.entries[i] = x}
<1>1. IsFiniteSet(A) /\ IsFiniteSet(B)
  <2>1. P \subseteq Entries(k) /\ Q \subseteq Entries(k)  OBVIOUS
  <2> QED BY <2>1, CountType
<1>2. C = A \cup B /\ A \cap B = {}  OBVIOUS
<1>3. Cardinality(C) = Cardinality(A) + Cardinality(B)
  <2> HIDE DEF A, B, C
  <2> QED BY <1>1, <1>2, CountApart
<1> QED BY <1>3 DEF Count

\* The queue gets one end for each entry that is to be released.
LEMMA EndsCount ==
  ASSUME NEW k \in CommandRecords, NEW S, S \subseteq Entries(k)
  PROVE  /\ Ends(k, S) \in Seq(XPCommands)
         /\ \A x \in XPCommands : Occurs(Ends(k, S), x) = Count(k, S, x)
<1> DEFINE L == Len(k.req.entries)
           Step(n, t) == IF n \in S THEN <<k.req.entries[n]>> \o t ELSE t
           Good(n, t) == /\ t \in Seq(XPCommands)
                         /\ \A x \in XPCommands : Occurs(t, x) = Count(k, S \cap (1..n), x)
           Kept(f, n) == f = [m \in 0..n |-> IF m = 0 THEN << >> ELSE Step(m, f[m - 1])]
           N == {n \in Nat : \E f : Kept(f, n)}
<1>0. L \in Nat /\ Entries(k) = 1..L /\ \A n \in 1..L : k.req.entries[n] \in XPCommands
  BY CommandIs DEF Entries
<1>1. ASSUME NEW n \in 1..L, NEW t, Good(n - 1, t) PROVE Good(n, Step(n, t))
  <2> DEFINE A == S \cap (1..(n - 1))
             B == S \cap (1..n)
  <2>1. CASE n \notin S
    <3>1. A = B  BY <2>1, <1>0
    <3>2. Step(n, t) = t  BY <2>1
    <3> QED BY <1>1, <3>1, <3>2
  <2>2. CASE n \in S
    <3> DEFINE e == k.req.entries[n]
    <3>1. e \in XPCommands /\ t \in Seq(XPCommands)  BY <1>0, <1>1
    <3>2. Step(n, t) = <<e>> \o t  BY <2>2
    <3>3. <<e>> \in Seq(XPCommands) /\ <<e>> \o t \in Seq(XPCommands)
      BY <3>1, OccursOnce, OccursAfter
    <3>4. ASSUME NEW x \in XPCommands PROVE Occurs(<<e>> \o t, x) = Count(k, B, x)
      <4>1. Occurs(<<e>> \o t, x) = Occurs(<<e>>, x) + Occurs(t, x)  BY <3>1, <3>3, OccursAfter, ZenonT(60)
      <4>2. Occurs(<<e>>, x) = IF e = x THEN 1 ELSE 0  BY <3>1, OccursOnce
      <4>3. Occurs(t, x) = Count(k, A, x)  BY <1>1
      <4>4. B = {n} \cup A /\ {n} \cap A = {} /\ B \subseteq Entries(k)
        BY <2>2, <1>0
      <4>5. Count(k, B, x) = Count(k, {n}, x) + Count(k, A, x)
        <5> HIDE DEF A, B
        <5> QED BY <4>4, CountSplit
      <4>6. Count(k, {n}, x) = IF e = x THEN 1 ELSE 0
        <5>1. CASE e = x
          <6>1. {i \in {n} : k.req.entries[i] = x} = {n}  BY <5>1
          <6> QED BY <5>1, <6>1, FS_Singleton DEF Count
        <5>2. CASE e # x
          <6>1. {i \in {n} : k.req.entries[i] = x} = {}  BY <5>2
          <6> QED BY <5>2, <6>1, FS_EmptySet DEF Count
        <5> QED BY <5>1, <5>2
      <4> QED BY <4>1, <4>2, <4>3, <4>5, <4>6
    <3> QED BY <3>2, <3>3, <3>4
  <2> QED BY <2>1, <2>2
<1>2. Good(0, << >>)
  <2>1. S \cap (1..0) = {}  OBVIOUS
  <2>2. ASSUME NEW x \in XPCommands PROVE Occurs(<< >>, x) = Count(k, S \cap (1..0), x)
    BY <2>1, OccursNever, CountNone
  <2>3. << >> \in Seq(XPCommands)  OBVIOUS
  <2> QED BY <2>2, <2>3
<1> HIDE DEF Step, Good
<1>3. 0 \in N
  <2> DEFINE f == [m \in 0..0 |-> << >>]
  <2>1. Kept(f, 0)  OBVIOUS
  <2> QED BY <2>1
<1>4. ASSUME NEW n \in Nat, n \in N PROVE n + 1 \in N
  <2>1. PICK f : Kept(f, n)  BY <1>4
  <2> DEFINE g == [m \in 0..(n + 1) |-> IF m = 0 THEN << >> ELSE Step(m, f[m - 1])]
  <2>2. \A m \in 0..n : f[m] = IF m = 0 THEN << >> ELSE Step(m, f[m - 1])  BY <2>1
  <2>3. \A m \in 0..n : g[m] = f[m]  BY <2>2
  <2>4. \A m \in 0..(n + 1) : m # 0 => m - 1 \in 0..n  OBVIOUS
  <2>5. \A m \in 0..(n + 1) : m # 0 => f[m - 1] = g[m - 1]  BY <2>3, <2>4
  <2>6. Kept(g, n + 1)  BY <2>5
  <2> HIDE DEF g
  <2> QED BY <2>6
<1>5. Nat \subseteq N
  <2> HIDE DEF N
  <2> QED BY <1>3, <1>4, AllNaturals
<1>6. \E f : Kept(f, L)  BY <1>5, <1>0
<1> DEFINE K == CHOOSE f : Kept(f, L)
<1>7. Kept(K, L)
  <2> HIDE DEF Kept
  <2> QED BY <1>6
<1>8. Good(L, K[L])
  <2> DEFINE A == {n \in Nat : n <= L => Good(n, K[n])}
  <2> HIDE DEF K, L
  <2>0. \A m \in 0..L : K[m] = IF m = 0 THEN << >> ELSE Step(m, K[m - 1])  BY <1>7
  <2>1. 0 \in A
    <3>1. K[0] = << >>  BY <2>0, <1>0
    <3> QED BY <3>1, <1>2
  <2>2. ASSUME NEW n \in Nat, n \in A PROVE n + 1 \in A
    <3> SUFFICES ASSUME n + 1 <= L PROVE Good(n + 1, K[n + 1])  OBVIOUS
    <3>1. n + 1 \in 1..L /\ (n + 1) - 1 = n /\ n + 1 \in 0..L /\ n + 1 # 0  BY <1>0
    <3>0. n <= L  BY <1>0
    <3>2. Good(n, K[n])  BY <2>2, <3>0
    <3>3. K[n + 1] = Step(n + 1, K[n])  BY <2>0, <3>1
    <3>4. Good((n + 1) - 1, K[n])  BY <3>1, <3>2
    <3> QED BY <3>1, <3>3, <3>4, <1>1
  <2>3. Nat \subseteq A
    <3> HIDE DEF A
    <3> QED BY <2>1, <2>2, AllNaturals
  <2> QED BY <2>3, <1>0
<1>9. Ends(k, S) = K[L]  BY DEF Ends, Step
<1>10. S \cap (1..L) = S  BY <1>0
<1> QED BY <1>8, <1>9, <1>10 DEF Good

-----------------------------------------------------------------------------
(* What the commands of several channels hold. *)

Typed(f) ==
  /\ f \in [Channels -> CommandRecords \cup {NoCommand}]
  /\ \A c \in Channels : f[c] # NoCommand => f[c].held \subseteq Entries(f[c])

\* The entries for x that the command of one channel holds.
Own(f, c, x) == {<<c, i>> : i \in {j \in f[c].held : f[c].req.entries[j] = x}}

Pairs(f, S, x) == UNION {Own(f, c, x) : c \in {d \in S : f[d] # NoCommand}}

Sum(f, S, x) == Cardinality(Pairs(f, S, x))

\* How many entries for x a command holds.
Holds(k, x) == Count(k, k.held, x)

\* The model counts the same.
LEMMA HeldIs == ASSUME NEW S, NEW x
                PROVE  Held(S, x) = Sum(cmd, S, x) /\ Held(S, x)' = Sum(cmd', S, x)
BY DEF Held, Sum, Pairs, Own

\* What a set of channels holds, one by one.
LEMMA PairsIs ==
  ASSUME NEW f, NEW S, NEW x, NEW p
  PROVE  p \in Pairs(f, S, x) <=>
           \E c \in S : f[c] # NoCommand /\ p \in Own(f, c, x)
BY DEF Pairs

\* One command holds what the count of its entries says.
LEMMA OwnCount ==
  ASSUME NEW f, Typed(f), NEW c \in Channels, f[c] # NoCommand, NEW x
  PROVE  IsFiniteSet(Own(f, c, x)) /\ Cardinality(Own(f, c, x)) = Count(f[c], f[c].held, x)
<1> DEFINE D == {j \in f[c].held : f[c].req.entries[j] = x}
           g == [i \in D |-> <<c, i>>]
<1>1. f[c] \in CommandRecords /\ f[c].held \subseteq Entries(f[c])  BY DEF Typed
<1>2. IsFiniteSet(D) /\ Cardinality(D) = Count(f[c], f[c].held, x)
  <2>1. \A k \in CommandRecords : k.held \subseteq Entries(k) =>
          IsFiniteSet({j \in k.held : k.req.entries[j] = x})
    BY CountType
  <2> QED BY <1>1, <2>1 DEF Count
<1>3. Own(f, c, x) = {g[i] : i \in D}  BY DEF Own
<1>4. DOMAIN g = D /\ g = [i \in D |-> g[i]] /\ \A s, t \in D : g[s] = g[t] => s = t
  OBVIOUS
<1> HIDE DEF D, g
<1>5. IsFiniteSet({g[i] : i \in D}) /\ Cardinality({g[i] : i \in D}) = Cardinality(D)
  BY <1>2, <1>4, CountRenamed
<1> QED BY <1>2, <1>3, <1>5

\* There are finitely many channels.
LEMMA ChannelsFinite == IsFiniteSet(Channels)
BY HeldCommandsAssumption, FS_Interval DEF Channels

\* They hold finitely many entries.
LEMMA PairsFinite ==
  ASSUME NEW f, Typed(f), NEW S, S \subseteq Channels, NEW x
  PROVE  IsFiniteSet(Pairs(f, S, x)) /\ Sum(f, S, x) \in Nat
<1> DEFINE D == {d \in S : f[d] # NoCommand}
           g == [c \in D |-> Own(f, c, x)]
           F == {Own(f, c, x) : c \in D}
<1>1. IsFiniteSet(D)
  <2>1. D \in SUBSET Channels  OBVIOUS
  <2> HIDE DEF D
  <2> QED BY <2>1, ChannelsFinite, FS_Subset
<1>2. g \in Surjection(D, F)  BY DEF Surjection
<1>3. \A T \in F : IsFiniteSet(T)  BY OwnCount
<1>4. Pairs(f, S, x) = UNION F  BY DEF Pairs
<1>5. IsFiniteSet(UNION F)
  <2> HIDE DEF D, g, F
  <2>1. IsFiniteSet(F)  BY <1>1, <1>2, FS_Surjection
  <2> QED BY <2>1, <1>3, FS_UNION
<1>6. IsFiniteSet(Pairs(f, S, x))  BY <1>4, <1>5
<1> QED BY <1>6, FS_CardinalityType DEF Sum

\* The channels in two parts hold together what all hold.
LEMMA SumSplit ==
  ASSUME NEW f, Typed(f), NEW S, S \subseteq Channels,
         NEW P, NEW Q, S = P \cup Q, P \cap Q = {}, NEW x
  PROVE  Sum(f, S, x) = Sum(f, P, x) + Sum(f, Q, x)
<1> DEFINE A == Pairs(f, P, x)
           B == Pairs(f, Q, x)
           C == Pairs(f, S, x)
<1>1. IsFiniteSet(A) /\ IsFiniteSet(B)
  <2>1. P \subseteq Channels /\ Q \subseteq Channels  OBVIOUS
  <2> QED BY <2>1, PairsFinite
<1>2. C = A \cup B
  <2>1. \A p : p \in C <=> p \in A \/ p \in B  BY PairsIs
  <2> HIDE DEF A, B, C
  <2> QED BY <2>1
<1>3. A \cap B = {}
  <2>1. \A p \in A : \E c \in P : p[1] = c  BY PairsIs DEF Own
  <2>2. \A p \in B : \E c \in Q : p[1] = c  BY PairsIs DEF Own
  <2> HIDE DEF A, B
  <2> QED BY <2>1, <2>2
<1>4. Cardinality(C) = Cardinality(A) + Cardinality(B)
  <2> HIDE DEF A, B, C
  <2> QED BY <1>1, <1>2, <1>3, CountApart
<1> QED BY <1>4 DEF Sum

\* Only the commands of the channels count, ...
LEMMA SumSame ==
  ASSUME NEW f, NEW g, NEW S, \A c \in S : f[c] = g[c], NEW x
  PROVE  Sum(f, S, x) = Sum(g, S, x)
<1>1. \A c \in S : Own(f, c, x) = Own(g, c, x)  BY DEF Own
<1>2. \A p : p \in Pairs(f, S, x) <=> p \in Pairs(g, S, x)  BY <1>1, PairsIs
<1>3. Pairs(f, S, x) = Pairs(g, S, x)
  <2> DEFINE A == Pairs(f, S, x)
             B == Pairs(g, S, x)
  <2>1. \A p : p \in A <=> p \in B  BY <1>2
  <2> HIDE DEF A, B
  <2>2. A = B  BY <2>1
  <2> QED BY <2>2 DEF A, B
<1> QED BY <1>3 DEF Sum

\* ... a channel without command holds nothing, ...
LEMMA SumNone ==
  ASSUME NEW f, NEW S, \A c \in S : f[c] = NoCommand, NEW x
  PROVE  Sum(f, S, x) = 0
<1>1. Pairs(f, S, x) = {}  BY PairsIs
<1> QED BY <1>1, FS_EmptySet DEF Sum

\* ... and one with a command what that holds.
LEMMA SumOne ==
  ASSUME NEW f, Typed(f), NEW c \in Channels, f[c] # NoCommand, NEW x
  PROVE  Sum(f, {c}, x) = Holds(f[c], x)
<1> DEFINE A == Pairs(f, {c}, x)
           B == Own(f, c, x)
<1>1. \A p : p \in A <=> p \in B  BY PairsIs
<1>2. A = B
  <2> HIDE DEF A, B
  <2> QED BY <1>1
<1>3. Cardinality(B) = Holds(f[c], x)  BY OwnCount DEF Holds
<1> QED BY <1>2, <1>3 DEF Sum

\* When the command of one channel changes, all change by as much.
LEMMA SumReplaced ==
  ASSUME NEW f, NEW g, Typed(f), Typed(g), NEW c \in Channels,
         f[c] # NoCommand, g[c] # NoCommand,
         \A d \in Channels : d # c => g[d] = f[d], NEW x
  PROVE  /\ Sum(g, Channels, x) - Holds(g[c], x)
              = Sum(f, Channels, x) - Holds(f[c], x)
         /\ Sum(f, Channels, x) \in Nat /\ Sum(g, Channels, x) \in Nat
         /\ Holds(f[c], x) \in Nat /\ Holds(g[c], x) \in Nat
<1> DEFINE Others == Channels \ {c}
           O == {c}
<1>1. /\ Channels = O \cup Others /\ O \cap Others = {} /\ Channels \subseteq Channels
      /\ Others \subseteq Channels /\ O \subseteq Channels
  OBVIOUS
<1>2. \A d \in Others : f[d] = g[d]  OBVIOUS
<1>3. Sum(f, O, x) = Holds(f[c], x) /\ Sum(g, O, x) = Holds(g[c], x)
  BY SumOne
<1> HIDE DEF Others, O
<1>4. /\ Sum(f, Channels, x) = Sum(f, O, x) + Sum(f, Others, x)
      /\ Sum(g, Channels, x) = Sum(g, O, x) + Sum(g, Others, x)
  BY <1>1, SumSplit
<1>5. Sum(f, Others, x) = Sum(g, Others, x)  BY <1>2, SumSame
<1>6. /\ Sum(f, Others, x) \in Nat /\ Sum(f, O, x) \in Nat /\ Sum(g, O, x) \in Nat
      /\ Sum(f, Channels, x) \in Nat /\ Sum(g, Channels, x) \in Nat
  BY <1>1, PairsFinite
<1> DEFINE fo == Sum(f, O, x)
           go == Sum(g, O, x)
           fs == Sum(f, Others, x)
           gs == Sum(g, Others, x)
           fa == Sum(f, Channels, x)
           ga == Sum(g, Channels, x)
<1>7. /\ fa = fo + fs /\ ga = go + gs /\ fs = gs
      /\ fs \in Nat /\ fo \in Nat /\ go \in Nat /\ fa \in Nat /\ ga \in Nat
  BY <1>4, <1>5, <1>6
<1> HIDE DEF fo, go, fs, gs, fa, ga
<1>8. ga - go = fa - fo  BY <1>7
<1> QED BY <1>8, <1>7, <1>3 DEF fo, go, fa, ga

-----------------------------------------------------------------------------
(* The handlers in the flight loop. *)

Open == {"INITIAL", "CONFIRMED", "CLOSED"}

\* What holds for every command.
Sound(k) ==
  /\ k \in CommandRecords
  /\ k.held \subseteq Entries(k) /\ k.list \subseteq Entries(k)
  /\ k.rem \in 0 .. k.req.interval
  /\ k.holdRem \in 0 .. k.req.hold
  /\ k.times \in {Infinite} \cup 0 .. k.req.times
  /\ HoldingIsMarked(k) /\ RoundsAddUp(k)

\* What was begun is held afterwards, what was held before was ended, unless
\* nothing was begun or ended.
Moves(k, r) ==
  \/ r.ended = k.held /\ r.cmd.held = r.began
  \/ r.ended = {} /\ r.began = {} /\ r.cmd.held = k.held

\* What a handler returns.
Handled(k, r) ==
  /\ Sound(r.cmd) /\ r.cmd.req = k.req /\ r.cmd.task = k.task
  /\ r.state \in Open
  /\ r.ended \subseteq Entries(k) /\ r.began \subseteq Entries(k)
  /\ Moves(k, r)

\* The numbers of a request.
LEMMA RequestIs ==
  ASSUME NEW k, Sound(k)
  PROVE  /\ k.req.kind \in {"CMTR", "CMHD"}
         /\ k.req.times \in Int /\ (k.req.times = Infinite \/ k.req.times > 0)
         /\ k.req.hold \in Nat /\ k.req.interval \in Nat /\ k.req.interval > 0
         /\ k.req.intervalFrames \in BOOLEAN /\ k.req.holdFrames \in BOOLEAN
         /\ k.times \in Int /\ k.rem \in Nat /\ k.holdRem \in Nat /\ k.rounds \in Nat
         /\ k.holding \in BOOLEAN /\ k.finishing \in BOOLEAN /\ k.failed \in BOOLEAN
         /\ k.init \in BOOLEAN /\ k.task \in BOOLEAN
         /\ k.rem <= k.req.interval /\ k.holdRem <= k.req.hold
<1>1. k \in CommandRecords /\ k.req \in Requests  BY CommandIs DEF Sound
<1>2. /\ k.req.kind \in {"CMTR", "CMHD"}
      /\ k.req.times \in Int /\ (k.req.times = Infinite \/ k.req.times > 0)
      /\ k.req.hold \in Nat /\ k.req.interval \in Nat /\ k.req.interval > 0
      /\ k.req.intervalFrames \in BOOLEAN /\ k.req.holdFrames \in BOOLEAN
  BY <1>1, HeldCommandsAssumption DEF Infinite
<1>3. /\ k.times \in Int /\ k.rem \in Nat /\ k.holdRem \in Nat /\ k.rounds \in Nat
      /\ k.holding \in BOOLEAN /\ k.finishing \in BOOLEAN /\ k.failed \in BOOLEAN
      /\ k.init \in BOOLEAN /\ k.task \in BOOLEAN
  BY <1>1 DEF CommandRecords
<1> QED BY <1>2, <1>3 DEF Sound

\* Channel messages leave a channel in use in use.
LEMMA Messages ==
  ASSUME NEW s \in Open, NEW sent, NEW k, NEW held, NEW mayClose
  PROVE  /\ Closed(s) \in Open /\ Continued(s, sent) \in Open
         /\ notify_channel(k, s, held, mayClose, sent) \in Open
BY DEF Open, Closed, Continued, notify_channel

\* A due time that is forwarded lies within the next interval.
LEMMA ForwardedIs ==
  ASSUME NEW k, Sound(k), NEW left \in Int, left <= k.req.interval
  PROVE  Forwarded(k, left) \in 0 .. k.req.interval
<1> DEFINE i == k.req.interval
           m == (0 - left) % i
<1>1. i \in Nat /\ i > 0 /\ k.req.intervalFrames \in BOOLEAN  BY RequestIs
<1>2. CASE k.req.intervalFrames  BY <1>1, <1>2 DEF Forwarded
<1>3. CASE ~k.req.intervalFrames /\ left > 0  BY <1>1, <1>3 DEF Forwarded
<1>4. CASE ~k.req.intervalFrames /\ ~(left > 0)
  <2>1. m \in 0..(i - 1)
    <3>1. 0 - left \in Nat  BY <1>4
    <3> HIDE DEF i
    <3> QED BY <3>1, <1>1
  <2>2. Forwarded(k, left) = i - m  BY <1>4 DEF Forwarded
  <2> HIDE DEF i, m
  <2>3. i - m \in 0..i  BY <2>1, <1>1
  <2> QED BY <2>2, <2>3 DEF i
<1> QED BY <1>2, <1>3, <1>4, <1>1

\* One round of a CMTR command.
LEMMA CmtrRoundHandled ==
  ASSUME NEW k, Sound(k), k.req.kind = "CMTR", NEW s \in Open, NEW first \in BOOLEAN,
         NEW elapsed \in Nat, elapsed > 0, NEW sent
  PROVE  Handled(k, CmtrRound(k, s, first, elapsed, sent))
<1> DEFINE r == CmtrRound(k, s, first, elapsed, sent)
           left == k.rem - Spent(k.req.intervalFrames, elapsed)
           hold == first \/ (~Single(k) /\ left <= 0)
           holdLeft == k.holdRem - Spent(k.req.holdFrames, elapsed)
           release == k.holding /\ (hold \/ holdLeft <= 0)
           finishing == release /\ LastRound(k.times)
           times == IF hold /\ k.times > 0 THEN k.times - 1 ELSE k.times
           holds == hold /\ k.req.hold > 0
           triggers == hold /\ k.req.hold = 0
           last == finishing \/ (triggers /\ LastRound(times))
           s1 == IF release THEN notify_channel(k, s, FALSE, finishing, sent) ELSE s
           s2 == IF hold THEN notify_channel(k, s1, TRUE, triggers /\ last, sent) ELSE s1
           s3 == IF triggers THEN notify_channel(k, s2, FALSE, last, sent) ELSE s2
           rem == IF Single(k) THEN k.rem ELSE IF hold THEN Forwarded(k, left) ELSE left
           holdRem == IF holds THEN k.req.hold
                      ELSE IF k.holding /\ ~release THEN holdLeft ELSE 0
           holding == holds \/ (k.holding /\ ~release)
           held == IF holds THEN Entries(k) ELSE IF release \/ triggers THEN {} ELSE k.held
           rounds == IF hold /\ k.rounds <= k.req.times THEN k.rounds + 1 ELSE k.rounds
           n == [k EXCEPT !.rem = rem, !.holdRem = holdRem, !.times = times,
                          !.finishing = last, !.holding = holding, !.held = held,
                          !.rounds = rounds]
<1>1. /\ r.cmd = n /\ r.state = s3
      /\ r.ended = (IF release THEN k.held ELSE {})
      /\ r.began = (IF holds THEN Entries(k) ELSE {})
  BY DEF CmtrRound
<1> HIDE DEF r
<1>2. /\ k \in CommandRecords /\ k.held \subseteq Entries(k) /\ k.list \subseteq Entries(k)
      /\ k.times \in {Infinite} \cup 0 .. k.req.times
      /\ HoldingIsMarked(k) /\ RoundsAddUp(k)
  BY DEF Sound
<1>3. s3 \in Open
  <2>1. s1 \in Open  BY Messages
  <2> HIDE DEF s1
  <2>2. s2 \in Open  BY <2>1, Messages
  <2> HIDE DEF s2
  <2> QED BY <2>2, Messages
<1>4. /\ left \in Int /\ left < k.rem /\ left <= k.req.interval
      /\ holdLeft \in Int /\ holdLeft < k.holdRem /\ holdLeft <= k.req.hold
  BY RequestIs DEF Spent
<1> HIDE DEF s1, s2, s3, left, holdLeft
<1>5. rem \in 0 .. k.req.interval
  <2>1. Forwarded(k, left) \in 0 .. k.req.interval  BY <1>4, ForwardedIs
  <2> DEFINE fwd == Forwarded(k, left)
  <2>2. fwd \in 0 .. k.req.interval  BY <2>1
  <2> HIDE DEF fwd
  <2>3. k.rem \in 0 .. k.req.interval  BY DEF Sound
  <2>4. ~Single(k) /\ ~hold => left > 0  BY <1>4
  <2>5. k.req.interval \in Nat  BY RequestIs
  <2> QED BY <2>2, <2>3, <2>4, <2>5, <1>4 DEF fwd
<1>6. holdRem \in 0 .. k.req.hold
  <2>1. k.req.hold \in Nat  BY RequestIs
  <2>2. k.holding /\ ~release => holdLeft > 0  BY <1>4
  <2> QED BY <2>1, <2>2, <1>4
<1>7. times \in {Infinite} \cup 0 .. k.req.times
  BY <1>2, RequestIs DEF Infinite
<1>8. held \subseteq Entries(k)  BY <1>2
<1>9. ~holding => held = {}
  <2>1. k.holding \/ k.held = {}  BY <1>2 DEF HoldingIsMarked
  <2> QED BY <2>1
<1>10. hold /\ ~k.holding => k.held = {}  BY <1>2 DEF HoldingIsMarked
<1>11. rounds \in Nat  BY RequestIs
<1>12. /\ k.req.times > 0 => times >= 0 /\ rounds + times >= k.req.times
       /\ last => rounds >= k.req.times
  <2>1. /\ k.req.times \in Int /\ (k.req.times = -1 \/ k.req.times > 0)
        /\ k.times \in Int /\ k.rounds \in Nat
    BY RequestIs DEF Infinite
  <2>2. k.req.times > 0 => k.times >= 0 /\ k.rounds + k.times >= k.req.times
    BY <1>2 DEF RoundsAddUp
  <2>3. k.req.times > 0 => times >= 0 /\ rounds + times >= k.req.times  BY <2>1, <2>2
  <2>4. finishing => k.times = 0  BY DEF LastRound
  <2>5. triggers /\ LastRound(times) => times = 0  BY DEF LastRound
  <2>6. finishing => rounds >= k.req.times  BY <2>1, <2>2, <2>4
  <2>7. times = 0 => rounds >= k.req.times  BY <2>1, <2>3, <1>11
  <2> QED BY <2>3, <2>5, <2>6, <2>7
<1>13. last \in BOOLEAN /\ holding \in BOOLEAN  BY RequestIs DEF LastRound
<1>14. Moves(k, r)
  <2>1. CASE holds /\ release  BY <2>1, <1>1, <1>2 DEF CommandRecords, Moves
  <2>2. CASE holds /\ ~release  BY <2>2, <1>1, <1>2, <1>10 DEF CommandRecords, Moves
  <2>3. CASE ~holds /\ release  BY <2>3, <1>1, <1>2 DEF CommandRecords, Moves
  <2>4. CASE ~holds /\ ~release /\ triggers  BY <2>4, <1>1, <1>2, <1>10 DEF CommandRecords, Moves
  <2>5. CASE ~holds /\ ~release /\ ~triggers  BY <2>5, <1>1, <1>2 DEF CommandRecords, Moves
  <2> QED BY <2>1, <2>2, <2>3, <2>4, <2>5
<1>15. /\ r.ended \subseteq Entries(k) /\ r.began \subseteq Entries(k)  BY <1>1, <1>2
<1> HIDE DEF hold, release, finishing, times, holds, triggers, last, rem, holdRem,
             holding, held, rounds
<1>16. /\ n.req = k.req /\ n.task = k.task /\ n.init = k.init /\ n.failed = k.failed
       /\ n.list = k.list /\ n.rem = rem /\ n.holdRem = holdRem /\ n.times = times
       /\ n.finishing = last /\ n.holding = holding /\ n.held = held /\ n.rounds = rounds
       /\ Entries(n) = Entries(k)
  BY <1>2 DEF CommandRecords, Entries
<1>17. n \in CommandRecords
  <2>1. rem \in Nat /\ holdRem \in Nat /\ times \in Int
    BY <1>5, <1>6, <1>7, RequestIs DEF Infinite
  <2>2. held \in SUBSET Nat  BY <1>2, <1>8, CommandIs
  <2> QED BY <2>1, <2>2, <1>2, <1>11, <1>13 DEF CommandRecords
<1> HIDE DEF n
<1>18. Sound(n)
  <2>1. HoldingIsMarked(n)  BY <1>16, <1>9 DEF HoldingIsMarked
  <2>2. RoundsAddUp(n)  BY <1>16, <1>12 DEF RoundsAddUp
  <2> QED BY <2>1, <2>2, <1>2, <1>5, <1>6, <1>7, <1>8, <1>16, <1>17 DEF Sound
<1>19. Handled(k, r)  BY <1>1, <1>3, <1>14, <1>15, <1>16, <1>18 DEF Handled
<1> QED BY <1>19 DEF r

\* Marking a command, or changing its task, leaves the rest alone.
LEMMA Marked ==
  ASSUME NEW k, Sound(k), NEW b \in BOOLEAN, NEW n,
         n = [k EXCEPT !.failed = b] \/ n = [k EXCEPT !.task = b]
  PROVE  /\ Sound(n) /\ n.req = k.req /\ n.held = k.held
         /\ n = [k EXCEPT !.failed = b] => n.task = k.task
         /\ n = [k EXCEPT !.task = b] => n.task = b
<1>1. k \in CommandRecords  BY DEF Sound
<1>2. /\ n \in CommandRecords /\ n.req = k.req /\ n.init = k.init
      /\ n.finishing = k.finishing /\ n.holding = k.holding /\ n.held = k.held /\ n.list = k.list
      /\ n.times = k.times /\ n.rem = k.rem /\ n.holdRem = k.holdRem /\ n.rounds = k.rounds
  BY <1>1 DEF CommandRecords
<1>3. /\ n = [k EXCEPT !.failed = b] => n.task = k.task
      /\ n = [k EXCEPT !.task = b] => n.task = b
  BY <1>1 DEF CommandRecords
<1>4. Sound(n)  BY <1>2 DEF Sound, HoldingIsMarked, RoundsAddUp, Entries
<1> QED BY <1>2, <1>3, <1>4

\* A call that does nothing, or marks the command as failed.
LEMMA IdleHandled ==
  ASSUME NEW k, Sound(k), NEW s \in Open
  PROVE  Handled(k, Idle(k, s)) /\ Handled(k, Idle([k EXCEPT !.failed = TRUE], s))
<1>1. Handled(k, Idle(k, s))  BY DEF Handled, Idle, Moves
<1> DEFINE n == [k EXCEPT !.failed = TRUE]
<1>2. n = [k EXCEPT !.failed = TRUE]  OBVIOUS
<1> HIDE DEF n
<1>3. Sound(n) /\ n.req = k.req /\ n.task = k.task /\ n.held = k.held  BY <1>2, Marked
<1>4. Handled(k, Idle(n, s))  BY <1>3 DEF Handled, Idle, Moves
<1> QED BY <1>1, <1>4 DEF n

\* cmtr_process_flightloop ends what was held before it begins anew.
LEMMA CmtrHandled ==
  ASSUME NEW k, Sound(k), k.req.kind = "CMTR", NEW s \in Open, NEW found \in BOOLEAN,
         NEW elapsed \in Nat, elapsed > 0, NEW sent \in BOOLEAN
  PROVE  Handled(k, cmtr_process_flightloop(k, s, found, elapsed, sent))
<1> DEFINE r == cmtr_process_flightloop(k, s, found, elapsed, sent)
           n == [k EXCEPT !.init = TRUE]
           ready == ~(k.failed \/ k.finishing) /\ ~(RequiresTime(k) /\ life # "live")
<1>1. k \in CommandRecords /\ k.failed \in BOOLEAN /\ k.finishing \in BOOLEAN /\ k.init \in BOOLEAN
  BY RequestIs DEF Sound
<1>2. RequiresTime(k) \in BOOLEAN  BY RequestIs DEF RequiresTime, Single
<1>3. CASE ~ready
  <2>1. r = Idle(k, s)  BY <1>1, <1>2, <1>3 DEF cmtr_process_flightloop
  <2> QED BY <2>1, IdleHandled
<1>4. CASE ready /\ k.init
  <2>1. r = CmtrRound(k, s, FALSE, elapsed, sent)
    BY <1>1, <1>2, <1>4 DEF cmtr_process_flightloop
  <2> QED BY <2>1, CmtrRoundHandled
<1>5. CASE ready /\ ~k.init /\ ~(found /\ Confirms(s, sent))
  <2>1. r = Idle([k EXCEPT !.failed = TRUE], Closed(s))
    BY <1>1, <1>2, <1>5 DEF cmtr_process_flightloop
  <2>2. Closed(s) \in Open  BY Messages
  <2> DEFINE t == Closed(s)
  <2>3. t \in Open  BY <2>2
  <2> HIDE DEF t
  <2>4. Handled(k, Idle([k EXCEPT !.failed = TRUE], t))  BY <2>3, IdleHandled
  <2> QED BY <2>1, <2>4 DEF t
<1>6. CASE ready /\ ~k.init /\ (found /\ Confirms(s, sent))
  <2>1. r = CmtrRound(n, "CONFIRMED", TRUE, elapsed, sent)
    BY <1>1, <1>2, <1>6 DEF cmtr_process_flightloop
  <2>2. /\ n \in CommandRecords /\ n.req = k.req /\ n.task = k.task /\ Entries(n) = Entries(k)
        /\ n.finishing = k.finishing /\ n.holding = k.holding /\ n.held = k.held /\ n.list = k.list
        /\ n.times = k.times /\ n.rem = k.rem /\ n.holdRem = k.holdRem /\ n.rounds = k.rounds
    BY <1>1 DEF CommandRecords, Entries
  <2> HIDE DEF n, r
  <2>3. Sound(n)
    <3>1. HoldingIsMarked(n)  BY <2>2 DEF HoldingIsMarked, Sound
    <3>2. RoundsAddUp(n)  BY <2>2 DEF RoundsAddUp, Sound
    <3> QED BY <2>2, <3>1, <3>2 DEF Sound
  <2>4. "CONFIRMED" \in Open  BY DEF Open
  <2>5. Handled(n, CmtrRound(n, "CONFIRMED", TRUE, elapsed, sent))
    BY <2>2, <2>3, <2>4, CmtrRoundHandled
  <2>6. Handled(n, r)  BY <2>1, <2>5
  <2>7. /\ Sound(r.cmd) /\ r.cmd.req = n.req /\ r.cmd.task = n.task /\ r.state \in Open
        /\ r.ended \subseteq Entries(n) /\ r.began \subseteq Entries(n) /\ Moves(n, r)
    BY <2>6 DEF Handled
  <2>8. Moves(k, r)  BY <2>2, <2>7 DEF Moves
  <2>9. Handled(k, r)  BY <2>2, <2>7, <2>8 DEF Handled
  <2> QED BY <2>9 DEF r
<1>7. Handled(k, r)  BY <1>3, <1>4, <1>5, <1>6
<1> QED BY <1>7

\* cmhd_process_flightloop begins once, when nothing is held yet.
LEMMA CmhdHandled ==
  ASSUME NEW k, Sound(k), k.req.kind = "CMHD", NEW s \in Open, NEW found \in BOOLEAN,
         NEW elapsed, NEW sent \in BOOLEAN
  PROVE  Handled(k, cmhd_process_flightloop(k, s, found, elapsed, sent))
<1> DEFINE r == cmhd_process_flightloop(k, s, found, elapsed, sent)
           n == [k EXCEPT !.init = TRUE, !.held = Entries(k)]
<1>1. k \in CommandRecords /\ k.failed \in BOOLEAN /\ k.init \in BOOLEAN
  BY RequestIs DEF Sound
<1>2. CASE k.failed \/ k.init
  <2>1. r = Idle(k, s)  BY <1>2 DEF cmhd_process_flightloop
  <2> QED BY <2>1, IdleHandled
<1>3. CASE ~(k.failed \/ k.init) /\ ~(found /\ Confirms(s, sent))
  <2>1. r = Idle([k EXCEPT !.failed = TRUE], Closed(s))
    BY <1>3 DEF cmhd_process_flightloop
  <2>2. Closed(s) \in Open  BY Messages
  <2> DEFINE t == Closed(s)
  <2>3. t \in Open  BY <2>2
  <2> HIDE DEF t
  <2>4. Handled(k, Idle([k EXCEPT !.failed = TRUE], t))  BY <2>3, IdleHandled
  <2> QED BY <2>1, <2>4 DEF t
<1>4. CASE ~(k.failed \/ k.init) /\ (found /\ Confirms(s, sent))
  <2>1. r.cmd = n /\ r.state = "CONFIRMED" /\ r.ended = {} /\ r.began = Entries(k)
    BY <1>4 DEF cmhd_process_flightloop
  <2>2. k.held = {}  BY <1>4 DEF Sound, HoldingIsMarked
  <2>3. Entries(k) \in SUBSET Nat  BY <1>1, CommandIs
  <2>4. /\ n \in CommandRecords /\ n.req = k.req /\ n.task = k.task /\ n.init = TRUE
        /\ n.finishing = k.finishing /\ n.held = Entries(k) /\ n.list = k.list
        /\ n.times = k.times /\ n.rem = k.rem /\ n.holdRem = k.holdRem /\ n.rounds = k.rounds
    BY <1>1, <2>3 DEF CommandRecords
  <2>5. Entries(n) = Entries(k)  BY <2>4 DEF Entries
  <2> HIDE DEF n, r
  <2>6. HoldingIsMarked(n)  BY <2>4 DEF HoldingIsMarked
  <2>7. RoundsAddUp(n)  BY <2>4 DEF RoundsAddUp, Sound
  <2>8. Sound(n)  BY <2>4, <2>5, <2>6, <2>7 DEF Sound
  <2>9. Moves(k, r)  BY <2>1, <2>2, <2>4 DEF Moves
  <2>10. r.state \in Open  BY <2>1 DEF Open
  <2>11. r.ended \subseteq Entries(k) /\ r.began \subseteq Entries(k)  BY <2>1
  <2>12. Sound(r.cmd) /\ r.cmd.req = k.req /\ r.cmd.task = k.task  BY <2>1, <2>4, <2>8
  <2>13. Handled(k, r)  BY <2>9, <2>10, <2>11, <2>12 DEF Handled
  <2> QED BY <2>13 DEF r
<1>5. Handled(k, r)  BY <1>2, <1>3, <1>4
<1> QED BY <1>5

\* X-Plane's count moves with what the command holds.
LEMMA HandledCounts ==
  ASSUME NEW k, Sound(k), NEW r, Handled(k, r), NEW x
  PROVE  /\ Holds(r.cmd, x) = Holds(k, x) - Count(k, r.ended, x) + Count(k, r.began, x)
         /\ Holds(k, x) \in Nat /\ Count(k, r.ended, x) \in Nat /\ Count(k, r.began, x) \in Nat
<1>1. /\ k \in CommandRecords /\ k.held \subseteq Entries(k)
      /\ r.cmd.req = k.req /\ r.ended \subseteq Entries(k) /\ r.began \subseteq Entries(k)
      /\ Moves(k, r)
  BY DEF Sound, Handled
<1>2. \A S : Count(r.cmd, S, x) = Count(k, S, x)  BY <1>1 DEF Count
<1>3. Count(k, k.held, x) \in Nat /\ Count(k, r.ended, x) \in Nat /\ Count(k, r.began, x) \in Nat
  BY <1>1, CountType
<1>4. Count(k, {}, x) = 0  BY CountNone
<1>5. CASE r.ended = k.held /\ r.cmd.held = r.began
  <2>1. Count(r.cmd, r.cmd.held, x) = Count(k, r.began, x)  BY <1>2, <1>5
  <2>2. Count(k, k.held, x) = Count(k, r.ended, x)  BY <1>5
  <2> QED BY <2>1, <2>2, <1>3 DEF Holds
<1>6. CASE r.ended = {} /\ r.began = {} /\ r.cmd.held = k.held
  <2>1. Count(r.cmd, r.cmd.held, x) = Count(k, k.held, x)  BY <1>2, <1>6
  <2>2. Count(k, r.ended, x) = 0 /\ Count(k, r.began, x) = 0  BY <1>4, <1>6
  <2> QED BY <2>1, <2>2, <1>3 DEF Holds
<1> QED BY <1>1, <1>3, <1>5, <1>6 DEF Moves, Holds

-----------------------------------------------------------------------------
(* The invariant in the form in which the steps use it. *)

SoundAll(f) ==
  /\ f \in [Channels -> CommandRecords \cup {NoCommand}]
  /\ \A c \in Channels : f[c] # NoCommand => Sound(f[c])

ChanStates == [state : {"none", "INITIAL", "CONFIRMED", "CLOSED"}, doomed : BOOLEAN]
XpStates == [pc : {"frame", "run", "after", "end"}, todo : SUBSET Channels]
PostStates == [pc : {"wait", "woken", "run", "release"}, todo : SUBSET Channels,
               at : Channels \cup {0}]
NetStates == [pc : {"watch", "sweep", "unschedule", "release", "destroy", "next", "done"},
              at : 1 .. NumChannels + 1]

\* The types of everything but the commands.
Others ==
  /\ flightLoop \in {Free, "xp", "post"} /\ schedule \in {Free, "xp", "post", "recv"}
  /\ closing \in BOOLEAN /\ life \in {"live", "pending", "freed"}
  /\ chan \in [Channels -> ChanStates]
  /\ tasks \subseteq Channels
  /\ queue \in Seq(XPCommands) /\ pending \in BOOLEAN
  /\ begun \in [XPCommands -> Int] /\ abandoned \in [XPCommands -> Nat]
  /\ xp \in XpStates /\ post \in PostStates /\ net \in NetStates
  /\ line \in BOOLEAN /\ started \in 0 .. MaxRequests
  /\ refused \in BOOLEAN /\ stuck \in BOOLEAN /\ fault \in BOOLEAN

Balanced(b, f, q, a) ==
  \A x \in XPCommands : b[x] = Sum(f, Channels, x) + Occurs(q, x) + a[x]

\* What the invariant says before a step, ...
LEMMA Known ==
  ASSUME IInv
  PROVE  /\ Others /\ SoundAll(cmd) /\ Locked /\ Scheduled /\ ChannelsAgree
         /\ PostAgrees /\ NetAgrees /\ Balanced(begun, cmd, queue, abandoned)
<1>1. Others  BY DEF IInv, TypeOK, Others, ChanStates, XpStates, PostStates, NetStates
<1>2. SoundAll(cmd)
  <2>1. cmd \in [Channels -> CommandRecords \cup {NoCommand}]  BY DEF IInv, TypeOK
  <2>2. ASSUME NEW c \in Channels, cmd[c] # NoCommand PROVE Sound(cmd[c])
    <3>1. cmd[c] \in CommandRecords  BY <2>1, <2>2
    <3>2. HoldingIsMarked(cmd[c]) /\ RoundsAddUp(cmd[c])
      BY <2>2 DEF IInv, CommandsAgree, Exists
    <3>3. /\ cmd[c].held \subseteq Entries(cmd[c])
          /\ cmd[c].list \subseteq Entries(cmd[c])
          /\ cmd[c].rem \in 0 .. cmd[c].req.interval
          /\ cmd[c].holdRem \in 0 .. cmd[c].req.hold
          /\ cmd[c].times \in {Infinite} \cup 0 .. cmd[c].req.times
      BY <2>2 DEF IInv, TypeOK
    <3> QED BY <3>1, <3>2, <3>3 DEF Sound
  <2> QED BY <2>1, <2>2 DEF SoundAll
<1>3. Balanced(begun, cmd, queue, abandoned)
  BY HeldIs DEF IInv, Accounted, Balanced, Queued, Occurs
<1> QED BY <1>1, <1>2, <1>3 DEF IInv

\* ... and what has to be shown after it.
LEMMA Assembled ==
  ASSUME Others', SoundAll(cmd'), Locked', Scheduled', ChannelsAgree', PostAgrees', NetAgrees',
         Balanced(begun', cmd', queue', abandoned')
  PROVE  IInv'
<1>1. cmd' \in [Channels -> CommandRecords \cup {NoCommand}]  BY DEF SoundAll
<1>2. ASSUME NEW c \in Channels, cmd'[c] # NoCommand
      PROVE  /\ HoldingIsMarked(cmd'[c]) /\ RoundsAddUp(cmd'[c])
             /\ cmd'[c].held \subseteq Entries(cmd'[c])
             /\ cmd'[c].list \subseteq Entries(cmd'[c])
             /\ cmd'[c].rem \in 0 .. cmd'[c].req.interval
             /\ cmd'[c].holdRem \in 0 .. cmd'[c].req.hold
             /\ cmd'[c].times \in {Infinite} \cup 0 .. cmd'[c].req.times
  BY <1>2 DEF SoundAll, Sound
<1>3. TypeOK'  BY <1>1, <1>2 DEF TypeOK, Others, ChanStates, XpStates, PostStates, NetStates
<1>4. CommandsAgree'  BY <1>2 DEF CommandsAgree, Exists
<1>5. Accounted'
  <2>1. \A x : Queued(x)' = Occurs(queue', x)  BY DEF Queued, Occurs
  <2>2. \A x \in XPCommands : Held(Channels, x)' = Sum(cmd', Channels, x)  BY HeldIs
  <2> QED BY <2>1, <2>2 DEF Accounted, Balanced
<1> QED BY <1>3, <1>4, <1>5 DEF IInv

\* Sound commands have the types the counting needs.
LEMMA SoundIsTyped == ASSUME NEW f, SoundAll(f) PROVE Typed(f)
BY DEF SoundAll, Sound, Typed

\* A sound command is a command.
LEMMA SoundExists == ASSUME NEW k, Sound(k) PROVE k # NoCommand
BY CommandIsNotNone DEF Sound

Sets(f, g, c, n) == g = [f EXCEPT ![c] = n]

\* One command replaced by a sound one.
LEMMA OneReplaced ==
  ASSUME NEW f, SoundAll(f), NEW c \in Channels, NEW n, Sound(n), NEW g, Sets(f, g, c, n)
  PROVE  /\ SoundAll(g) /\ g[c] = n /\ n # NoCommand
         /\ \A d \in Channels : d # c => g[d] = f[d]
<1>1. n \in CommandRecords /\ n # NoCommand  BY SoundExists DEF Sound
<1>2. g[c] = n /\ \A d \in Channels : d # c => g[d] = f[d]  BY DEF SoundAll, Sets
<1>3. SoundAll(g)  BY <1>1, <1>2 DEF SoundAll, Sets
<1> QED BY <1>1, <1>2, <1>3

\* f and g differ in one command, which is k here and n there.
Differ(f, g, c, k, n) ==
  /\ SoundAll(f) /\ SoundAll(g) /\ c \in Channels
  /\ f[c] = k /\ k # NoCommand /\ g[c] = n /\ n # NoCommand
  /\ \A d \in Channels : d # c => g[d] = f[d]

\* The command of one channel changes, and what all hold by as much.
LEMMA OneChanged ==
  ASSUME NEW f, NEW g, NEW c, NEW k, NEW n, Differ(f, g, c, k, n), NEW x
  PROVE  /\ Sum(g, Channels, x) - Holds(n, x) = Sum(f, Channels, x) - Holds(k, x)
         /\ Sum(f, Channels, x) \in Nat /\ Sum(g, Channels, x) \in Nat
         /\ Holds(k, x) \in Nat /\ Holds(n, x) \in Nat
<1>1. Typed(f) /\ Typed(g)  BY SoundIsTyped DEF Differ
<1>2. /\ f[c] # NoCommand /\ g[c] # NoCommand /\ c \in Channels /\ f[c] = k /\ g[c] = n
      /\ \A d \in Channels : d # c => g[d] = f[d]
  BY DEF Differ
<1>3. /\ Sum(g, Channels, x) - Holds(g[c], x) = Sum(f, Channels, x) - Holds(f[c], x)
      /\ Sum(f, Channels, x) \in Nat /\ Sum(g, Channels, x) \in Nat
      /\ Holds(f[c], x) \in Nat /\ Holds(g[c], x) \in Nat
  BY <1>1, <1>2, SumReplaced
<1> QED BY <1>2, <1>3

\* A command that holds what it held changes nothing for the others.
LEMMA HeldKept ==
  ASSUME NEW f, NEW g, NEW c, NEW k, NEW n, Differ(f, g, c, k, n),
         n.req = k.req, n.held = k.held, NEW x
  PROVE  Sum(g, Channels, x) = Sum(f, Channels, x)
<1>1. /\ Sum(g, Channels, x) - Holds(n, x) = Sum(f, Channels, x) - Holds(k, x)
      /\ Sum(f, Channels, x) \in Nat /\ Sum(g, Channels, x) \in Nat
      /\ Holds(k, x) \in Nat /\ Holds(n, x) \in Nat
  BY OneChanged
<1>2. Holds(n, x) = Holds(k, x)  BY DEF Holds, Count
<1> QED BY <1>1, <1>2

\* A new command holds nothing.
LEMMA Started ==
  ASSUME NEW f, SoundAll(f), NEW g, SoundAll(g), NEW c \in Channels, f[c] = NoCommand,
         g[c] # NoCommand, g[c].held = {},
         \A d \in Channels : d # c => g[d] = f[d], NEW x
  PROVE  Sum(g, Channels, x) = Sum(f, Channels, x) /\ Sum(f, Channels, x) \in Nat
<1> DEFINE O == {c}
           R == Channels \ {c}
<1>1. Typed(f) /\ Typed(g)  BY SoundIsTyped
<1>2. Channels = O \cup R /\ O \cap R = {} /\ Channels \subseteq Channels  OBVIOUS
<1>3. Sum(g, O, x) = 0
  <2>1. Sum(g, O, x) = Holds(g[c], x)  BY <1>1, SumOne
  <2>2. \A n : Count(n, {}, x) = 0  BY CountNone
  <2> QED BY <2>1, <2>2 DEF Holds
<1>4. Sum(f, O, x) = 0
  <2>1. \A d \in O : f[d] = NoCommand  OBVIOUS
  <2> HIDE DEF O
  <2> QED BY <2>1, SumNone
<1>5. Sum(f, R, x) = Sum(g, R, x)
  <2>1. \A d \in R : f[d] = g[d]  OBVIOUS
  <2> HIDE DEF R
  <2> QED BY <2>1, SumSame
<1> HIDE DEF O, R
<1>6. /\ Sum(f, Channels, x) = Sum(f, O, x) + Sum(f, R, x)
      /\ Sum(g, Channels, x) = Sum(g, O, x) + Sum(g, R, x)
  BY <1>1, <1>2, SumSplit
<1>7. Sum(f, Channels, x) \in Nat  BY <1>1, <1>2, PairsFinite
<1> QED BY <1>3, <1>4, <1>5, <1>6, <1>7

\* The commands of the channels in S are destroyed.
LEMMA Destroyed ==
  ASSUME NEW f, SoundAll(f), NEW S, S \subseteq Channels,
         NEW g, g = [c \in Channels |-> IF c \in S THEN NoCommand ELSE f[c]]
  PROVE  /\ SoundAll(g)
         /\ \A x : /\ Sum(f, Channels, x) = Sum(g, Channels, x) + Sum(f, S, x)
                   /\ Sum(f, S, x) \in Nat /\ Sum(g, Channels, x) \in Nat
<1>1. SoundAll(g)  BY DEF SoundAll
<1>2. Typed(f) /\ Typed(g)  BY <1>1, SoundIsTyped
<1>3. ASSUME NEW x PROVE /\ Sum(f, Channels, x) = Sum(g, Channels, x) + Sum(f, S, x)
                         /\ Sum(f, S, x) \in Nat /\ Sum(g, Channels, x) \in Nat
  <2> DEFINE R == Channels \ S
  <2>1. Channels = R \cup S /\ R \cap S = {} /\ Channels \subseteq Channels /\ R \subseteq Channels
    OBVIOUS
  <2>2. Sum(f, R, x) = Sum(g, R, x)
    <3>1. \A d \in R : f[d] = g[d]  OBVIOUS
    <3> HIDE DEF R
    <3> QED BY <3>1, SumSame
  <2>3. Sum(g, S, x) = 0
    <3>1. \A d \in S : g[d] = NoCommand  OBVIOUS
    <3> QED BY <3>1, SumNone
  <2> HIDE DEF R
  <2>4. /\ Sum(f, Channels, x) = Sum(f, R, x) + Sum(f, S, x)
        /\ Sum(g, Channels, x) = Sum(g, R, x) + Sum(g, S, x)
    BY <2>1, <1>2, SumSplit
  <2>5. Sum(f, S, x) \in Nat /\ Sum(g, R, x) \in Nat  BY <1>2, <2>1, PairsFinite
  <2> QED BY <2>2, <2>3, <2>4, <2>5
<1> QED BY <1>1, <1>3

-----------------------------------------------------------------------------
(* What the parts of the actions do to the commands. *)

SetsTask(f, g, c, b) == g = [f EXCEPT ![c].task = b]

\* Scheduling and unscheduling leave what is held alone.
LEMMA TaskChanged ==
  ASSUME NEW f, SoundAll(f), NEW g, NEW c \in Channels, f[c] # NoCommand, NEW b \in BOOLEAN,
         SetsTask(f, g, c, b)
  PROVE  /\ SoundAll(g) /\ g[c] # NoCommand /\ g[c].task = b
         /\ \A d \in Channels : d # c => g[d] = f[d]
         /\ \A x : Sum(g, Channels, x) = Sum(f, Channels, x)
<1>1. \E k, n : k = f[c] /\ n = [k EXCEPT !.task = b] /\ g = [f EXCEPT ![c] = n]
  BY DEF SetsTask
<1>2. PICK k, n : k = f[c] /\ n = [k EXCEPT !.task = b] /\ g = [f EXCEPT ![c] = n]
  BY <1>1
<1>3. k = f[c] /\ k # NoCommand /\ Sound(k) /\ n = [k EXCEPT !.task = b]  BY <1>2 DEF SoundAll
<1>4. Sound(n) /\ n.req = k.req /\ n.task = b /\ n.held = k.held  BY <1>3, Marked
<1>5. Sets(f, g, c, n)  BY <1>2 DEF Sets
<1>6. /\ SoundAll(g) /\ g[c] = n /\ n # NoCommand
      /\ \A d \in Channels : d # c => g[d] = f[d]
  BY <1>4, <1>5, OneReplaced
<1>7. Differ(f, g, c, k, n)  BY <1>3, <1>6 DEF Differ
<1>8. \A x : Sum(g, Channels, x) = Sum(f, Channels, x)  BY <1>4, <1>7, HeldKept
<1> QED BY <1>4, <1>6, <1>8

\* Counting is all there is to the balance.
LEMMA BalanceKept ==
  ASSUME NEW b, NEW f, NEW q, NEW a, Balanced(b, f, q, a),
         NEW g, \A x : Sum(g, Channels, x) = Sum(f, Channels, x)
  PROVE  Balanced(b, g, q, a)
BY DEF Balanced

\* The release of a command's entries is sound ...
LEMMA ReleasedIs ==
  ASSUME NEW k, Sound(k), NEW failing, failing \subseteq k.held
  PROVE  /\ Sound(Released(k, failing)) /\ Released(k, failing).req = k.req
         /\ Released(k, failing).task = k.task
         /\ Released(k, failing).held = k.held \cap failing
<1> DEFINE list == IF k.req.kind = "CMHD" THEN k.list \ (k.held \ failing) ELSE k.list
           n == [k EXCEPT !.held = k.held \cap failing, !.list = list]
<1>1. k \in CommandRecords /\ k.held \subseteq Entries(k) /\ list \subseteq Entries(k)
  BY DEF Sound
<1>2. list \in SUBSET Nat /\ k.held \cap failing \in SUBSET Nat  BY <1>1, CommandIs
<1>3. Released(k, failing) = n  BY DEF Released
<1> HIDE DEF list
<1>4. /\ n \in CommandRecords /\ n.req = k.req /\ n.task = k.task /\ n.init = k.init
      /\ n.finishing = k.finishing /\ n.holding = k.holding /\ n.held = k.held \cap failing
      /\ n.list = list /\ n.times = k.times /\ n.rem = k.rem /\ n.holdRem = k.holdRem
      /\ n.rounds = k.rounds
  BY <1>1, <1>2 DEF CommandRecords
<1> HIDE DEF n
<1>5. Entries(n) = Entries(k)  BY <1>4 DEF Entries
<1>6. HoldingIsMarked(n)  BY <1>4 DEF HoldingIsMarked, Sound
<1>7. RoundsAddUp(n)  BY <1>4 DEF RoundsAddUp, Sound
<1>8. Sound(n)  BY <1>1, <1>4, <1>5, <1>6, <1>7 DEF Sound
<1> QED BY <1>3, <1>4, <1>8

Releases(k, n, rest) ==
  /\ Sound(k) /\ Sound(n) /\ n.req = k.req
  /\ n.held \cup rest = k.held /\ n.held \cap rest = {}

\* ... and what is released is queued.
LEMMA ReleasedCounts ==
  ASSUME NEW k, NEW n, NEW rest, Releases(k, n, rest), NEW x
  PROVE  /\ Holds(k, x) = Holds(n, x) + Count(k, rest, x)
         /\ Holds(k, x) \in Nat /\ Holds(n, x) \in Nat /\ Count(k, rest, x) \in Nat
<1> DEFINE P == n.held
           H == k.held
<1>1. k \in CommandRecords /\ H \subseteq Entries(k) /\ H = P \cup rest /\ P \cap rest = {}
  BY DEF Sound, Releases
<1>2. P \subseteq Entries(k) /\ rest \subseteq Entries(k)  BY <1>1
<1>3. Count(n, P, x) = Count(k, P, x)  BY DEF Count, Releases
<1> HIDE DEF P, H
<1>4. Count(k, H, x) = Count(k, P, x) + Count(k, rest, x)  BY <1>1, CountSplit
<1>5. Count(k, H, x) \in Nat /\ Count(k, P, x) \in Nat /\ Count(k, rest, x) \in Nat
  BY <1>1, <1>2, CountType
<1> QED BY <1>3, <1>4, <1>5 DEF Holds, P, H

\* What a command no longer holds is queued: of the sum s the part that it held
\* goes down from hk to hn by e, and the queue goes up from q to p by as much.
PassedOn(b, s, t, hn, hk, e, q, p, a) ==
  /\ b = s + q + a /\ t - hn = s - hk /\ hk = hn + e /\ p = q + e
  /\ s \in Nat /\ t \in Nat /\ hn \in Nat /\ hk \in Nat /\ e \in Nat /\ q \in Nat
  /\ a \in Nat /\ b \in Int

\* The count stays the sum.
LEMMA BalancePassedOn ==
  \A b, s, t, hn, hk, e, q, p, a : PassedOn(b, s, t, hn, hk, e, q, p, a) => b = t + p + a
BY DEF PassedOn

\* The second half of terminate keeps the balance and unschedules for good.
LEMMA ReleaseEffect ==
  ASSUME SoundAll(cmd), NEW c \in Channels, cmd[c] # NoCommand,
         queue \in Seq(XPCommands), pending \in BOOLEAN, refused \in BOOLEAN, stuck \in BOOLEAN,
         begun \in [XPCommands -> Int], abandoned \in [XPCommands -> Nat],
         Balanced(begun, cmd, queue, abandoned),
         NEW k, Sound(k), k.req = cmd[c].req, k.held = cmd[c].held,
         NEW failing, failing \subseteq k.held, NEW state,
         ReleaseAll(c, k, state, failing)
  PROVE  /\ SoundAll(cmd') /\ cmd'[c] # NoCommand /\ cmd'[c].task = k.task
         /\ \A d \in Channels : d # c => cmd'[d] = cmd[d]
         /\ queue' \in Seq(XPCommands) /\ pending' \in BOOLEAN /\ refused' \in BOOLEAN
         /\ stuck' \in BOOLEAN
         /\ \E doomed \in BOOLEAN : chan' = [chan EXCEPT ![c] = [state |-> state, doomed |-> doomed]]
         /\ Balanced(begun, cmd', queue', abandoned)
<1> DEFINE n == Released(k, failing)
           rest == k.held \ failing
           ends == Ends(k, rest)
           old == cmd[c]
<1>1. /\ queue' = queue \o ends
      /\ pending' = (pending \/ rest # {}) /\ refused' = (refused \/ failing # {})
      /\ cmd' = [cmd EXCEPT ![c] = n]
      /\ chan' = [chan EXCEPT ![c] = [state |-> state, doomed |-> ~TerminateFails(n)]]
      /\ stuck' = (stuck \/ (TerminateFails(n) /\ failing = {}))
  BY DEF ReleaseAll, QueueEnds
<1>2. Sound(n) /\ n.req = k.req /\ n.task = k.task /\ n.held = k.held \cap failing
  BY ReleasedIs
<1>3. k \in CommandRecords /\ rest \subseteq Entries(k)  BY DEF Sound
<1>4. pending' \in BOOLEAN /\ refused' \in BOOLEAN /\ stuck' \in BOOLEAN  BY <1>1
<1>5. \E doomed \in BOOLEAN : chan' = [chan EXCEPT ![c] = [state |-> state, doomed |-> doomed]]
  BY <1>1
<1>6. /\ old = cmd[c] /\ old # NoCommand /\ rest = k.held \ failing
      /\ Sets(cmd, cmd', c, n)
  BY <1>1 DEF Sets
<1> HIDE DEF n, rest, ends, old
<1>7. /\ SoundAll(cmd') /\ cmd'[c] = n /\ n # NoCommand
      /\ \A d \in Channels : d # c => cmd'[d] = cmd[d]
  BY <1>2, <1>6, OneReplaced
<1>8. ends \in Seq(XPCommands) /\ \A x \in XPCommands : Occurs(ends, x) = Count(k, rest, x)
  BY <1>3, EndsCount DEF ends
<1>9. queue' \in Seq(XPCommands)  BY <1>1, <1>8, OccursAfter
<1>10. ASSUME NEW x \in XPCommands
       PROVE  begun[x] = Sum(cmd', Channels, x) + Occurs(queue', x) + abandoned[x]
  <2>1. begun[x] = Sum(cmd, Channels, x) + Occurs(queue, x) + abandoned[x]  BY DEF Balanced
  <2>2. /\ Sum(cmd', Channels, x) - Holds(n, x) = Sum(cmd, Channels, x) - Holds(old, x)
        /\ Sum(cmd, Channels, x) \in Nat /\ Sum(cmd', Channels, x) \in Nat
    <3>1. Differ(cmd, cmd', c, old, n)  BY <1>6, <1>7 DEF Differ
    <3> QED BY <3>1, OneChanged
  <2>3. Holds(old, x) = Holds(k, x)  BY <1>6 DEF Holds, Count
  <2>4. /\ Holds(k, x) = Holds(n, x) + Count(k, rest, x)
        /\ Holds(k, x) \in Nat /\ Holds(n, x) \in Nat /\ Count(k, rest, x) \in Nat
    <3>1. Releases(k, n, rest)  BY <1>2, <1>6 DEF Releases
    <3> QED BY <3>1, ReleasedCounts
  <2>5. Occurs(queue', x) = Occurs(queue, x) + Count(k, rest, x)
    <3>1. Occurs(queue \o ends, x) = Occurs(queue, x) + Occurs(ends, x)  BY <1>8, OccursAfter
    <3> QED BY <3>1, <1>1, <1>8
  <2>6. Occurs(queue, x) \in Nat /\ abandoned[x] \in Nat /\ begun[x] \in Int  BY OccursType
  <2>7. PassedOn(begun[x], Sum(cmd, Channels, x), Sum(cmd', Channels, x), Holds(n, x),
                 Holds(k, x), Count(k, rest, x), Occurs(queue, x), Occurs(queue', x),
                 abandoned[x])
    BY <2>1, <2>2, <2>3, <2>4, <2>5, <2>6 DEF PassedOn
  <2> QED BY <2>7, BalancePassedOn
<1>11. Balanced(begun, cmd', queue', abandoned)  BY <1>10 DEF Balanced
<1> QED BY <1>2, <1>4, <1>5, <1>7, <1>9, <1>11

\* What is destroyed is given up.
LEMMA DestroyEffect ==
  ASSUME SoundAll(cmd), NEW S, S \subseteq Channels, queue \in Seq(XPCommands),
         abandoned \in [XPCommands -> Nat], Balanced(begun, cmd, queue, abandoned),
         Destroy(S)
  PROVE  /\ SoundAll(cmd') /\ abandoned' \in [XPCommands -> Nat]
         /\ \A c \in S : cmd'[c] = NoCommand /\ chan'[c] = NoChannel
         /\ \A c \in Channels \ S : cmd'[c] = cmd[c] /\ chan'[c] = chan[c]
         /\ chan' = [c \in Channels |-> IF c \in S THEN NoChannel ELSE chan[c]]
         /\ Balanced(begun, cmd', queue, abandoned')
<1>1. /\ chan' = [c \in Channels |-> IF c \in S THEN NoChannel ELSE chan[c]]
      /\ cmd' = [c \in Channels |-> IF c \in S THEN NoCommand ELSE cmd[c]]
      /\ abandoned' = [x \in XPCommands |-> abandoned[x] + Held(S, x)]
  BY DEF Destroy
<1>2. /\ \A c \in S : cmd'[c] = NoCommand /\ chan'[c] = NoChannel
      /\ \A c \in Channels \ S : cmd'[c] = cmd[c] /\ chan'[c] = chan[c]
  BY <1>1
<1>3. /\ SoundAll(cmd')
      /\ \A x : /\ Sum(cmd, Channels, x) = Sum(cmd', Channels, x) + Sum(cmd, S, x)
                /\ Sum(cmd, S, x) \in Nat /\ Sum(cmd', Channels, x) \in Nat
  BY <1>1, Destroyed
<1>4. ASSUME NEW x \in XPCommands
      PROVE  /\ abandoned'[x] = abandoned[x] + Sum(cmd, S, x) /\ abandoned'[x] \in Nat
             /\ begun[x] = Sum(cmd', Channels, x) + Occurs(queue, x) + abandoned'[x]
  <2>1. abandoned'[x] = abandoned[x] + Held(S, x)  BY <1>1
  <2>2. Held(S, x) = Sum(cmd, S, x)  BY HeldIs
  <2>3. abandoned'[x] = abandoned[x] + Sum(cmd, S, x)  BY <2>1, <2>2
  <2>4. begun[x] = Sum(cmd, Channels, x) + Occurs(queue, x) + abandoned[x]  BY DEF Balanced
  <2>5. Occurs(queue, x) \in Nat /\ abandoned[x] \in Nat  BY OccursType
  <2> DEFINE s == Sum(cmd, Channels, x)
             t == Sum(cmd', Channels, x)
             u == Sum(cmd, S, x)
             q == Occurs(queue, x)
             a == abandoned[x]
             n == abandoned'[x]
             b == begun[x]
  <2>6. /\ b = s + q + a /\ s = t + u /\ n = a + u
        /\ t \in Nat /\ u \in Nat /\ q \in Nat /\ a \in Nat
    BY <2>3, <2>4, <2>5, <1>3
  <2> HIDE DEF s, t, u, q, a, n, b
  <2>7. b = t + q + n /\ n \in Nat  BY <2>6
  <2> QED BY <2>6, <2>7 DEF t, u, q, a, n, b
<1>5. abandoned' \in [XPCommands -> Nat]  BY <1>1, <1>4
<1>6. Balanced(begun, cmd', queue, abandoned')  BY <1>4 DEF Balanced
<1> QED BY <1>1, <1>2, <1>3, <1>5, <1>6

-----------------------------------------------------------------------------
(* The steps that leave the commands alone. *)

\* Nothing that counts changes.
LEMMA Quiet ==
  ASSUME SoundAll(cmd), Balanced(begun, cmd, queue, abandoned),
         UNCHANGED <<cmd, queue, begun, abandoned>>
  PROVE  SoundAll(cmd') /\ Balanced(begun', cmd', queue', abandoned')
OBVIOUS

\* The flight loop takes the schedule and runs what is in it.
LEMMA FrameBeginStep == ASSUME IInv, FrameBegin PROVE IInv'
<1>1. /\ Others /\ SoundAll(cmd) /\ Locked /\ Scheduled /\ ChannelsAgree
      /\ PostAgrees /\ NetAgrees /\ Balanced(begun, cmd, queue, abandoned)
  BY Known
<1>2. /\ xp.pc = "frame" /\ schedule = Free /\ schedule' = "xp" /\ flightLoop' = "xp"
      /\ xp' = [pc |-> "run", todo |-> tasks]
  BY DEF FrameBegin
<1>3. /\ UNCHANGED <<chan, cmd, tasks, queue, pending, begun>>
      /\ UNCHANGED <<line, closing, life, post, net, started, refused, abandoned, stuck, fault>>
  BY DEF FrameBegin, sessionVars, xpVars, history
<1>4. SoundAll(cmd') /\ Balanced(begun', cmd', queue', abandoned')  BY <1>1, <1>3, Quiet
<1>5. Others'
  <2>1. xp' \in XpStates  BY <1>1, <1>2 DEF Others, XpStates
  <2> QED BY <1>1, <1>2, <1>3, <2>1 DEF Others
<1>6. Locked'  BY <1>1, <1>2, <1>3 DEF Others, Locked, Free, XpStates, PostStates
<1>7. Scheduled'  BY <1>1, <1>2, <1>3 DEF Others, Scheduled, Locked, Exists, XpStates, PostStates
<1>8. ChannelsAgree'  BY <1>1, <1>3 DEF ChannelsAgree, Exists
<1>9. PostAgrees'  BY <1>1, <1>2, <1>3 DEF Others, PostAgrees, Exists, PostStates
<1>10. NetAgrees'  BY <1>1, <1>2, <1>3 DEF Others, NetAgrees, Exists, NetStates
<1> QED BY <1>4, <1>5, <1>6, <1>7, <1>8, <1>9, <1>10, Assembled

\* All tasks have run.
LEMMA RunTasksEndStep == ASSUME IInv, RunTasksEnd PROVE IInv'
<1>1. /\ Others /\ SoundAll(cmd) /\ Locked /\ Scheduled /\ ChannelsAgree
      /\ PostAgrees /\ NetAgrees /\ Balanced(begun, cmd, queue, abandoned)
  BY Known
<1>2. /\ xp.pc = "run" /\ xp.todo = {} /\ schedule' = Free
      /\ xp' = [xp EXCEPT !.pc = "after"]
  BY DEF RunTasksEnd
<1>3. /\ UNCHANGED <<chan, cmd, tasks, queue, pending, begun>>
      /\ UNCHANGED <<line, flightLoop, closing, life, post, net, started, refused, abandoned, stuck, fault>>
  BY DEF RunTasksEnd, sessionVars, xpVars, history
<1>4. SoundAll(cmd') /\ Balanced(begun', cmd', queue', abandoned')  BY <1>1, <1>3, Quiet
<1>5. Others'
  <2>1. xp' \in XpStates  BY <1>1, <1>2 DEF Others, XpStates
  <2> QED BY <1>1, <1>2, <1>3, <2>1 DEF Others
<1>6. Locked'  BY <1>1, <1>2, <1>3 DEF Others, Locked, Free, XpStates, PostStates
<1>7. Scheduled'  BY <1>1, <1>2, <1>3 DEF Others, Scheduled, Locked, Exists, XpStates, PostStates
<1>8. ChannelsAgree'  BY <1>1, <1>3 DEF ChannelsAgree, Exists
<1>9. PostAgrees'  BY <1>1, <1>2, <1>3 DEF Others, PostAgrees, Exists, PostStates
<1>10. NetAgrees'  BY <1>1, <1>2, <1>3 DEF Others, NetAgrees, Exists, NetStates
<1> QED BY <1>4, <1>5, <1>6, <1>7, <1>8, <1>9, <1>10, Assembled

\* The frame ends and wakes post-processing.
LEMMA FrameEndStep == ASSUME IInv, FrameEnd PROVE IInv'
<1>1. /\ Others /\ SoundAll(cmd) /\ Locked /\ Scheduled /\ ChannelsAgree
      /\ PostAgrees /\ NetAgrees /\ Balanced(begun, cmd, queue, abandoned)
  BY Known
<1>2. /\ xp.pc = "end" /\ flightLoop' = Free /\ xp' = [xp EXCEPT !.pc = "frame"]
      /\ post' = [post EXCEPT !.pc = IF @ = "wait" THEN "woken" ELSE @]
  BY DEF FrameEnd
<1>3. /\ UNCHANGED <<chan, cmd, tasks, queue, pending, begun>>
      /\ UNCHANGED <<line, schedule, closing, life, net, started, refused, abandoned, stuck, fault>>
  BY DEF FrameEnd, sessionVars, xpVars, history
<1>4. SoundAll(cmd') /\ Balanced(begun', cmd', queue', abandoned')  BY <1>1, <1>3, Quiet
<1>5. Others'
  <2>1. xp' \in XpStates  BY <1>1, <1>2 DEF Others, XpStates
  <2>2. post' \in PostStates  BY <1>1, <1>2 DEF Others, PostStates
  <2> QED BY <1>1, <1>2, <1>3, <2>1, <2>2 DEF Others
<1>6. Locked'  BY <1>1, <1>2, <1>3 DEF Others, Locked, Free, XpStates, PostStates
<1>7. Scheduled'  BY <1>1, <1>2, <1>3 DEF Others, Scheduled, Locked, Exists, XpStates, PostStates
<1>8. ChannelsAgree'  BY <1>1, <1>3 DEF ChannelsAgree, Exists
<1>9. PostAgrees'  BY <1>1, <1>2, <1>3 DEF Others, PostAgrees, Exists, PostStates
<1>10. NetAgrees'  BY <1>1, <1>2, <1>3 DEF Others, NetAgrees, Exists, NetStates
<1> QED BY <1>4, <1>5, <1>6, <1>7, <1>8, <1>9, <1>10, Assembled

\* Post-processing takes the schedule.
LEMMA PostWakeStep == ASSUME IInv, PostWake PROVE IInv'
<1>1. /\ Others /\ SoundAll(cmd) /\ Locked /\ Scheduled /\ ChannelsAgree
      /\ PostAgrees /\ NetAgrees /\ Balanced(begun, cmd, queue, abandoned)
  BY Known
<1>2. /\ post.pc = "woken" /\ schedule = Free /\ schedule' = "post" /\ flightLoop' = "post"
      /\ post' = [pc |-> "run", todo |-> tasks, at |-> 0]
  BY DEF PostWake
<1>3. /\ UNCHANGED <<chan, cmd, tasks, queue, pending, begun>>
      /\ UNCHANGED <<line, closing, life, xp, net, started, refused, abandoned, stuck, fault>>
  BY DEF PostWake, sessionVars, xpVars, history
<1>4. SoundAll(cmd') /\ Balanced(begun', cmd', queue', abandoned')  BY <1>1, <1>3, Quiet
<1>5. Others'
  <2>1. post' \in PostStates  BY <1>1, <1>2 DEF Others, PostStates
  <2> QED BY <1>1, <1>2, <1>3, <2>1 DEF Others
<1>6. Locked'  BY <1>1, <1>2, <1>3 DEF Others, Locked, Free, XpStates, PostStates
<1>7. Scheduled'  BY <1>1, <1>2, <1>3 DEF Others, Scheduled, Locked, Exists, XpStates, PostStates
<1>8. ChannelsAgree'  BY <1>1, <1>3 DEF ChannelsAgree, Exists
<1>9. PostAgrees'  BY <1>1, <1>2, <1>3 DEF Others, PostAgrees, Exists, PostStates
<1>10. NetAgrees'  BY <1>1, <1>2, <1>3 DEF Others, NetAgrees, Exists, NetStates
<1> QED BY <1>4, <1>5, <1>6, <1>7, <1>8, <1>9, <1>10, Assembled

\* The session is to be destroyed.
LEMMA NetPendStep == ASSUME IInv, NetPend PROVE IInv'
<1>1. /\ Others /\ SoundAll(cmd) /\ Locked /\ Scheduled /\ ChannelsAgree
      /\ PostAgrees /\ NetAgrees /\ Balanced(begun, cmd, queue, abandoned)
  BY Known
<1>2. /\ net.pc = "watch" /\ life' = "pending" /\ net' = [net EXCEPT !.pc = "sweep"]
  BY DEF NetPend
<1>3. /\ UNCHANGED <<chan, cmd, tasks, queue, pending, begun>>
      /\ UNCHANGED <<line, flightLoop, schedule, closing, xp, post, started, refused, abandoned, stuck, fault>>
  BY DEF NetPend, sessionVars, xpVars, history
<1>4. SoundAll(cmd') /\ Balanced(begun', cmd', queue', abandoned')  BY <1>1, <1>3, Quiet
<1>5. Others'
  <2>1. net' \in NetStates  BY <1>1, <1>2 DEF Others, NetStates
  <2> QED BY <1>1, <1>2, <1>3, <2>1 DEF Others
<1>6. Locked'  BY <1>1, <1>2, <1>3 DEF Others, Locked, Free, XpStates, PostStates
<1>7. Scheduled'  BY <1>1, <1>2, <1>3 DEF Others, Scheduled, Locked, Exists, XpStates, PostStates
<1>8. ChannelsAgree'  BY <1>1, <1>3 DEF ChannelsAgree, Exists
<1>9. PostAgrees'  BY <1>1, <1>2, <1>3 DEF Others, PostAgrees, Exists, PostStates
<1>10. NetAgrees'  BY <1>1, <1>2, <1>3 DEF Others, NetAgrees, Exists, NetStates
<1> QED BY <1>4, <1>5, <1>6, <1>7, <1>8, <1>9, <1>10, Assembled

\* The sweep goes on.
LEMMA NetNextChannelStep == ASSUME IInv, NetNextChannel PROVE IInv'
<1>1. /\ Others /\ SoundAll(cmd) /\ Locked /\ Scheduled /\ ChannelsAgree
      /\ PostAgrees /\ NetAgrees /\ Balanced(begun, cmd, queue, abandoned)
  BY Known
<1>2. /\ net.pc = "next" /\ net' = [pc |-> "sweep", at |-> net.at + 1]
  BY DEF NetNextChannel
<1>3. /\ UNCHANGED <<chan, cmd, tasks, queue, pending, begun>>
      /\ UNCHANGED <<line, flightLoop, schedule, closing, life, xp, post, started, refused, abandoned, stuck, fault>>
  BY DEF NetNextChannel, sessionVars, xpVars, history
<1>4. SoundAll(cmd') /\ Balanced(begun', cmd', queue', abandoned')  BY <1>1, <1>3, Quiet
<1>5. Others'
  <2>1. net' \in NetStates  BY <1>1, <1>2, HeldCommandsAssumption DEF Others, NetStates, NetAgrees, Channels
  <2> QED BY <1>1, <1>2, <1>3, <2>1 DEF Others
<1>6. Locked'  BY <1>1, <1>2, <1>3 DEF Others, Locked, Free, XpStates, PostStates
<1>7. Scheduled'  BY <1>1, <1>2, <1>3 DEF Others, Scheduled, Locked, Exists, XpStates, PostStates
<1>8. ChannelsAgree'  BY <1>1, <1>3 DEF ChannelsAgree, Exists
<1>9. PostAgrees'  BY <1>1, <1>2, <1>3 DEF Others, PostAgrees, Exists, PostStates
<1>10. NetAgrees'  BY <1>1, <1>2, <1>3 DEF Others, NetAgrees, Exists, NetStates
<1> QED BY <1>4, <1>5, <1>6, <1>7, <1>8, <1>9, <1>10, Assembled

\* The sweep ends.
LEMMA NetFreeStep == ASSUME IInv, NetFree PROVE IInv'
<1>1. /\ Others /\ SoundAll(cmd) /\ Locked /\ Scheduled /\ ChannelsAgree
      /\ PostAgrees /\ NetAgrees /\ Balanced(begun, cmd, queue, abandoned)
  BY Known
<1>2. /\ net.pc = "sweep" /\ life' = "freed" /\ net' = [net EXCEPT !.pc = "done"]
  BY DEF NetFree
<1>3. /\ UNCHANGED <<chan, cmd, tasks, queue, pending, begun>>
      /\ UNCHANGED <<line, flightLoop, schedule, closing, xp, post, started, refused, abandoned, stuck, fault>>
  BY DEF NetFree, sessionVars, xpVars, history
<1>4. SoundAll(cmd') /\ Balanced(begun', cmd', queue', abandoned')  BY <1>1, <1>3, Quiet
<1>5. Others'
  <2>1. net' \in NetStates  BY <1>1, <1>2 DEF Others, NetStates
  <2> QED BY <1>1, <1>2, <1>3, <2>1 DEF Others
<1>6. Locked'  BY <1>1, <1>2, <1>3 DEF Others, Locked, Free, XpStates, PostStates
<1>7. Scheduled'  BY <1>1, <1>2, <1>3 DEF Others, Scheduled, Locked, Exists, XpStates, PostStates
<1>8. ChannelsAgree'  BY <1>1, <1>3 DEF ChannelsAgree, Exists
<1>9. PostAgrees'  BY <1>1, <1>2, <1>3 DEF Others, PostAgrees, Exists, PostStates
<1>10. NetAgrees'  BY <1>1, <1>2, <1>3 DEF Others, NetAgrees, Exists, NetStates
<1> QED BY <1>4, <1>5, <1>6, <1>7, <1>8, <1>9, <1>10, Assembled

\* The connection is lost.
LEMMA DisconnectStep == ASSUME IInv, Disconnect PROVE IInv'
<1>1. /\ Others /\ SoundAll(cmd) /\ Locked /\ Scheduled /\ ChannelsAgree
      /\ PostAgrees /\ NetAgrees /\ Balanced(begun, cmd, queue, abandoned)
  BY Known
<1>2. closing' = TRUE /\ line' \in BOOLEAN
  BY DEF Disconnect
<1>3. /\ UNCHANGED <<chan, cmd, tasks, queue, pending, begun>>
      /\ UNCHANGED <<flightLoop, schedule, life, xp, post, net, started, refused, abandoned, stuck, fault>>
  BY DEF Disconnect, sessionVars, xpVars, history
<1>4. SoundAll(cmd') /\ Balanced(begun', cmd', queue', abandoned')  BY <1>1, <1>3, Quiet
<1>5. Others'
  <2> QED BY <1>1, <1>2, <1>3 DEF Others
<1>6. Locked'  BY <1>1, <1>2, <1>3 DEF Others, Locked, Free, XpStates, PostStates
<1>7. Scheduled'  BY <1>1, <1>2, <1>3 DEF Others, Scheduled, Locked, Exists, XpStates, PostStates
<1>8. ChannelsAgree'  BY <1>1, <1>3 DEF ChannelsAgree, Exists
<1>9. PostAgrees'  BY <1>1, <1>2, <1>3 DEF Others, PostAgrees, Exists, PostStates
<1>10. NetAgrees'  BY <1>1, <1>2, <1>3 DEF Others, NetAgrees, Exists, NetStates
<1> QED BY <1>4, <1>5, <1>6, <1>7, <1>8, <1>9, <1>10, Assembled

\* Two threads meet in one command.
LEMMA NetRaceStep == ASSUME IInv, NetRace PROVE IInv'
<1>1. /\ Others /\ SoundAll(cmd) /\ Locked /\ Scheduled /\ ChannelsAgree
      /\ PostAgrees /\ NetAgrees /\ Balanced(begun, cmd, queue, abandoned)
  BY Known
<1>2. /\ fault' = TRUE
  BY DEF NetRace
<1>3. /\ UNCHANGED <<chan, cmd, tasks, queue, pending, begun>>
      /\ UNCHANGED <<line, flightLoop, schedule, closing, life, xp, post, net, started, refused, abandoned, stuck>>
  BY DEF NetRace, sessionVars, xpVars, history
<1>4. SoundAll(cmd') /\ Balanced(begun', cmd', queue', abandoned')  BY <1>1, <1>3, Quiet
<1>5. Others'
  <2> QED BY <1>1, <1>2, <1>3 DEF Others
<1>6. Locked'  BY <1>1, <1>2, <1>3 DEF Others, Locked, Free, XpStates, PostStates
<1>7. Scheduled'  BY <1>1, <1>2, <1>3 DEF Others, Scheduled, Locked, Exists, XpStates, PostStates
<1>8. ChannelsAgree'  BY <1>1, <1>3 DEF ChannelsAgree, Exists
<1>9. PostAgrees'  BY <1>1, <1>2, <1>3 DEF Others, PostAgrees, Exists, PostStates
<1>10. NetAgrees'  BY <1>1, <1>2, <1>3 DEF Others, NetAgrees, Exists, NetStates
<1> QED BY <1>4, <1>5, <1>6, <1>7, <1>8, <1>9, <1>10, Assembled

\* The sweep looks at the next channel.
LEMMA NetVisitStep == ASSUME IInv, NetVisit PROVE IInv'
<1>1. /\ Others /\ SoundAll(cmd) /\ Locked /\ Scheduled /\ ChannelsAgree
      /\ PostAgrees /\ NetAgrees /\ Balanced(begun, cmd, queue, abandoned)
  BY Known
<1> DEFINE c == net.at
           p == IF chan[c] = NoChannel THEN "next" ELSE IF ~MustTerminate(c) THEN "destroy"
                ELSE IF cmd[c].task THEN "unschedule" ELSE "release"
<1>2. net.pc = "sweep" /\ c \in Channels /\ net' = [net EXCEPT !.pc = p]
  BY DEF NetVisit
<1>3. /\ UNCHANGED <<chan, cmd, tasks, queue, pending, begun>>
      /\ UNCHANGED <<line, flightLoop, schedule, closing, life, xp, post, started, refused,
                     abandoned, stuck, fault>>
  BY DEF NetVisit, sessionVars, xpVars, history
<1>4. SoundAll(cmd') /\ Balanced(begun', cmd', queue', abandoned')  BY <1>1, <1>3, Quiet
<1>5. chan[c] # NoChannel => Exists(c)
  <2>1. chan[c] \in ChanStates  BY <1>1, <1>2 DEF Others
  <2>2. chan[c].state = "none" => ~chan[c].doomed  BY <1>1, <1>2 DEF ChannelsAgree, Exists
  <2>3. chan[c].state = "none" => chan[c] = NoChannel  BY <2>1, <2>2 DEF ChanStates, NoChannel
  <2> QED BY <2>3, <1>1, <1>2 DEF ChannelsAgree, Exists
<1>6. /\ p \in {"next", "destroy", "unschedule", "release"}
      /\ p # "next" => Exists(c)
      /\ p \in {"destroy", "release"} => ~cmd[c].task
  <2>1. p = "destroy" => chan[c].doomed  BY DEF MustTerminate
  <2>2. p = "destroy" => ~cmd[c].task  BY <2>1, <1>1, <1>2 DEF ChannelsAgree
  <2>3. p = "release" => ~cmd[c].task  OBVIOUS
  <2> QED BY <1>5, <2>2, <2>3
<1>7. net'.pc = p /\ net'.at = c /\ net' \in NetStates
  BY <1>1, <1>2, <1>6 DEF Others, NetStates
<1> HIDE DEF p
<1>8. Others'  BY <1>1, <1>3, <1>7 DEF Others
<1>9. Locked' /\ Scheduled' /\ ChannelsAgree' /\ PostAgrees'
  BY <1>1, <1>3 DEF Locked, Scheduled, ChannelsAgree, PostAgrees, Exists
<1>10. NetAgrees'
  <2>1. life # "live"  BY <1>1, <1>2 DEF NetAgrees
  <2> QED BY <2>1, <1>2, <1>3, <1>6, <1>7 DEF NetAgrees, Exists
<1> QED BY <1>4, <1>8, <1>9, <1>10, Assembled

-----------------------------------------------------------------------------
(* The steps that begin and end X-Plane commands. *)

\* What is queued is ended.
LEMMA FlushQueueStep == ASSUME IInv, FlushQueue PROVE IInv'
<1>1. /\ Others /\ SoundAll(cmd) /\ Locked /\ Scheduled /\ ChannelsAgree
      /\ PostAgrees /\ NetAgrees /\ Balanced(begun, cmd, queue, abandoned)
  BY Known
<1>2. /\ xp.pc = "after" /\ xp' = [xp EXCEPT !.pc = "end"]
      /\ IF pending
         THEN /\ begun' = [x \in XPCommands |-> begun[x] - Queued(x)]
              /\ queue' = << >> /\ pending' = FALSE
         ELSE UNCHANGED <<queue, pending, begun>>
  BY DEF FlushQueue, xpVars
<1>3. UNCHANGED <<line, flightLoop, schedule, closing, life, chan, cmd, tasks, post, net,
                  started, refused, abandoned, stuck, fault>>
  BY DEF FlushQueue, sessionVars, history
<1>4. /\ begun' \in [XPCommands -> Int] /\ queue' \in Seq(XPCommands) /\ pending' \in BOOLEAN
      /\ Balanced(begun', cmd, queue', abandoned)
  <2>1. CASE ~pending
    <3>1. UNCHANGED <<queue, pending, begun>>  BY <1>2, <2>1
    <3> QED BY <3>1, <1>1 DEF Others
  <2>2. CASE pending
    <3>1. begun' = [x \in XPCommands |-> begun[x] - Queued(x)] /\ queue' = << >> /\ pending' = FALSE
      BY <1>2, <2>2
    <3>2. ASSUME NEW x \in XPCommands
          PROVE  /\ begun'[x] \in Int
                 /\ begun'[x] = Sum(cmd, Channels, x) + Occurs(<< >>, x) + abandoned[x]
      <4>1. begun'[x] = begun[x] - Occurs(queue, x)  BY <3>1 DEF Queued, Occurs
      <4>2. begun[x] = Sum(cmd, Channels, x) + Occurs(queue, x) + abandoned[x]
        BY <1>1 DEF Balanced
      <4>3. Occurs(<< >>, x) = 0  BY OccursNever
      <4>4. Occurs(queue, x) \in Nat  BY <1>1, OccursType DEF Others
      <4>5. abandoned[x] \in Nat /\ begun[x] \in Int  BY <1>1 DEF Others
      <4>6. Sum(cmd, Channels, x) \in Nat
        <5>1. Typed(cmd) /\ Channels \subseteq Channels  BY <1>1, SoundIsTyped
        <5> QED BY <5>1, PairsFinite
      <4> DEFINE s == Sum(cmd, Channels, x)
                 q == Occurs(queue, x)
                 z == Occurs(<< >>, x)
                 a == abandoned[x]
                 b == begun[x]
                 n == begun'[x]
      <4>7. n = b - q /\ b = s + q + a /\ z = 0 /\ s \in Nat /\ q \in Nat /\ a \in Nat
        BY <4>1, <4>2, <4>3, <4>4, <4>5, <4>6
      <4> HIDE DEF s, q, z, a, b, n
      <4>8. n = s + z + a /\ n \in Int  BY <4>7
      <4> QED BY <4>8 DEF s, z, a, n
    <3>3. begun' \in [XPCommands -> Int]  BY <3>1, <3>2
    <3>4. Balanced(begun', cmd, queue', abandoned)  BY <3>1, <3>2 DEF Balanced
    <3>5. queue' \in Seq(XPCommands)  BY <3>1
    <3> QED BY <3>1, <3>3, <3>4, <3>5
  <2> QED BY <2>1, <2>2
<1>5. SoundAll(cmd') /\ Balanced(begun', cmd', queue', abandoned')  BY <1>1, <1>3, <1>4
<1>6. xp' \in XpStates /\ xp'.pc = "end" /\ xp'.todo = xp.todo  BY <1>1, <1>2 DEF Others, XpStates
<1>7. Others'  BY <1>1, <1>3, <1>4, <1>6 DEF Others
<1>8. Locked'  BY <1>1, <1>2, <1>3, <1>6 DEF Locked
<1>9. Scheduled' /\ ChannelsAgree' /\ PostAgrees' /\ NetAgrees'
  BY <1>1, <1>3, <1>6 DEF Scheduled, ChannelsAgree, PostAgrees, NetAgrees, Exists
<1> QED BY <1>5, <1>7, <1>8, <1>9, Assembled

\* A task runs in the flight loop.
LEMMA XpTaskStep ==
  ASSUME IInv, NEW c \in Channels, NEW found \in BOOLEAN, NEW elapsed \in 1 .. MaxElapsed,
         NEW sent \in SendResults, XpTask(c, found, elapsed, sent)
  PROVE  IInv'
<1>1. /\ Others /\ SoundAll(cmd) /\ Locked /\ Scheduled /\ ChannelsAgree
      /\ PostAgrees /\ NetAgrees /\ Balanced(begun, cmd, queue, abandoned)
  BY Known
<1> DEFINE k == cmd[c]
           r == IF k.req.kind = "CMTR"
                THEN cmtr_process_flightloop(k, chan[c].state, found, elapsed, sent)
                ELSE cmhd_process_flightloop(k, chan[c].state, found, elapsed, sent)
           n == r.cmd
           s == chan[c].state
<1>2. /\ xp.pc = "run" /\ c \in xp.todo
      /\ cmd' = [cmd EXCEPT ![c] = n]
      /\ chan' = [chan EXCEPT ![c].state = r.state]
      /\ begun' = Pressed(k, r.ended, r.began)
      /\ xp' = [xp EXCEPT !.todo = @ \ {c}]
  BY DEF XpTask
<1>3. UNCHANGED <<line, flightLoop, schedule, closing, life, tasks, queue, pending, post, net,
                  started, refused, abandoned, stuck, fault>>
  BY DEF XpTask, history
<1>4. k # NoCommand /\ k.task /\ c \in tasks  BY <1>1, <1>2 DEF Scheduled, Exists
<1>5. Sound(k) /\ k = cmd[c]  BY <1>1, <1>4 DEF SoundAll
<1>6. s \in Open
  <2>1. s # "none"  BY <1>1, <1>4 DEF ChannelsAgree
  <2> QED BY <2>1, <1>1 DEF Others, ChanStates, Open
<1>7. elapsed \in Nat /\ elapsed > 0 /\ sent \in BOOLEAN
  <2>1. MaxElapsed \in Nat  BY HeldCommandsAssumption
  <2>2. elapsed \in Nat /\ elapsed > 0  BY <2>1
  <2>3. sent \in BOOLEAN
    <3>1. SendResults \subseteq BOOLEAN  BY DEF SendResults
    <3> QED BY <3>1
  <2> QED BY <2>2, <2>3
<1>8. Handled(k, r)
  <2> HIDE DEF k, s
  <2>1. k.req.kind \in {"CMTR", "CMHD"}  BY <1>5, RequestIs
  <2>2. CASE k.req.kind = "CMTR"
    <3>1. Handled(k, cmtr_process_flightloop(k, s, found, elapsed, sent))
      BY <2>2, <1>5, <1>6, <1>7, CmtrHandled
    <3> QED BY <3>1, <2>2 DEF s
  <2>3. CASE k.req.kind = "CMHD"
    <3>1. Handled(k, cmhd_process_flightloop(k, s, found, elapsed, sent))
      BY <2>3, <1>5, <1>6, <1>7, CmhdHandled
    <3> QED BY <3>1, <2>3 DEF s
  <2> QED BY <2>1, <2>2, <2>3
<1> HIDE DEF r, k, s
<1>9. Sound(n) /\ n.task = k.task /\ r.state \in Open  BY <1>8 DEF Handled
<1>10. Sets(cmd, cmd', c, n)  BY <1>2 DEF Sets
<1>11. /\ SoundAll(cmd') /\ cmd'[c] = n /\ n # NoCommand
       /\ \A d \in Channels : d # c => cmd'[d] = cmd[d]
  <2> HIDE DEF n
  <2> QED BY <1>1, <1>9, <1>10, OneReplaced
<1>12. ASSUME NEW x \in XPCommands
       PROVE  /\ begun'[x] = begun[x] - Count(k, r.ended, x) + Count(k, r.began, x)
              /\ begun'[x] \in Int
              /\ begun'[x] = Sum(cmd', Channels, x) + Occurs(queue, x) + abandoned[x]
  <2>1. begun'[x] = begun[x] - Count(k, r.ended, x) + Count(k, r.began, x)
    BY <1>2 DEF Pressed
  <2>2. begun[x] = Sum(cmd, Channels, x) + Occurs(queue, x) + abandoned[x]
    BY <1>1 DEF Balanced
  <2>3. /\ Holds(n, x) = Holds(k, x) - Count(k, r.ended, x) + Count(k, r.began, x)
        /\ Holds(k, x) \in Nat /\ Count(k, r.ended, x) \in Nat /\ Count(k, r.began, x) \in Nat
    BY <1>5, <1>8, HandledCounts
  <2>4. /\ Sum(cmd', Channels, x) - Holds(n, x) = Sum(cmd, Channels, x) - Holds(k, x)
        /\ Sum(cmd, Channels, x) \in Nat /\ Sum(cmd', Channels, x) \in Nat
        /\ Holds(n, x) \in Nat
    <3> HIDE DEF n
    <3>1. Differ(cmd, cmd', c, k, n)  BY <1>1, <1>4, <1>5, <1>11 DEF Differ
    <3> QED BY <3>1, OneChanged
  <2>5. Occurs(queue, x) \in Nat  BY <1>1, OccursType DEF Others
  <2>6. abandoned[x] \in Nat /\ begun[x] \in Int  BY <1>1 DEF Others
  <2> DEFINE u == Sum(cmd, Channels, x)
             v == Sum(cmd', Channels, x)
             hn == Holds(n, x)
             hk == Holds(k, x)
             e == Count(k, r.ended, x)
             g == Count(k, r.began, x)
             q == Occurs(queue, x)
             a == abandoned[x]
             b == begun[x]
             m == begun'[x]
  <2>7. /\ m = b - e + g /\ b = u + q + a /\ hn = hk - e + g /\ v - hn = u - hk
        /\ u \in Nat /\ v \in Nat /\ hn \in Nat /\ hk \in Nat /\ e \in Nat /\ g \in Nat
        /\ q \in Nat /\ a \in Nat
    BY <2>1, <2>2, <2>3, <2>4, <2>5, <2>6
  <2> HIDE DEF u, v, hn, hk, e, g, q, a, b, m
  <2>8. m = v + q + a /\ m \in Int  BY <2>7
  <2> QED BY <2>1, <2>8 DEF v, q, a, m
<1>13. begun' \in [XPCommands -> Int]
  <2>1. begun' = [x \in XPCommands |-> begun[x] - Count(k, r.ended, x) + Count(k, r.began, x)]
    BY <1>2 DEF Pressed
  <2>2. \A x \in XPCommands : begun[x] - Count(k, r.ended, x) + Count(k, r.began, x) \in Int
    BY <1>12
  <2> QED BY <2>1, <2>2
<1>14. Balanced(begun', cmd', queue', abandoned')  BY <1>3, <1>12 DEF Balanced
<1>15. /\ chan' \in [Channels -> ChanStates] /\ chan'[c].state \in Open
       /\ chan'[c].doomed = chan[c].doomed
       /\ \A d \in Channels : d # c => chan'[d] = chan[d]
  BY <1>1, <1>2, <1>9 DEF Others, ChanStates, Open
<1>16. xp' \in XpStates /\ xp'.pc = "run" /\ xp'.todo = xp.todo \ {c}
  BY <1>1, <1>2 DEF Others, XpStates
<1>17. Others'  BY <1>1, <1>3, <1>13, <1>15, <1>16 DEF Others
<1>18. Locked'  BY <1>1, <1>2, <1>3, <1>16 DEF Locked
<1>19. Scheduled'
  <2>1. cmd'[c] # NoCommand /\ cmd'[c].task  BY <1>4, <1>9, <1>11
  <2> QED BY <2>1, <1>1, <1>3, <1>4, <1>11, <1>16 DEF Scheduled, Exists
<1>20. ChannelsAgree'
  <2>1. cmd'[c] # NoCommand /\ ~chan[c].doomed /\ chan'[c].state # "none"
    BY <1>1, <1>4, <1>5, <1>11, <1>15 DEF ChannelsAgree, Open
  <2> QED BY <2>1, <1>1, <1>11, <1>15 DEF ChannelsAgree, Exists
<1>21. PostAgrees'
  <2>1. post.pc # "release"  BY <1>1, <1>2 DEF Locked
  <2> QED BY <2>1, <1>3 DEF PostAgrees
<1>22. NetAgrees'
  <2>1. net.pc \in {"release", "destroy"} => net.at # c
    BY <1>1, <1>4, <1>5 DEF NetAgrees
  <2>2. cmd'[c] # NoCommand  BY <1>11
  <2> QED BY <2>1, <2>2, <1>1, <1>3, <1>11 DEF NetAgrees, Exists
<1> QED BY <1>11, <1>14, <1>17, <1>18, <1>19, <1>20, <1>21, <1>22, Assembled

-----------------------------------------------------------------------------
(* The steps of post-processing. *)

\* A command that has ended is closed and unscheduled.
LEMMA PostTerminateStep ==
  ASSUME IInv, NEW c \in Channels, PostTerminate(c) PROVE IInv'
<1>1. /\ Others /\ SoundAll(cmd) /\ Locked /\ Scheduled /\ ChannelsAgree
      /\ PostAgrees /\ NetAgrees /\ Balanced(begun, cmd, queue, abandoned)
  BY Known
<1>2. /\ post.pc = "run" /\ c \in post.todo
      /\ chan' = [chan EXCEPT ![c].state = Closed(@)]
      /\ SetsTask(cmd, cmd', c, FALSE)
      /\ tasks' = tasks \ {c}
      /\ post' = [pc |-> "release", todo |-> post.todo \ {c}, at |-> c]
  BY DEF PostTerminate, SetsTask
<1>3. UNCHANGED <<line, flightLoop, schedule, closing, life, queue, pending, begun, xp, net,
                  started, refused, abandoned, stuck, fault>>
  BY DEF PostTerminate, xpVars, history
<1>4. cmd[c] # NoCommand /\ cmd[c].task /\ c \in tasks  BY <1>1, <1>2 DEF Scheduled, Exists
<1>5. /\ SoundAll(cmd') /\ cmd'[c] # NoCommand /\ cmd'[c].task = FALSE
      /\ \A d \in Channels : d # c => cmd'[d] = cmd[d]
      /\ \A x : Sum(cmd', Channels, x) = Sum(cmd, Channels, x)
  <2>1. SoundAll(cmd) /\ SetsTask(cmd, cmd', c, FALSE) /\ cmd[c] # NoCommand  BY <1>1, <1>2, <1>4
  <2> QED BY <2>1, TaskChanged
<1>6. Balanced(begun', cmd', queue', abandoned')  BY <1>1, <1>3, <1>5, BalanceKept
<1>7. /\ chan' \in [Channels -> ChanStates] /\ chan'[c].state # "none"
      /\ chan'[c].doomed = chan[c].doomed
      /\ \A d \in Channels : d # c => chan'[d] = chan[d]
  <2>1. chan[c].state \in Open
    <3>1. chan[c].state # "none"  BY <1>1, <1>4 DEF ChannelsAgree
    <3> QED BY <3>1, <1>1 DEF Others, ChanStates, Open
  <2>2. Closed(chan[c].state) \in Open  BY <2>1, Messages
  <2> QED BY <2>2, <1>1, <1>2 DEF Others, ChanStates, Open
<1>8. /\ post' \in PostStates /\ post'.pc = "release" /\ post'.at = c
      /\ post'.todo = post.todo \ {c}
  BY <1>1, <1>2 DEF Others, PostStates
<1>9. Others'  BY <1>1, <1>2, <1>3, <1>7, <1>8 DEF Others
<1>10. Locked'  BY <1>1, <1>2, <1>3, <1>8 DEF Locked
<1>11. Scheduled'
  <2>1. xp.todo = {}  BY <1>1, <1>2 DEF Locked
  <2> QED BY <2>1, <1>1, <1>2, <1>3, <1>5, <1>8 DEF Scheduled, Exists
<1>12. ChannelsAgree'  BY <1>1, <1>4, <1>5, <1>7 DEF ChannelsAgree, Exists
<1>13. PostAgrees'  BY <1>5, <1>8 DEF PostAgrees, Exists
<1>14. NetAgrees'  BY <1>1, <1>3, <1>5 DEF NetAgrees, Exists
<1> QED BY <1>5, <1>6, <1>9, <1>10, <1>11, <1>12, <1>13, <1>14, Assembled

\* A command that goes on stays scheduled, unless there is nothing to run.
LEMMA PostTaskStep ==
  ASSUME IInv, NEW c \in Channels, PostTask(c) PROVE IInv'
<1>1. /\ Others /\ SoundAll(cmd) /\ Locked /\ Scheduled /\ ChannelsAgree
      /\ PostAgrees /\ NetAgrees /\ Balanced(begun, cmd, queue, abandoned)
  BY Known
<1> DEFINE idle == cmd[c].req.kind = "CMHD" /\ cmd[c].init
           b == ~idle
<1>2. /\ post.pc = "run" /\ c \in post.todo
      /\ SetsTask(cmd, cmd', c, b)
      /\ tasks' = IF idle THEN tasks \ {c} ELSE tasks
      /\ post' = [post EXCEPT !.todo = @ \ {c}]
  BY DEF PostTask, SetsTask
<1>3. UNCHANGED <<line, flightLoop, schedule, closing, life, chan, queue, pending, begun, xp, net,
                  started, refused, abandoned, stuck, fault>>
  BY DEF PostTask, xpVars, history
<1>4. cmd[c] # NoCommand /\ cmd[c].task /\ c \in tasks  BY <1>1, <1>2 DEF Scheduled, Exists
<1>5. b \in BOOLEAN /\ b = ~idle  OBVIOUS
<1> HIDE DEF b, idle
<1>6. /\ SoundAll(cmd') /\ cmd'[c] # NoCommand /\ cmd'[c].task = b
      /\ \A d \in Channels : d # c => cmd'[d] = cmd[d]
      /\ \A x : Sum(cmd', Channels, x) = Sum(cmd, Channels, x)
  <2>1. SoundAll(cmd) /\ SetsTask(cmd, cmd', c, b) /\ cmd[c] # NoCommand  BY <1>1, <1>2, <1>4
  <2> QED BY <2>1, <1>5, TaskChanged
<1>7. Balanced(begun', cmd', queue', abandoned')  BY <1>1, <1>3, <1>6, BalanceKept
<1>8. /\ post' \in PostStates /\ post'.pc = "run" /\ post'.at = post.at
      /\ post'.todo = post.todo \ {c}
  BY <1>1, <1>2 DEF Others, PostStates
<1>9. tasks' \subseteq Channels  BY <1>1, <1>2 DEF Others
<1>10. Others'  BY <1>1, <1>3, <1>8, <1>9 DEF Others
<1>11. Locked'  BY <1>1, <1>2, <1>3, <1>8 DEF Locked
<1>12. Scheduled'
  <2>1. xp.todo = {}  BY <1>1, <1>2 DEF Locked
  <2>2. CASE idle  BY <2>1, <2>2, <1>1, <1>2, <1>3, <1>5, <1>6, <1>8 DEF Scheduled, Exists
  <2>3. CASE ~idle  BY <2>1, <2>3, <1>1, <1>2, <1>3, <1>4, <1>5, <1>6, <1>8 DEF Scheduled, Exists
  <2> QED BY <2>2, <2>3
<1>13. ChannelsAgree'  BY <1>1, <1>3, <1>4, <1>6 DEF ChannelsAgree, Exists
<1>14. PostAgrees'  BY <1>8 DEF PostAgrees
<1>15. NetAgrees'  BY <1>1, <1>3, <1>4, <1>6 DEF NetAgrees, Exists
<1> QED BY <1>6, <1>7, <1>10, <1>11, <1>12, <1>13, <1>14, <1>15, Assembled

\* After a release the channel has a state and an idle command.
LEMMA ReleaseAgrees ==
  ASSUME Others, ChannelsAgree, SoundAll(cmd'), NEW c \in Channels,
         cmd'[c] # NoCommand, cmd'[c].task = FALSE,
         \A d \in Channels : d # c => cmd'[d] = cmd[d],
         NEW state, state \in Open,
         \E doomed \in BOOLEAN : chan' = [chan EXCEPT ![c] = [state |-> state, doomed |-> doomed]]
  PROVE  chan' \in [Channels -> ChanStates] /\ ChannelsAgree'
<1>1. PICK doomed \in BOOLEAN : chan' = [chan EXCEPT ![c] = [state |-> state, doomed |-> doomed]]
  OBVIOUS
<1>2. [state |-> state, doomed |-> doomed] \in ChanStates  BY DEF ChanStates, Open
<1>3. /\ chan' \in [Channels -> ChanStates] /\ chan'[c].state = state
      /\ \A d \in Channels : d # c => chan'[d] = chan[d]
  BY <1>1, <1>2 DEF Others
<1>4. chan'[c].state # "none"  BY <1>3 DEF Open
<1> QED BY <1>3, <1>4 DEF ChannelsAgree, Exists

\* Post-processing releases what the ended command holds.
LEMMA PostReleaseStep == ASSUME IInv, PostRelease PROVE IInv'
<1>1. /\ Others /\ SoundAll(cmd) /\ Locked /\ Scheduled /\ ChannelsAgree
      /\ PostAgrees /\ NetAgrees /\ Balanced(begun, cmd, queue, abandoned)
  BY Known
<1> DEFINE c == post.at
           k == cmd[c]
           s == chan[c].state
<1>2. /\ post.pc = "release"
      /\ \E failing \in Failures(k) : ReleaseAll(c, k, s, failing)
      /\ post' = [post EXCEPT !.pc = "run"]
  BY DEF PostRelease
<1>3. UNCHANGED <<line, flightLoop, schedule, closing, life, tasks, begun, xp, net, started,
                  abandoned, fault>>
  BY DEF PostRelease
<1>4. c \in Channels /\ k # NoCommand /\ ~k.task  BY <1>1, <1>2 DEF PostAgrees, Exists
<1>5. Sound(k) /\ k = cmd[c]  BY <1>1, <1>4 DEF SoundAll
<1>6. PICK failing \in Failures(k) : ReleaseAll(c, k, s, failing)  BY <1>2
<1>7. s \in Open
  <2>1. s # "none"  BY <1>1, <1>4 DEF ChannelsAgree
  <2> QED BY <2>1, <1>1, <1>4 DEF Others, ChanStates, Open
<1> HIDE DEF c, k, s
<1>8. failing \subseteq k.held  BY DEF Failures
<1>9. /\ SoundAll(cmd') /\ cmd'[c] # NoCommand /\ cmd'[c].task = k.task
      /\ \A d \in Channels : d # c => cmd'[d] = cmd[d]
      /\ queue' \in Seq(XPCommands) /\ pending' \in BOOLEAN /\ refused' \in BOOLEAN
      /\ stuck' \in BOOLEAN
      /\ \E doomed \in BOOLEAN : chan' = [chan EXCEPT ![c] = [state |-> s, doomed |-> doomed]]
      /\ Balanced(begun, cmd', queue', abandoned)
  <2>1. /\ queue \in Seq(XPCommands) /\ pending \in BOOLEAN /\ refused \in BOOLEAN
        /\ stuck \in BOOLEAN /\ begun \in [XPCommands -> Int] /\ abandoned \in [XPCommands -> Nat]
    BY <1>1 DEF Others
  <2>2. SoundAll(cmd) /\ Balanced(begun, cmd, queue, abandoned)  BY <1>1
  <2>3. /\ c \in Channels /\ cmd[c] # NoCommand /\ Sound(k) /\ k.req = cmd[c].req
        /\ k.held = cmd[c].held
    BY <1>4, <1>5
  <2> QED BY <2>1, <2>2, <2>3, <1>6, <1>8, ReleaseEffect
<1>10. cmd'[c].task = FALSE
  <2>1. k.task \in BOOLEAN  BY <1>5, RequestIs
  <2> QED BY <2>1, <1>4, <1>9
<1>11. chan' \in [Channels -> ChanStates] /\ ChannelsAgree'
  BY <1>1, <1>4, <1>7, <1>9, <1>10, ReleaseAgrees
<1>12. /\ post' \in PostStates /\ post'.pc = "run" /\ post'.todo = post.todo
  BY <1>1, <1>2 DEF Others, PostStates
<1>13. Others'  BY <1>1, <1>3, <1>9, <1>11, <1>12 DEF Others
<1>14. Locked'  BY <1>1, <1>2, <1>3, <1>12 DEF Locked
<1>15. Scheduled'  BY <1>1, <1>3, <1>4, <1>5, <1>9, <1>10, <1>12 DEF Scheduled, Exists
<1>16. PostAgrees'  BY <1>12 DEF PostAgrees
<1>17. NetAgrees'  BY <1>1, <1>3, <1>9, <1>10 DEF NetAgrees, Exists
<1>18. Balanced(begun', cmd', queue', abandoned')  BY <1>3, <1>9
<1> QED BY <1>9, <1>11, <1>13, <1>14, <1>15, <1>16, <1>17, <1>18, Assembled

\* The schedule is unlocked, and channels that are no longer used may go.
LEMMA PostEndStep == ASSUME IInv, PostEnd PROVE IInv'
<1>1. /\ Others /\ SoundAll(cmd) /\ Locked /\ Scheduled /\ ChannelsAgree
      /\ PostAgrees /\ NetAgrees /\ Balanced(begun, cmd, queue, abandoned)
  BY Known
<1> DEFINE S == {c \in Channels : chan[c].doomed}
<1>2. /\ post.pc = "run" /\ post.todo = {} /\ schedule' = Free /\ flightLoop' = Free
      /\ post' = [post EXCEPT !.pc = "wait"]
  BY DEF PostEnd
<1>3. UNCHANGED <<line, closing, life, tasks, queue, pending, begun, xp, net, started, refused,
                  stuck, fault>>
  BY DEF PostEnd, xpVars
<1>4. (life = "live" /\ Destroy(S)) \/ UNCHANGED <<chan, cmd, abandoned>>  BY DEF PostEnd
<1>5. post' \in PostStates /\ post'.pc = "wait" /\ post'.todo = {}
  BY <1>1, <1>2 DEF Others, PostStates
<1>6. Locked'
  <2>1. xp.pc # "run" /\ xp.todo = {}  BY <1>1, <1>2 DEF Locked
  <2> QED BY <2>1, <1>1, <1>2, <1>3, <1>5 DEF Locked, Free
<1>7. PostAgrees'  BY <1>5 DEF PostAgrees
<1>8. CASE UNCHANGED <<chan, cmd, abandoned>>
  <2>1. Others'  BY <1>1, <1>2, <1>3, <1>5, <1>8 DEF Others
  <2>2. Scheduled' /\ ChannelsAgree' /\ NetAgrees'
    BY <1>1, <1>3, <1>5, <1>8 DEF Scheduled, ChannelsAgree, NetAgrees, Exists
  <2>3. SoundAll(cmd') /\ Balanced(begun', cmd', queue', abandoned')  BY <1>1, <1>3, <1>8
  <2> QED BY <2>1, <2>2, <2>3, <1>6, <1>7, Assembled
<1>9. CASE life = "live" /\ Destroy(S)
  <2>1. S \subseteq Channels /\ \A c \in S : ~cmd[c].task  BY <1>1 DEF ChannelsAgree
  <2>0. \A c \in Channels \ S : ~chan[c].doomed  OBVIOUS
  <2> HIDE DEF S
  <2>2. queue \in Seq(XPCommands) /\ abandoned \in [XPCommands -> Nat]  BY <1>1 DEF Others
  <2>3. /\ SoundAll(cmd') /\ abandoned' \in [XPCommands -> Nat]
        /\ \A c \in S : cmd'[c] = NoCommand /\ chan'[c] = NoChannel
        /\ \A c \in Channels \ S : cmd'[c] = cmd[c] /\ chan'[c] = chan[c]
        /\ chan' = [c \in Channels |-> IF c \in S THEN NoChannel ELSE chan[c]]
        /\ Balanced(begun, cmd', queue, abandoned')
    <3>1. SoundAll(cmd) /\ Balanced(begun, cmd, queue, abandoned) /\ Destroy(S)  BY <1>1, <1>9
    <3> QED BY <3>1, <2>1, <2>2, DestroyEffect
  <2>4. chan' \in [Channels -> ChanStates]
    <3>1. NoChannel \in ChanStates  BY DEF NoChannel, ChanStates
    <3>2. \A c \in Channels : chan[c] \in ChanStates  BY <1>1 DEF Others
    <3> QED BY <3>1, <3>2, <2>3
  <2>5. Others'  BY <1>1, <1>2, <1>3, <1>5, <2>3, <2>4 DEF Others
  <2>6. Scheduled'
    <3>1. xp.todo = {}  BY <1>1, <1>2 DEF Locked
    <3>2. \A c \in S : c \notin tasks  BY <1>1, <2>1 DEF Scheduled
    <3>3. \A c \in Channels : c \in tasks' <=> cmd'[c] # NoCommand /\ cmd'[c].task
      BY <3>2, <1>1, <1>3, <2>1, <2>3 DEF Scheduled, Exists
    <3> QED BY <3>1, <3>3, <1>3, <1>5 DEF Scheduled, Exists
  <2>7. ChannelsAgree'
    <3>1. NoChannel.state = "none" /\ NoChannel.doomed = FALSE  BY DEF NoChannel
    <3> QED BY <3>1, <1>1, <2>1, <2>3 DEF ChannelsAgree, Exists
  <2>8. NetAgrees'  BY <1>1, <1>3, <1>9 DEF NetAgrees
  <2>9. Balanced(begun', cmd', queue', abandoned')  BY <1>3, <2>3
  <2> QED BY <2>3, <2>5, <2>6, <2>7, <2>8, <2>9, <1>6, <1>7, Assembled
<1> QED BY <1>4, <1>8, <1>9

-----------------------------------------------------------------------------
(* The steps of the receive thread. *)

\* What cmtr_create and cmhd_create make is sound.
LEMMA NewIsSound ==
  ASSUME NEW req \in Requests
  PROVE  Sound(NewCommand(req)) /\ NewCommand(req).held = {} /\ NewCommand(req).task = TRUE
<1> DEFINE n == NewCommand(req)
           rem == IF req.intervalFrames \/ req.times = 1 THEN 0 ELSE req.interval
           list == 1 .. Len(req.entries)
<1>1. /\ req.entries \in Seq(XPCommands) /\ req.times \in Int /\ req.hold \in Nat
      /\ req.interval \in Nat /\ (req.times = Infinite \/ req.times > 0)
  BY HeldCommandsAssumption DEF Infinite
<1>2. list \in SUBSET Nat /\ rem \in 0 .. req.interval /\ rem \in Nat  BY <1>1
<1>3. n = [req |-> req, task |-> TRUE, init |-> FALSE, failed |-> FALSE,
           finishing |-> FALSE, holding |-> FALSE, held |-> {}, list |-> list,
           times |-> req.times, rem |-> rem, holdRem |-> 0, rounds |-> 0]
  BY DEF NewCommand
<1> HIDE DEF n, rem
<1>4. Entries(n) = list  BY <1>3 DEF Entries
<1> HIDE DEF list
<1>5. /\ n.req = req /\ n.task = TRUE /\ n.init = FALSE /\ n.finishing = FALSE
      /\ n.holding = FALSE /\ n.held = {} /\ n.list = list /\ n.times = req.times
      /\ n.rem = rem /\ n.holdRem = 0 /\ n.rounds = 0
  BY <1>3
<1>6. n \in CommandRecords  BY <1>1, <1>2, <1>3 DEF CommandRecords
<1>7. HoldingIsMarked(n)  BY <1>5 DEF HoldingIsMarked
<1>8. RoundsAddUp(n)  BY <1>1, <1>5 DEF RoundsAddUp
<1>9. n.times \in {Infinite} \cup 0 .. n.req.times  BY <1>1, <1>5
<1>10. n.holdRem \in 0 .. n.req.hold  BY <1>1, <1>5
<1>11. Sound(n)  BY <1>2, <1>4, <1>5, <1>6, <1>7, <1>8, <1>9, <1>10 DEF Sound
<1> QED BY <1>5, <1>11 DEF n

\* A command is created and scheduled.
LEMMA CreateStep ==
  ASSUME IInv, NEW c \in Channels, NEW req \in Requests, Create(c, req) PROVE IInv'
<1>1. /\ Others /\ SoundAll(cmd) /\ Locked /\ Scheduled /\ ChannelsAgree
      /\ PostAgrees /\ NetAgrees /\ Balanced(begun, cmd, queue, abandoned)
  BY Known
<1> DEFINE n == NewCommand(req)
<1>2. /\ life = "live" /\ schedule = Free /\ chan[c] = NoChannel /\ line' = FALSE
      /\ started < MaxRequests /\ started' = started + 1
      /\ chan' = [chan EXCEPT ![c] = [state |-> "INITIAL", doomed |-> FALSE]]
      /\ Sets(cmd, cmd', c, n)
      /\ tasks' = tasks \cup {c}
  BY DEF Create, Handling, Sets
<1>3. UNCHANGED <<flightLoop, schedule, closing, life, queue, pending, begun, xp, post, net,
                  refused, abandoned, stuck, fault>>
  BY DEF Create, xpVars
<1>4. Sound(n) /\ n.held = {} /\ n.task = TRUE  BY NewIsSound
<1>5. cmd[c] = NoCommand
  <2>1. chan[c].state = "none"  BY <1>2 DEF NoChannel
  <2> QED BY <2>1, <1>1 DEF ChannelsAgree
<1> HIDE DEF n
<1>6. /\ SoundAll(cmd') /\ cmd'[c] = n /\ n # NoCommand
      /\ \A d \in Channels : d # c => cmd'[d] = cmd[d]
  <2>1. SoundAll(cmd) /\ Sets(cmd, cmd', c, n) /\ Sound(n)  BY <1>1, <1>2, <1>4
  <2> QED BY <2>1, OneReplaced
<1>7. \A x : Sum(cmd', Channels, x) = Sum(cmd, Channels, x)
  <2>1. /\ SoundAll(cmd) /\ SoundAll(cmd') /\ cmd[c] = NoCommand /\ cmd'[c] # NoCommand
        /\ cmd'[c].held = {} /\ \A d \in Channels : d # c => cmd'[d] = cmd[d]
    BY <1>1, <1>4, <1>5, <1>6
  <2> QED BY <2>1, Started
<1>8. Balanced(begun', cmd', queue', abandoned')  BY <1>1, <1>3, <1>7, BalanceKept
<1>9. /\ chan' \in [Channels -> ChanStates] /\ chan'[c].state = "INITIAL"
      /\ chan'[c].doomed = FALSE /\ \A d \in Channels : d # c => chan'[d] = chan[d]
  BY <1>1, <1>2 DEF Others, ChanStates
<1>10. started' \in 0 .. MaxRequests  BY <1>1, <1>2, HeldCommandsAssumption DEF Others
<1>11. tasks' \subseteq Channels  BY <1>1, <1>2 DEF Others
<1>12. Others'  BY <1>1, <1>2, <1>3, <1>9, <1>10, <1>11 DEF Others
<1>13. Locked'  BY <1>1, <1>3 DEF Locked
<1>14. Scheduled'  BY <1>1, <1>2, <1>3, <1>4, <1>6 DEF Scheduled, Exists
<1>15. ChannelsAgree'  BY <1>1, <1>6, <1>9 DEF ChannelsAgree, Exists
<1>16. PostAgrees'
  <2>1. post.pc # "release"  BY <1>1, <1>2 DEF Locked, Free
  <2> QED BY <2>1, <1>3 DEF PostAgrees
<1>17. NetAgrees'  BY <1>1, <1>2, <1>3 DEF NetAgrees
<1> QED BY <1>6, <1>8, <1>12, <1>13, <1>14, <1>15, <1>16, <1>17, Assembled

\* A client terminates a command.
LEMMA TerminateStep ==
  ASSUME IInv, NEW c \in Channels, Terminate(c) PROVE IInv'
<1>1. /\ Others /\ SoundAll(cmd) /\ Locked /\ Scheduled /\ ChannelsAgree
      /\ PostAgrees /\ NetAgrees /\ Balanced(begun, cmd, queue, abandoned)
  BY Known
<1> DEFINE old == cmd[c]
           k == [old EXCEPT !.task = FALSE]
<1>2. /\ life = "live" /\ schedule = Free /\ line' = FALSE
      /\ chan[c].state \in {"INITIAL", "CONFIRMED"}
      /\ tasks' = tasks \ {c}
  BY DEF Terminate, Handling
<1>3. UNCHANGED <<flightLoop, schedule, life, begun, xp, post, net, started, abandoned, fault>>
  BY DEF Terminate
<1>4. \E failing \in Failures(old) :
        /\ ReleaseAll(c, k, "CLOSED", failing)
        /\ closing' = (closing \/ TerminateFails(Released(old, failing)))
  BY DEF Terminate
<1>5. old # NoCommand  BY <1>1, <1>2 DEF ChannelsAgree
<1>6. Sound(old) /\ old = cmd[c] /\ k = [old EXCEPT !.task = FALSE]  BY <1>1, <1>5 DEF SoundAll
<1> HIDE DEF k, old
<1>7. Sound(k) /\ k.req = old.req /\ k.held = old.held /\ k.task = FALSE
  <2>1. Sound(old) /\ k = [old EXCEPT !.task = FALSE] /\ FALSE \in BOOLEAN  BY <1>6
  <2> QED BY <2>1, Marked
<1>8. PICK failing \in Failures(old) :
        /\ ReleaseAll(c, k, "CLOSED", failing)
        /\ closing' = (closing \/ TerminateFails(Released(old, failing)))
  BY <1>4
<1>9. failing \subseteq k.held  BY <1>7 DEF Failures
<1>10. closing' \in BOOLEAN  BY <1>8
<1>11. /\ SoundAll(cmd') /\ cmd'[c] # NoCommand /\ cmd'[c].task = k.task
       /\ \A d \in Channels : d # c => cmd'[d] = cmd[d]
       /\ queue' \in Seq(XPCommands) /\ pending' \in BOOLEAN /\ refused' \in BOOLEAN
       /\ stuck' \in BOOLEAN
       /\ \E doomed \in BOOLEAN : chan' = [chan EXCEPT ![c] = [state |-> "CLOSED", doomed |-> doomed]]
       /\ Balanced(begun, cmd', queue', abandoned)
  <2>1. /\ queue \in Seq(XPCommands) /\ pending \in BOOLEAN /\ refused \in BOOLEAN
        /\ stuck \in BOOLEAN /\ begun \in [XPCommands -> Int] /\ abandoned \in [XPCommands -> Nat]
    BY <1>1 DEF Others
  <2>2. SoundAll(cmd) /\ Balanced(begun, cmd, queue, abandoned)  BY <1>1
  <2>3. /\ cmd[c] # NoCommand /\ Sound(k) /\ k.req = cmd[c].req /\ k.held = cmd[c].held
    BY <1>5, <1>6, <1>7
  <2>4. ReleaseAll(c, k, "CLOSED", failing)  BY <1>8
  <2> QED BY <2>1, <2>2, <2>3, <2>4, <1>9, ReleaseEffect
<1>12. cmd'[c].task = FALSE  BY <1>7, <1>11
<1>13. chan' \in [Channels -> ChanStates] /\ ChannelsAgree'
  <2>1. "CLOSED" \in Open  BY DEF Open
  <2> QED BY <2>1, <1>1, <1>11, <1>12, ReleaseAgrees
<1>14. tasks' \subseteq Channels  BY <1>1, <1>2 DEF Others
<1>15. Others'  BY <1>1, <1>2, <1>3, <1>10, <1>11, <1>13, <1>14 DEF Others
<1>16. Locked'  BY <1>1, <1>3 DEF Locked
<1>17. Scheduled'
  <2>1. xp.todo = {} /\ post.todo = {}  BY <1>1, <1>2 DEF Locked, Free, Others, XpStates, PostStates
  <2>2. \A d \in Channels : d \in tasks' <=> cmd'[d] # NoCommand /\ cmd'[d].task
    BY <1>1, <1>2, <1>11, <1>12 DEF Scheduled, Exists
  <2> QED BY <2>1, <2>2, <1>3 DEF Scheduled, Exists
<1>18. PostAgrees'
  <2>1. post.pc # "release"  BY <1>1, <1>2 DEF Locked, Free
  <2> QED BY <2>1, <1>3 DEF PostAgrees
<1>19. NetAgrees'  BY <1>1, <1>2, <1>3 DEF NetAgrees
<1>20. Balanced(begun', cmd', queue', abandoned')  BY <1>3, <1>11
<1> QED BY <1>11, <1>13, <1>15, <1>16, <1>17, <1>18, <1>19, <1>20, Assembled

\* A request that is refused changes nothing.
LEMMA RefuseRequestStep == ASSUME IInv, RefuseRequest PROVE IInv'
<1>1. /\ Others /\ SoundAll(cmd) /\ Locked /\ Scheduled /\ ChannelsAgree
      /\ PostAgrees /\ NetAgrees /\ Balanced(begun, cmd, queue, abandoned)
  BY Known
<1>2. line' = FALSE  BY DEF RefuseRequest, Handling
<1>3. UNCHANGED <<flightLoop, schedule, closing, life, chan, cmd, tasks, queue, pending, begun,
                  xp, post, net, started, refused, abandoned, stuck, fault>>
  BY DEF RefuseRequest, sessionVars, xpVars, history
<1>4. SoundAll(cmd') /\ Balanced(begun', cmd', queue', abandoned')  BY <1>1, <1>3, Quiet
<1>5. Others'  BY <1>1, <1>2, <1>3 DEF Others
<1>6. Locked' /\ Scheduled' /\ ChannelsAgree' /\ PostAgrees' /\ NetAgrees'
  BY <1>1, <1>3 DEF Locked, Scheduled, ChannelsAgree, PostAgrees, NetAgrees, Exists
<1> QED BY <1>4, <1>5, <1>6, Assembled

\* A request that comes too late leaves the schedule locked.
LEMMA RequestTooLateStep == ASSUME IInv, RequestTooLate PROVE IInv'
<1>1. /\ Others /\ SoundAll(cmd) /\ Locked /\ Scheduled /\ ChannelsAgree
      /\ PostAgrees /\ NetAgrees /\ Balanced(begun, cmd, queue, abandoned)
  BY Known
<1>2. line' = FALSE /\ schedule = Free /\ schedule' = "recv"  BY DEF RequestTooLate
<1>3. UNCHANGED <<flightLoop, closing, life, chan, cmd, tasks, queue, pending, begun,
                  xp, post, net, started, refused, abandoned, stuck, fault>>
  BY DEF RequestTooLate, sessionVars, xpVars, history
<1>4. SoundAll(cmd') /\ Balanced(begun', cmd', queue', abandoned')  BY <1>1, <1>3, Quiet
<1>5. Others'  BY <1>1, <1>2, <1>3 DEF Others
<1>6. Locked'  BY <1>1, <1>2, <1>3 DEF Locked, Free
<1>7. Scheduled' /\ ChannelsAgree' /\ PostAgrees' /\ NetAgrees'
  BY <1>1, <1>3 DEF Scheduled, ChannelsAgree, PostAgrees, NetAgrees, Exists
<1> QED BY <1>4, <1>5, <1>6, <1>7, Assembled

-----------------------------------------------------------------------------
(* The steps with which a session is destroyed. *)

\* The command is unscheduled, unless post-processing was faster.
LEMMA NetUnscheduleStep == ASSUME IInv, NetUnschedule PROVE IInv'
<1>1. /\ Others /\ SoundAll(cmd) /\ Locked /\ Scheduled /\ ChannelsAgree
      /\ PostAgrees /\ NetAgrees /\ Balanced(begun, cmd, queue, abandoned)
  BY Known
<1> DEFINE c == net.at
           p == IF cmd[c].task THEN "release" ELSE "destroy"
<1>2. /\ net.pc = "unschedule" /\ schedule = Free
      /\ net' = [net EXCEPT !.pc = p] /\ stuck' = (stuck \/ ~cmd[c].task)
      /\ SetsTask(cmd, cmd', c, FALSE) /\ tasks' = tasks \ {c}
  BY DEF NetUnschedule, SetsTask
<1>3. UNCHANGED <<line, flightLoop, schedule, closing, life, chan, queue, pending, begun, xp, post,
                  started, refused, abandoned, fault>>
  BY DEF NetUnschedule, xpVars
<1>4. c \in Channels /\ cmd[c] # NoCommand  BY <1>1, <1>2 DEF NetAgrees, Exists
<1>5. /\ SoundAll(cmd') /\ cmd'[c] # NoCommand /\ cmd'[c].task = FALSE
      /\ \A d \in Channels : d # c => cmd'[d] = cmd[d]
      /\ \A x : Sum(cmd', Channels, x) = Sum(cmd, Channels, x)
  <2>1. SoundAll(cmd) /\ SetsTask(cmd, cmd', c, FALSE) /\ cmd[c] # NoCommand  BY <1>1, <1>2, <1>4
  <2> HIDE DEF c
  <2> QED BY <2>1, <1>4, TaskChanged
<1>6. Balanced(begun', cmd', queue', abandoned')  BY <1>1, <1>3, <1>5, BalanceKept
<1>7. p \in {"release", "destroy"}  OBVIOUS
<1> HIDE DEF p
<1>8. net' \in NetStates /\ net'.pc = p /\ net'.at = c
  BY <1>1, <1>2, <1>7 DEF Others, NetStates
<1> HIDE DEF c
<1>9. tasks' \subseteq Channels /\ stuck' \in BOOLEAN  BY <1>1, <1>2 DEF Others
<1>10. Others'  BY <1>1, <1>3, <1>8, <1>9 DEF Others
<1>11. Locked'  BY <1>1, <1>3 DEF Locked
<1>12. Scheduled'
  <2>1. xp.todo = {} /\ post.todo = {}  BY <1>1, <1>2 DEF Locked, Free, Others, XpStates, PostStates
  <2>2. \A d \in Channels : d \in tasks' <=> cmd'[d] # NoCommand /\ cmd'[d].task
    BY <1>1, <1>2, <1>5 DEF Scheduled, Exists
  <2> QED BY <2>1, <2>2, <1>3 DEF Scheduled, Exists
<1>13. ChannelsAgree'  BY <1>1, <1>3, <1>4, <1>5 DEF ChannelsAgree, Exists
<1>14. PostAgrees'
  <2>1. post.pc # "release"  BY <1>1, <1>2 DEF Locked, Free
  <2> QED BY <2>1, <1>3 DEF PostAgrees
<1>15. NetAgrees'
  <2>1. life # "live"  BY <1>1, <1>2 DEF NetAgrees
  <2> QED BY <2>1, <1>3, <1>4, <1>5, <1>7, <1>8 DEF NetAgrees, Exists
<1> QED BY <1>5, <1>6, <1>10, <1>11, <1>12, <1>13, <1>14, <1>15, Assembled

\* What the command holds is released.
LEMMA NetReleaseStep == ASSUME IInv, NetRelease PROVE IInv'
<1>1. /\ Others /\ SoundAll(cmd) /\ Locked /\ Scheduled /\ ChannelsAgree
      /\ PostAgrees /\ NetAgrees /\ Balanced(begun, cmd, queue, abandoned)
  BY Known
<1> DEFINE c == net.at
           k == cmd[c]
           s == chan[c].state
<1>2. /\ net.pc = "release" /\ net' = [net EXCEPT !.pc = "destroy"]
      /\ \E failing \in Failures(k) : ReleaseAll(c, k, s, failing)
  BY DEF NetRelease
<1>3. UNCHANGED <<line, flightLoop, schedule, closing, life, tasks, begun, xp, post, started,
                  abandoned, fault>>
  BY DEF NetRelease
<1>4. c \in Channels /\ k # NoCommand /\ ~k.task  BY <1>1, <1>2 DEF NetAgrees, Exists
<1>5. Sound(k) /\ k = cmd[c]  BY <1>1, <1>4 DEF SoundAll
<1>6. PICK failing \in Failures(k) : ReleaseAll(c, k, s, failing)  BY <1>2
<1>7. s \in Open
  <2>1. s # "none"  BY <1>1, <1>4 DEF ChannelsAgree
  <2> QED BY <2>1, <1>1, <1>4 DEF Others, ChanStates, Open
<1>8. net' \in NetStates /\ net'.pc = "destroy" /\ net'.at = c
  BY <1>1, <1>2 DEF Others, NetStates
<1> HIDE DEF c, k, s
<1>9. failing \subseteq k.held  BY DEF Failures
<1>10. /\ SoundAll(cmd') /\ cmd'[c] # NoCommand /\ cmd'[c].task = k.task
       /\ \A d \in Channels : d # c => cmd'[d] = cmd[d]
       /\ queue' \in Seq(XPCommands) /\ pending' \in BOOLEAN /\ refused' \in BOOLEAN
       /\ stuck' \in BOOLEAN
       /\ \E doomed \in BOOLEAN : chan' = [chan EXCEPT ![c] = [state |-> s, doomed |-> doomed]]
       /\ Balanced(begun, cmd', queue', abandoned)
  <2>1. /\ queue \in Seq(XPCommands) /\ pending \in BOOLEAN /\ refused \in BOOLEAN
        /\ stuck \in BOOLEAN /\ begun \in [XPCommands -> Int] /\ abandoned \in [XPCommands -> Nat]
    BY <1>1 DEF Others
  <2>2. SoundAll(cmd) /\ Balanced(begun, cmd, queue, abandoned)  BY <1>1
  <2>3. /\ c \in Channels /\ cmd[c] # NoCommand /\ Sound(k) /\ k.req = cmd[c].req
        /\ k.held = cmd[c].held
    BY <1>4, <1>5
  <2> QED BY <2>1, <2>2, <2>3, <1>6, <1>9, ReleaseEffect
<1>11. cmd'[c].task = FALSE
  <2>1. k.task \in BOOLEAN  BY <1>5, RequestIs
  <2> QED BY <2>1, <1>4, <1>10
<1>12. chan' \in [Channels -> ChanStates] /\ ChannelsAgree'
  BY <1>1, <1>4, <1>7, <1>10, <1>11, ReleaseAgrees
<1>13. Others'  BY <1>1, <1>3, <1>8, <1>10, <1>12 DEF Others
<1>14. Locked'  BY <1>1, <1>3 DEF Locked
<1>15. Scheduled'  BY <1>1, <1>3, <1>4, <1>5, <1>10, <1>11 DEF Scheduled, Exists
<1>16. PostAgrees'  BY <1>1, <1>3, <1>10, <1>11 DEF PostAgrees, Exists
<1>17. NetAgrees'
  <2>1. life # "live"  BY <1>1, <1>2 DEF NetAgrees
  <2> QED BY <2>1, <1>3, <1>4, <1>8, <1>10, <1>11 DEF NetAgrees, Exists
<1>18. Balanced(begun', cmd', queue', abandoned')  BY <1>3, <1>10
<1> QED BY <1>10, <1>12, <1>13, <1>14, <1>15, <1>16, <1>17, <1>18, Assembled

\* The channel and its command are destroyed.
LEMMA NetDestroyStep == ASSUME IInv, NetDestroy PROVE IInv'
<1>1. /\ Others /\ SoundAll(cmd) /\ Locked /\ Scheduled /\ ChannelsAgree
      /\ PostAgrees /\ NetAgrees /\ Balanced(begun, cmd, queue, abandoned)
  BY Known
<1> DEFINE c == net.at
           S == {c}
<1>2. /\ net.pc = "destroy" /\ ~Contended(c) /\ Destroy(S)
      /\ net' = [net EXCEPT !.pc = "next"]
  BY DEF NetDestroy
<1>3. UNCHANGED <<line, flightLoop, schedule, closing, life, tasks, queue, pending, begun, xp, post,
                  started, refused, stuck, fault>>
  BY DEF NetDestroy, xpVars
<1>4. c \in Channels /\ cmd[c] # NoCommand /\ ~cmd[c].task  BY <1>1, <1>2 DEF NetAgrees, Exists
<1>5. net' \in NetStates /\ net'.pc = "next" /\ net'.at = c
  BY <1>1, <1>2 DEF Others, NetStates
<1>6. S \subseteq Channels /\ \A d \in S : d = c  BY <1>4
<1>0. c \in S  OBVIOUS
<1> HIDE DEF c, S
<1>7. queue \in Seq(XPCommands) /\ abandoned \in [XPCommands -> Nat]  BY <1>1 DEF Others
<1>8. /\ SoundAll(cmd') /\ abandoned' \in [XPCommands -> Nat]
      /\ \A d \in S : cmd'[d] = NoCommand /\ chan'[d] = NoChannel
      /\ \A d \in Channels \ S : cmd'[d] = cmd[d] /\ chan'[d] = chan[d]
      /\ chan' = [d \in Channels |-> IF d \in S THEN NoChannel ELSE chan[d]]
      /\ Balanced(begun, cmd', queue, abandoned')
  <2>1. SoundAll(cmd) /\ Balanced(begun, cmd, queue, abandoned) /\ Destroy(S)  BY <1>1, <1>2
  <2> QED BY <2>1, <1>6, <1>7, DestroyEffect
<1>9. chan' \in [Channels -> ChanStates]
  <2>1. NoChannel \in ChanStates  BY DEF NoChannel, ChanStates
  <2>2. \A d \in Channels : chan[d] \in ChanStates  BY <1>1 DEF Others
  <2> QED BY <2>1, <2>2, <1>8
<1>10. Others'  BY <1>1, <1>3, <1>5, <1>8, <1>9 DEF Others
<1>11. Locked'  BY <1>1, <1>3 DEF Locked
<1>12. Scheduled'
  <2>1. c \notin tasks  BY <1>1, <1>4 DEF Scheduled
  <2>2. \A d \in Channels : d \in tasks' <=> cmd'[d] # NoCommand /\ cmd'[d].task
    BY <2>1, <1>0, <1>1, <1>3, <1>6, <1>8 DEF Scheduled, Exists
  <2> QED BY <2>2, <1>1, <1>3 DEF Scheduled, Exists
<1>13. ChannelsAgree'
  <2>1. NoChannel.state = "none" /\ NoChannel.doomed = FALSE  BY DEF NoChannel
  <2> QED BY <2>1, <1>1, <1>6, <1>8 DEF ChannelsAgree, Exists
<1>14. PostAgrees'
  <2>1. post.pc = "release" => post.at # c  BY <1>2 DEF Contended
  <2> QED BY <2>1, <1>1, <1>3, <1>6, <1>8 DEF PostAgrees, Exists
<1>15. NetAgrees'
  <2>1. life # "live"  BY <1>1, <1>2 DEF NetAgrees
  <2> QED BY <2>1, <1>3, <1>4, <1>5 DEF NetAgrees
<1>16. Balanced(begun', cmd', queue', abandoned')  BY <1>3, <1>8
<1> QED BY <1>8, <1>10, <1>11, <1>12, <1>13, <1>14, <1>15, <1>16, Assembled

-----------------------------------------------------------------------------
(* The theorems. *)

\* The invariant holds before anything was requested.
LEMMA InitInvariant == Init => IInv
<1> SUFFICES ASSUME Init PROVE IInv  OBVIOUS
<1>1. /\ flightLoop = Free /\ schedule = Free /\ closing = FALSE /\ life = "live"
      /\ chan = [c \in Channels |-> NoChannel] /\ cmd = [c \in Channels |-> NoCommand]
      /\ tasks = {} /\ queue = << >> /\ pending = FALSE
      /\ begun = [x \in XPCommands |-> 0] /\ abandoned = [x \in XPCommands |-> 0]
      /\ xp = [pc |-> "frame", todo |-> {}]
      /\ post = [pc |-> "wait", todo |-> {}, at |-> 0] /\ net = [pc |-> "watch", at |-> 1]
      /\ line = FALSE /\ started = 0 /\ refused = FALSE /\ stuck = FALSE /\ fault = FALSE
  BY DEF Init
<1>2. \A c \in Channels : cmd[c] = NoCommand /\ chan[c] = NoChannel  BY <1>1
<1>3. NoChannel.state = "none" /\ NoChannel.doomed = FALSE  BY DEF NoChannel
<1>4. TypeOK
  <2>1. chan \in [Channels -> [state : {"none", "INITIAL", "CONFIRMED", "CLOSED"}, doomed : BOOLEAN]]
    BY <1>1 DEF NoChannel
  <2>2. cmd \in [Channels -> CommandRecords \cup {NoCommand}]  BY <1>1
  <2>3. net \in [pc : {"watch", "sweep", "unschedule", "release", "destroy", "next",
                       "done"}, at : 1 .. NumChannels + 1]
    BY <1>1, HeldCommandsAssumption
  <2>4. started \in 0 .. MaxRequests  BY <1>1, HeldCommandsAssumption
  <2>5. queue \in Seq(XPCommands)  BY <1>1
  <2>6. begun \in [XPCommands -> Int] /\ abandoned \in [XPCommands -> Nat]  BY <1>1
  <2>7. /\ xp \in [pc : {"frame", "run", "after", "end"}, todo : SUBSET Channels]
        /\ post \in [pc : {"wait", "woken", "run", "release"}, todo : SUBSET Channels,
                     at : Channels \cup {0}]
    BY <1>1
  <2>8. /\ flightLoop \in {Free, "xp", "post"} /\ schedule \in {Free, "xp", "post", "recv"}
        /\ closing \in BOOLEAN /\ life \in {"live", "pending", "freed"} /\ tasks \subseteq Channels
        /\ line \in BOOLEAN /\ pending \in BOOLEAN /\ refused \in BOOLEAN /\ stuck \in BOOLEAN /\ fault \in BOOLEAN
    BY <1>1
  <2> QED BY <1>2, <2>1, <2>2, <2>3, <2>4, <2>5, <2>6, <2>7, <2>8 DEF TypeOK
<1>5. Locked /\ Scheduled /\ PostAgrees /\ NetAgrees
  BY <1>1, <1>2 DEF Locked, Scheduled, PostAgrees, NetAgrees, Exists, Free
<1>6. ChannelsAgree /\ CommandsAgree  BY <1>2, <1>3 DEF ChannelsAgree, CommandsAgree, Exists
<1>7. Accounted
  <2>1. ASSUME NEW x \in XPCommands PROVE begun[x] = Held(Channels, x) + Queued(x) + abandoned[x]
    <3>1. Held(Channels, x) = Sum(cmd, Channels, x)  BY HeldIs
    <3>2. Sum(cmd, Channels, x) = 0  BY <1>2, SumNone
    <3>3. Queued(x) = Occurs(<< >>, x)  BY <1>1 DEF Queued, Occurs
    <3>4. Occurs(<< >>, x) = 0  BY OccursNever
    <3>5. begun[x] = 0 /\ abandoned[x] = 0  BY <1>1
    <3> QED BY <3>1, <3>2, <3>3, <3>4, <3>5
  <2> QED BY <2>1 DEF Accounted
<1> QED BY <1>4, <1>5, <1>6, <1>7 DEF IInv

\* Steps of others keep the invariant.
LEMMA StutterStep == ASSUME IInv, UNCHANGED vars PROVE IInv'
<1>1. /\ Others /\ SoundAll(cmd) /\ Locked /\ Scheduled /\ ChannelsAgree
      /\ PostAgrees /\ NetAgrees /\ Balanced(begun, cmd, queue, abandoned)
  BY Known
<1>2. UNCHANGED <<line, flightLoop, schedule, closing, life, chan, cmd, tasks, queue, pending, begun,
                  xp, post, net, started, refused, abandoned, stuck, fault>>
  BY DEF vars, sessionVars, xpVars, history
<1>3. SoundAll(cmd') /\ Balanced(begun', cmd', queue', abandoned')  BY <1>1, <1>2
<1>4. Others'  BY <1>1, <1>2 DEF Others
<1>5. Locked' /\ Scheduled' /\ ChannelsAgree' /\ PostAgrees' /\ NetAgrees'
  BY <1>1, <1>2 DEF Locked, Scheduled, ChannelsAgree, PostAgrees, NetAgrees, Exists
<1> QED BY <1>3, <1>4, <1>5, Assembled

\* Every step keeps the invariant.
LEMMA NextInvariant == ASSUME IInv, [Next]_vars PROVE IInv'
<1>1. CASE XpNext
  BY <1>1, FrameBeginStep, XpTaskStep, RunTasksEndStep, FlushQueueStep, FrameEndStep DEF XpNext
<1>2. CASE PostNext
  BY <1>2, PostWakeStep, PostReleaseStep, PostEndStep, PostTerminateStep, PostTaskStep
  DEF PostNext
<1>3. CASE NetNext
  BY <1>3, NetPendStep, NetVisitStep, NetUnscheduleStep, NetReleaseStep, NetDestroyStep,
     NetNextChannelStep, NetFreeStep, NetRaceStep DEF NetNext
<1>4. CASE Disconnect  BY <1>4, DisconnectStep
<1>5. CASE \E c \in Channels : Terminate(c) \/ \E req \in Requests : Create(c, req)
  BY <1>5, TerminateStep, CreateStep
<1>6. CASE RefuseRequest \/ RequestTooLate  BY <1>6, RefuseRequestStep, RequestTooLateStep
<1>7. CASE UNCHANGED vars  BY <1>7, StutterStep
<1> QED BY <1>1, <1>2, <1>3, <1>4, <1>5, <1>6, <1>7 DEF Next

\* The inductive invariant holds in every reachable state: locks and program
\* counters agree, the schedule has the commands that think so, a command
\* holds something only while it is marked, and every begin is accounted for.
THEOREM HeldCommandsInvariant == Spec => []IInv
<1>1. IInv /\ [Next]_vars => IInv'  BY NextInvariant
<1> QED BY InitInvariant, <1>1, PTL DEF Spec

\* All variables keep their types; a command's counters stay within its request
\* (cmtr_process_flightloop forwards the due time by whole intervals).
THEOREM HeldCommandsTypeCorrect == Spec => []TypeOK
<1>1. IInv => TypeOK  BY DEF IInv
<1> QED BY HeldCommandsInvariant, <1>1, PTL

\* For any number of channels and commands, in every order in which four
\* threads begin, release and destroy, X-Plane's count of every command is what
\* is held, queued for its end or given up (cmtr_process_flightloop,
\* cmtr_terminate, cmhd_terminate, flush_xpqueue).
THEOREM EveryHoldAccounted == Spec => []HoldsAccounted
<1>1. IInv => HoldsAccounted  BY DEF IInv, Accounted, HoldsAccounted
<1> QED BY HeldCommandsInvariant, <1>1, PTL

\* A CMTR command that finishes by itself has run at least as often as its
\* request asked for, however frames and intervals fall (cmtr_process_flightloop).
THEOREM EveryRepetitionPerformed == Spec => []RepetitionsPerformed
<1>1. IInv => RepetitionsPerformed
  BY DEF IInv, CommandsAgree, RoundsAddUp, RepetitionsPerformed, Exists
<1> QED BY HeldCommandsInvariant, <1>1, PTL
=============================================================================
