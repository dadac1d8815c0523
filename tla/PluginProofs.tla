---------------------------- MODULE PluginProofs ----------------------------
(***************************************************************************)
(* Proofs about Plugin, for any licences and versions, any order of the     *)
(* callbacks within a phase and any number of restarts: what X-Plane can    *)
(* still call exists, the plugin runs only with consent, and an error is    *)
(* fatal only after a failure; and about the ServerManager it maintains,    *)
(* for any number of requests, failures and saved settings: it settles as   *)
(* wanted.  The two share no variable.                                      *)
(***************************************************************************)
EXTENDS Plugin, ServerManager, TLAPS, SequenceTheorems, WellFoundedInduction

-----------------------------------------------------------------------------
(* The parts of the inductive invariant. *)

\* Unless X-Plane has enabled the plugin its thread is not inside it, and
\* nothing is left of the time it was enabled, or a restart is required.
Rested ==
  xplane # "enabled" =>
    /\ xpc = "idle"
    /\ fatal_error \/ (~Leftovers /\ ~flight_loop_locked_by_xp)
    /\ xplane = "stopped" /\ plugin_initialized => fatal_error

\* Every flight loop that is registered finds what it uses, also while
\* XPluginDisable is under way.
LoopsLive == \A l \in Registered : Used(l) \subseteq objects

\* How far XPluginDisable has come.
Disabling ==
  /\ xpc \in {"lock", "join"} =>
       /\ "gui" \notin objects /\ "manager" \notin objects
       /\ ~window.visible /\ ~menu /\ managed = "stopped"
       /\ "monitor" \notin Registered
  /\ xpc = "join" => Registered \subseteq {"rejection"}

\* Windows and the menu need everything there is.  The licence window asks only
\* while nothing has been decided.
GuiLive ==
  /\ window.visible \/ menu => objects = Objects
  /\ window.visible => ~menu /\ ~handled_license_rejection

\* Post-processing ends before the schedule goes, the manager goes before the
\* licences.
ThreadsLive ==
  /\ post # "none" => "schedule" \in objects
  /\ "manager" \in objects => "license" \in objects

\* The file holds nothing that was not agreed to, ...
FileConsented ==
  ~removeFailed => \A l \in Licenses : file[l] = None \/ file[l] \in consent[l]

\* ... and nothing is pending only if all was agreed to.
MemoryConsented ==
  "license" \in objects /\ pending = {} /\ ~removeFailed =>
    \A l \in Licenses : hashes[l] \in consent[l]

IInv ==
  /\ TypeOK
  /\ FatalOnlyAfterFailure /\ Rested
  /\ LoopsLive /\ Disabling /\ GuiLive /\ ThreadsLive
  /\ FileConsented /\ MemoryConsented /\ RunsWithConsent

-----------------------------------------------------------------------------
(* Lemmas about sequences. *)

\* Every set of naturals has a smallest member.
LEMMA Smallest == ASSUME NEW S, S \subseteq Nat, S # {}
                  PROVE  \E m \in S : \A k \in S : m <= k
<1>1. PICK m \in S : \A k \in S : ~(<<k, m>> \in OpToRel(<, Nat))
  <2> HIDE DEF OpToRel
  <2> QED BY NatLessThanWellFounded, WFMin, Zenon
<1>2. \A k \in S : ~(k < m)  BY <1>1 DEF OpToRel
<1> QED BY <1>2

\* A set with 0 that goes from each member to the next has all naturals.
LEMMA AllNaturals == ASSUME NEW S, 0 \in S, \A n \in Nat : n \in S => n + 1 \in S
                     PROVE  Nat \subseteq S
<1> SUFFICES ASSUME Nat \ S # {} PROVE FALSE  OBVIOUS
<1>1. PICK m \in Nat \ S : \A k \in Nat \ S : m <= k
  <2>1. Nat \ S \subseteq Nat  OBVIOUS
  <2> QED BY <2>1, Smallest
<1>2. m # 0 /\ m - 1 \in Nat /\ m - 1 < m  OBVIOUS
<1>3. m - 1 \in S  BY <1>1, <1>2
<1>4. (m - 1) + 1 \in S  BY <1>2, <1>3
<1> QED BY <1>4, <1>2

\* Without(s, ls) is a sequence of members of s that are not in ls: its
\* recursive definition has a solution, and every value of it is one.
LEMMA WithoutType == ASSUME NEW T, NEW s \in Seq(T), NEW ls
                     PROVE  Without(s, ls) \in Seq(T \ ls)
<1> DEFINE Step(n, t) == IF s[n] \in ls THEN t ELSE Append(t, s[n])
           Kept(f, n) == f = [m \in 0..n |-> IF m = 0 THEN <<>> ELSE Step(m, f[m - 1])]
           S == {n \in Nat : n > Len(s) \/ \E f : Kept(f, n) /\ \A m \in 0..n : f[m] \in Seq(T \ ls)}
<1>0. Len(s) \in Nat /\ \A n \in 1..Len(s) : s[n] \in T  OBVIOUS
<1>1. \A n \in 1..Len(s), t \in Seq(T \ ls) : Step(n, t) \in Seq(T \ ls)  BY <1>0
<1> HIDE DEF Step
<1>2. 0 \in S
  <2> DEFINE f == [m \in 0..0 |-> <<>>]
  <2>1. Kept(f, 0)  OBVIOUS
  <2>2. \A m \in 0..0 : f[m] \in Seq(T \ ls)  OBVIOUS
  <2> QED BY <2>1, <2>2
<1>3. ASSUME NEW n \in Nat, n \in S PROVE n + 1 \in S
  <2> SUFFICES ASSUME n + 1 <= Len(s)
               PROVE  \E g : Kept(g, n + 1) /\ \A m \in 0..(n + 1) : g[m] \in Seq(T \ ls)
    BY <1>0
  <2>1. PICK f : Kept(f, n) /\ \A m \in 0..n : f[m] \in Seq(T \ ls)  BY <1>3, <1>0
  <2> DEFINE g == [m \in 0..(n + 1) |-> IF m = 0 THEN <<>> ELSE Step(m, f[m - 1])]
  <2>2. \A m \in 0..n : f[m] = IF m = 0 THEN <<>> ELSE Step(m, f[m - 1])  BY <2>1
  <2>3. \A m \in 0..n : g[m] = f[m]  BY <2>2
  <2>4. \A m \in 0..(n + 1) : m # 0 => m - 1 \in 0..n /\ m \in 1..Len(s)  BY <1>0
  <2>5. \A m \in 0..(n + 1) : m # 0 => f[m - 1] = g[m - 1]  BY <2>3, <2>4
  <2>6. Kept(g, n + 1)  BY <2>5
  <2>7. ASSUME NEW m \in 0..(n + 1) PROVE g[m] \in Seq(T \ ls)
    <3>1. CASE m = 0  BY <3>1
    <3>2. CASE m # 0
      <4>1. f[m - 1] \in Seq(T \ ls) /\ m \in 1..Len(s)  BY <3>2, <2>1, <2>4
      <4>2. g[m] = Step(m, f[m - 1])  BY <3>2
      <4> QED BY <4>1, <4>2, <1>1
    <3> QED BY <3>1, <3>2
  <2> HIDE DEF g
  <2> QED BY <2>6, <2>7
<1>4. Nat \subseteq S
  <2> HIDE DEF S
  <2> QED BY <1>2, <1>3, AllNaturals
<1>5. \E f : Kept(f, Len(s))
  <2>1. Len(s) \in S  BY <1>4, <1>0
  <2> QED BY <2>1, <1>0
<1> DEFINE K == CHOOSE k : Kept(k, Len(s))
<1>6. Kept(K, Len(s))
  <2> HIDE DEF Kept
  <2> QED BY <1>5
<1>7. K[Len(s)] \in Seq(T \ ls)
  <2> DEFINE A == {n \in Nat : n <= Len(s) => K[n] \in Seq(T \ ls)}
  <2> HIDE DEF K
  <2>0. \A m \in 0..Len(s) : K[m] = IF m = 0 THEN <<>> ELSE Step(m, K[m - 1])  BY <1>6
  <2>1. 0 \in A
    <3>1. K[0] = <<>>  BY <2>0, <1>0
    <3>2. <<>> \in Seq(T \ ls)  OBVIOUS
    <3>3. K[0] \in Seq(T \ ls)  BY <3>1, <3>2
    <3> QED BY <3>3
  <2>2. ASSUME NEW n \in Nat, n \in A PROVE n + 1 \in A
    <3> SUFFICES ASSUME n + 1 <= Len(s) PROVE K[n + 1] \in Seq(T \ ls)  OBVIOUS
    <3>1. n + 1 \in 1..Len(s) /\ (n + 1) - 1 = n  BY <1>0
    <3>2. K[n] \in Seq(T \ ls)  BY <2>2, <3>1
    <3>3. K[n + 1] = Step(n + 1, K[n])  BY <2>0, <3>1
    <3> QED BY <3>1, <3>2, <3>3, <1>1
  <2>3. Nat \subseteq A
    <3> HIDE DEF A
    <3> QED BY <2>1, <2>2, AllNaturals
  <2> QED BY <2>3, <1>0
<1> QED BY <1>7 DEF Without, Step

\* The members of Without(s, ls).
LEMMA WithoutRange == ASSUME NEW T, NEW s \in Seq(T), NEW ls
                      PROVE  Range(Without(s, ls)) \subseteq Range(s) \ ls
<1>1. s \in Seq(Range(s))  BY DEF Range
<1>2. Without(s, ls) \in Seq(Range(s) \ ls)  BY <1>1, WithoutType
<1> QED BY <1>2 DEF Range

\* Removing an element adds none.
LEMMA RemoveFirstRange == ASSUME NEW T, NEW s \in Seq(T), NEW e
                          PROVE  /\ RemoveFirst(s, e) \in Seq(T)
                                 /\ Range(RemoveFirst(s, e)) \subseteq Range(s)
<1> DEFINE I == {i \in 1..Len(s) : s[i] = e}
<1>1. CASE ~\E i \in 1..Len(s) : s[i] = e  BY <1>1 DEF RemoveFirst
<1>2. CASE \E i \in 1..Len(s) : s[i] = e
  <2> DEFINE j == Min(I)
             r == SubSeq(s, 1, j - 1) \o SubSeq(s, j + 1, Len(s))
  <2>1. RemoveFirst(s, e) = r  BY <1>2 DEF RemoveFirst, RemoveAt, SelectInSeq
  <2>2. j \in 1..Len(s)
    <3>1. I \subseteq Nat /\ I # {}  BY <1>2
    <3>2. \E m \in I : \A k \in I : m <= k  BY <3>1, Smallest
    <3> QED BY <3>1, <3>2 DEF Min
  <2> HIDE DEF j
  <2>3. /\ r \in Seq(T) /\ Len(r) = Len(s) - 1
        /\ \A k \in 1..Len(r) : r[k] = IF k < j THEN s[k] ELSE s[k + 1]
    <3> DEFINE a == SubSeq(s, 1, j - 1)
               b == SubSeq(s, j + 1, Len(s))
    <3>1. /\ a \in Seq(T) /\ Len(a) = j - 1
          /\ \A k \in 1..(j - 1) : a[k] = s[k]
      BY <2>2, SubSeqProperties
    <3>2. /\ b \in Seq(T) /\ Len(b) = Len(s) - j
          /\ \A k \in 1..(Len(s) - j) : b[k] = s[j + k]
      BY <2>2, SubSeqProperties
    <3> HIDE DEF a, b
    <3>3. /\ a \o b \in Seq(T) /\ Len(a \o b) = Len(s) - 1
          /\ \A k \in 1..(Len(s) - 1) : (a \o b)[k] = IF k < j THEN a[k] ELSE b[k - (j - 1)]
      <4>1. /\ a \o b \in Seq(T) /\ Len(a \o b) = Len(a) + Len(b)
            /\ \A k \in 1..(Len(a) + Len(b)) :
                 (a \o b)[k] = IF k <= Len(a) THEN a[k] ELSE b[k - Len(a)]
        BY <3>1, <3>2, ConcatProperties
      <4>2. Len(a) = j - 1 /\ Len(a) + Len(b) = Len(s) - 1  BY <3>1, <3>2, <2>2
      <4>3. \A k \in 1..(Len(s) - 1) : k <= j - 1 <=> k < j  BY <2>2
      <4> QED BY <4>1, <4>2, <4>3
    <3>4. ASSUME NEW k \in 1..(Len(s) - 1), ~(k < j) PROVE b[k - (j - 1)] = s[k + 1]
      <4>1. /\ k - (j - 1) \in 1..(Len(s) - j)
            /\ j + (k - (j - 1)) = k + 1
        BY <3>4, <2>2
      <4> QED BY <4>1, <3>2
    <3>5. ASSUME NEW k \in 1..(Len(s) - 1), k < j PROVE a[k] = s[k]
      BY <3>5, <3>1, <2>2
    <3>6. a \o b = r  BY DEF a, b
    <3> HIDE DEF r
    <3> QED BY <3>3, <3>4, <3>5, <3>6
  <2> HIDE DEF r
  <2>4. \A k \in 1..Len(r) : \E i \in 1..Len(s) : r[k] = s[i]  BY <2>2, <2>3
  <2>5. Range(r) \subseteq Range(s)  BY <2>3, <2>4 DEF Range
  <2> QED BY <2>1, <2>3, <2>5
<1> QED BY <1>1, <1>2

\* Appending adds what is appended.
LEMMA AppendRange == ASSUME NEW T, NEW s \in Seq(T), NEW e \in T
                     PROVE  /\ Append(s, e) \in Seq(T)
                            /\ Range(Append(s, e)) = Range(s) \union {e}
<1>1. /\ Append(s, e) \in Seq(T) /\ Len(Append(s, e)) = Len(s) + 1
      /\ \A i \in 1..Len(s) : Append(s, e)[i] = s[i]
      /\ Append(s, e)[Len(s) + 1] = e
  OBVIOUS
<1>2. \A x : x \in Range(Append(s, e)) <=> x \in Range(s) \/ x = e
  <2>1. DOMAIN s = 1..Len(s) /\ DOMAIN Append(s, e) = 1..(Len(s) + 1)  BY <1>1
  <2> QED BY <1>1, <2>1 DEF Range
<1> QED BY <1>1, <1>2

\* on_plugin_licenses_accepted registers the two regular loops.
LEMMA RegularRange == ASSUME NEW s \in Seq(Loops)
                      PROVE  /\ s \o <<"before", "after">> \in Seq(Loops)
                             /\ Range(s \o <<"before", "after">>) =
                                  Range(s) \union {"before", "after"}
<1> DEFINE t == Append(s, "before")
<1>1. "before" \in Loops /\ "after" \in Loops  BY DEF Loops
<1>2. s \o <<"before", "after">> = Append(t, "after")  OBVIOUS
<1>3. t \in Seq(Loops) /\ Range(t) = Range(s) \union {"before"}  BY <1>1, AppendRange
<1> HIDE DEF t
<1>4. Append(t, "after") \in Seq(Loops) /\ Range(Append(t, "after")) = Range(t) \union {"after"}
  BY <1>1, <1>3, AppendRange
<1> QED BY <1>2, <1>3, <1>4

\* The callbacks of a phase are flight loops.
LEMMA CallbacksType == ASSUME loops \in Seq(Loops), NEW p
                       PROVE  Callbacks(p) \in Seq(Loops)
<1> DEFINE due == Without(loops, {l \in Loops : Phase(l) # p})
<1>1. due \in Seq(Loops)
  <2>1. due \in Seq(Loops \ {l \in Loops : Phase(l) # p})  BY WithoutType
  <2> QED BY <2>1
<1> HIDE DEF due
<1>2. Reverse(due) \in Seq(Loops)  BY <1>1 DEF Reverse
<1> QED BY <1>1, <1>2 DEF Callbacks, due

-----------------------------------------------------------------------------
(* Lemmas about the objects. *)

\* The objects by name.
LEMMA ObjectsAre ==
  Objects = {"license", "settings", "manager", "gui", "xpqueue", "dataproxies",
             "xpcommands", "schedule"}
<1>1. DOMAIN Created = 1..8  BY DEF Created
<1> QED BY <1>1 DEF Objects, Range, Created

\* The objects that exist when creation has stopped after n of them.
LEMMA CreatedFirst ==
  ASSUME NEW n \in 0..Len(Created)
  PROVE  LET made == {Created[i] : i \in 1..n}
         IN  /\ Len(Created) = 8
             /\ made \subseteq Objects
             /\ n = 0 <=> "license" \notin made
             /\ "manager" \in made => "license" \in made
             /\ n = 8 => "schedule" \in made
<1>1. Len(Created) = 8  BY DEF Created
<1>2. DOMAIN Created = 1..8  BY DEF Created
<1>3. {Created[i] : i \in 1..n} \subseteq Objects  BY <1>1, <1>2 DEF Objects, Range
<1>4. /\ Created[1] = "license" /\ Created[8] = "schedule"
      /\ \A i \in 2..8 : Created[i] # "license"
  BY DEF Created
<1> QED BY <1>1, <1>3, <1>4

\* What XPluginDisable destroys at its end, and what it can be stopped in.
LEMMA DestroyedFirst ==
  /\ Len(Destroyed) = 6
  /\ {Destroyed[i] : i \in 1..6} = Objects \ {"gui", "manager"}
  /\ \A n \in 0..4 : "license" \notin {Destroyed[i] : i \in 1..n}
<1>1. Len(Destroyed) = 6  BY DEF Destroyed
<1>2. {Destroyed[i] : i \in 1..6} = Objects \ {"gui", "manager"}
  BY ObjectsAre DEF Destroyed
<1>3. \A i \in 1..4 : Destroyed[i] # "license"  BY DEF Destroyed
<1>4. \A n \in 0..4 : "license" \notin {Destroyed[i] : i \in 1..n}  BY <1>3
<1> QED BY <1>1, <1>2, <1>4

\* What a flight loop uses.
LEMMA UsedAre ==
  /\ \A l \in Loops : Used(l) \subseteq Objects
  /\ Used("rejection") = {}
  /\ \A l \in Loops : "gui" \in Used(l) => l = "monitor"
  /\ \A l \in Loops : Used(l) = {} => l = "rejection"
  /\ \A l \in Loops : "manager" \notin Used(l)
BY ObjectsAre DEF Used, Loops

-----------------------------------------------------------------------------
(* Every action keeps the invariant: those that leave loops and licences alone. *)

\* XPluginStart: with nothing left installed it is not refused.
LEMMA XPluginStartStep == ASSUME IInv, XPluginStart PROVE IInv'
<1>1. TypeOK'
  <2>1. plugin_initialized' \in BOOLEAN
    BY DEF IInv, TypeOK, XPluginStart
  <2>2. fatal_error' \in BOOLEAN
    BY DEF IInv, TypeOK, XPluginStart
  <2>3. failed' \in BOOLEAN
    BY DEF IInv, TypeOK, XPluginStart
  <2> QED
    BY <2>1, <2>2, <2>3 DEF IInv, TypeOK, LicenseTypeOK, XPluginStart, licenseVars,
        xpVars, mutexVars, handledVars, guiVars, postVars
<1>2. FatalOnlyAfterFailure' /\ Rested'
  BY DEF IInv, TypeOK, FatalOnlyAfterFailure, Rested, Leftovers, XPluginStart,
      licenseVars, xpVars, mutexVars, handledVars, guiVars, postVars
<1>3. LoopsLive'
  BY DEF IInv, LoopsLive, Registered, XPluginStart, licenseVars, xpVars, mutexVars,
      handledVars, guiVars, postVars
<1>4. Disabling' /\ GuiLive' /\ ThreadsLive'
  BY DEF IInv, TypeOK, Disabling, GuiLive, ThreadsLive, Registered, XPluginStart,
      licenseVars, xpVars, mutexVars, handledVars, guiVars, postVars
<1>5. FileConsented' /\ MemoryConsented'
  BY DEF IInv, FileConsented, MemoryConsented, XPluginStart, licenseVars, xpVars,
      mutexVars, handledVars, guiVars, postVars
<1>6. RunsWithConsent'
  BY DEF IInv, RunsWithConsent, Registered, XPluginStart, licenseVars, xpVars,
      mutexVars, handledVars, guiVars, postVars
<1> QED BY <1>1, <1>2, <1>3, <1>4, <1>5, <1>6 DEF IInv

\* XPluginStop: the flight loop was unlocked when the plugin was disabled.
LEMMA XPluginStopStep == ASSUME IInv, XPluginStop PROVE IInv'
<1>1. TypeOK'
  <2>1. xplane' = "stopped" /\ UNCHANGED <<licenseVars, auto_start, objects, loops, todo, xpc,
        mutexVars, handledVars, guiVars, postVars, failed, restarts>>
    BY DEF IInv, TypeOK, XPluginStop
  <2>2. plugin_initialized' \in BOOLEAN
    BY DEF IInv, TypeOK, XPluginStop
  <2>3. fatal_error' \in BOOLEAN
    BY DEF IInv, TypeOK, XPluginStop
  <2> QED
    BY <2>1, <2>2, <2>3 DEF IInv, TypeOK, LicenseTypeOK, licenseVars, xpVars,
        mutexVars, handledVars, guiVars, postVars
<1>2. FatalOnlyAfterFailure' /\ Rested'
  BY DEF IInv, TypeOK, FatalOnlyAfterFailure, Rested, Leftovers, XPluginStop,
      licenseVars, xpVars, mutexVars, handledVars, guiVars, postVars
<1>3. LoopsLive'
  BY DEF IInv, LoopsLive, Registered, XPluginStop, licenseVars, xpVars, mutexVars,
      handledVars, guiVars, postVars
<1>4. Disabling' /\ GuiLive' /\ ThreadsLive'
  BY DEF IInv, TypeOK, Disabling, GuiLive, ThreadsLive, Registered, XPluginStop,
      licenseVars, xpVars, mutexVars, handledVars, guiVars, postVars
<1>5. FileConsented' /\ MemoryConsented'
  BY DEF IInv, FileConsented, MemoryConsented, XPluginStop, licenseVars, xpVars,
      mutexVars, handledVars, guiVars, postVars
<1>6. RunsWithConsent'
  BY DEF IInv, RunsWithConsent, Registered, XPluginStop, licenseVars, xpVars,
      mutexVars, handledVars, guiVars, postVars
<1> QED BY <1>1, <1>2, <1>3, <1>4, <1>5, <1>6 DEF IInv

\* Disabling begins.
LEMMA UserDisablesStep == ASSUME IInv, UserDisables PROVE IInv'
<1>1. TypeOK'
  BY DEF IInv, TypeOK, LicenseTypeOK, UserDisables, licenseVars, xpVars, mutexVars,
      handledVars, guiVars, postVars
<1>2. FatalOnlyAfterFailure' /\ Rested'
  BY DEF IInv, TypeOK, FatalOnlyAfterFailure, Rested, Leftovers, UserDisables,
      licenseVars, xpVars, mutexVars, handledVars, guiVars, postVars
<1>3. LoopsLive'
  BY DEF IInv, LoopsLive, Registered, UserDisables, licenseVars, xpVars, mutexVars,
      handledVars, guiVars, postVars
<1>4. Disabling' /\ GuiLive' /\ ThreadsLive'
  BY DEF IInv, TypeOK, Disabling, GuiLive, ThreadsLive, Registered, UserDisables,
      licenseVars, xpVars, mutexVars, handledVars, guiVars, postVars
<1>5. FileConsented' /\ MemoryConsented'
  BY DEF IInv, FileConsented, MemoryConsented, UserDisables, licenseVars, xpVars,
      mutexVars, handledVars, guiVars, postVars
<1>6. RunsWithConsent'
  BY DEF IInv, RunsWithConsent, Registered, UserDisables, licenseVars, xpVars,
      mutexVars, handledVars, guiVars, postVars
<1> QED BY <1>1, <1>2, <1>3, <1>4, <1>5, <1>6 DEF IInv

\* A frame begins.
LEMMA FrameBeginsStep == ASSUME IInv, FrameBegins PROVE IInv'
<1>1. TypeOK'
  BY CallbacksType DEF IInv, TypeOK, LicenseTypeOK, FrameBegins, licenseVars,
      xpVars, mutexVars, handledVars, guiVars, postVars
<1>2. FatalOnlyAfterFailure' /\ Rested'
  BY DEF IInv, TypeOK, FatalOnlyAfterFailure, Rested, Leftovers, FrameBegins,
      licenseVars, xpVars, mutexVars, handledVars, guiVars, postVars
<1>3. LoopsLive'
  BY DEF IInv, LoopsLive, Registered, FrameBegins, licenseVars, xpVars, mutexVars,
      handledVars, guiVars, postVars
<1>4. Disabling' /\ GuiLive' /\ ThreadsLive'
  BY DEF IInv, TypeOK, Disabling, GuiLive, ThreadsLive, Registered, FrameBegins,
      licenseVars, xpVars, mutexVars, handledVars, guiVars, postVars
<1>5. FileConsented' /\ MemoryConsented'
  BY DEF IInv, FileConsented, MemoryConsented, FrameBegins, licenseVars, xpVars,
      mutexVars, handledVars, guiVars, postVars
<1>6. RunsWithConsent'
  BY DEF IInv, RunsWithConsent, Registered, FrameBegins, licenseVars, xpVars,
      mutexVars, handledVars, guiVars, postVars
<1> QED BY <1>1, <1>2, <1>3, <1>4, <1>5, <1>6 DEF IInv

\* A phase of a frame ends.
LEMMA PhaseEndsStep == ASSUME IInv, PhaseEnds PROVE IInv'
<1>1. TypeOK'
  <2>1. todo' \in Seq(Loops)
    BY CallbacksType DEF IInv, TypeOK, PhaseEnds
  <2> QED
    BY <2>1 DEF IInv, TypeOK, LicenseTypeOK, PhaseEnds, licenseVars, xpVars,
        mutexVars, handledVars, guiVars, postVars
<1>2. FatalOnlyAfterFailure' /\ Rested'
  BY DEF IInv, TypeOK, FatalOnlyAfterFailure, Rested, Leftovers, PhaseEnds,
      licenseVars, xpVars, mutexVars, handledVars, guiVars, postVars
<1>3. LoopsLive'
  BY DEF IInv, LoopsLive, Registered, PhaseEnds, licenseVars, xpVars, mutexVars,
      handledVars, guiVars, postVars
<1>4. Disabling' /\ GuiLive' /\ ThreadsLive'
  BY DEF IInv, TypeOK, Disabling, GuiLive, ThreadsLive, Registered, PhaseEnds,
      licenseVars, xpVars, mutexVars, handledVars, guiVars, postVars
<1>5. FileConsented' /\ MemoryConsented'
  BY DEF IInv, FileConsented, MemoryConsented, PhaseEnds, licenseVars, xpVars,
      mutexVars, handledVars, guiVars, postVars
<1>6. RunsWithConsent'
  BY DEF IInv, RunsWithConsent, Registered, PhaseEnds, licenseVars, xpVars,
      mutexVars, handledVars, guiVars, postVars
<1> QED BY <1>1, <1>2, <1>3, <1>4, <1>5, <1>6 DEF IInv

\* The flight loop is locked.
LEMMA process_flight_loop_before_flight_modelStep == ASSUME IInv, process_flight_loop_before_flight_model PROVE IInv'
<1>1. TypeOK'
  BY DEF IInv, TypeOK, LicenseTypeOK, process_flight_loop_before_flight_model,
      Calls, done, licenseVars, xpVars, mutexVars, handledVars, guiVars, postVars
<1>2. FatalOnlyAfterFailure' /\ Rested'
  BY DEF IInv, TypeOK, FatalOnlyAfterFailure, Rested, Leftovers,
      process_flight_loop_before_flight_model, Calls, done, licenseVars, xpVars,
      mutexVars, handledVars, guiVars, postVars
<1>3. LoopsLive'
  BY DEF IInv, LoopsLive, Registered, process_flight_loop_before_flight_model,
      Calls, done, licenseVars, xpVars, mutexVars, handledVars, guiVars, postVars
<1>4. Disabling' /\ GuiLive' /\ ThreadsLive'
  BY DEF IInv, TypeOK, Disabling, GuiLive, ThreadsLive, Registered,
      process_flight_loop_before_flight_model, Calls, done, licenseVars, xpVars,
      mutexVars, handledVars, guiVars, postVars
<1>5. FileConsented' /\ MemoryConsented'
  BY DEF IInv, FileConsented, MemoryConsented,
      process_flight_loop_before_flight_model, Calls, done, licenseVars, xpVars,
      mutexVars, handledVars, guiVars, postVars
<1>6. RunsWithConsent'
  BY DEF IInv, RunsWithConsent, Registered, process_flight_loop_before_flight_model,
      Calls, done, licenseVars, xpVars, mutexVars, handledVars, guiVars, postVars
<1> QED BY <1>1, <1>2, <1>3, <1>4, <1>5, <1>6 DEF IInv

\* The flight loop is unlocked.
LEMMA process_flight_loop_after_flight_modelStep == ASSUME IInv, process_flight_loop_after_flight_model PROVE IInv'
<1>1. TypeOK'
  <2>1. todo' \in Seq(Loops)
    BY DEF IInv, TypeOK, process_flight_loop_after_flight_model, Calls, done
  <2>2. flight_loop_locked_by_xp' \in BOOLEAN
    BY DEF IInv, TypeOK, process_flight_loop_after_flight_model, mutexVars
  <2> QED
    BY <2>1, <2>2 DEF IInv, TypeOK, LicenseTypeOK,
        process_flight_loop_after_flight_model, Calls, done, licenseVars, xpVars,
        mutexVars, handledVars, guiVars, postVars
<1>2. FatalOnlyAfterFailure' /\ Rested'
  BY DEF IInv, TypeOK, FatalOnlyAfterFailure, Rested, Leftovers,
      process_flight_loop_after_flight_model, Calls, done, licenseVars, xpVars,
      mutexVars, handledVars, guiVars, postVars
<1>3. LoopsLive'
  BY DEF IInv, LoopsLive, Registered, process_flight_loop_after_flight_model, Calls,
      done, licenseVars, xpVars, mutexVars, handledVars, guiVars, postVars
<1>4. Disabling' /\ GuiLive' /\ ThreadsLive'
  BY DEF IInv, TypeOK, Disabling, GuiLive, ThreadsLive, Registered,
      process_flight_loop_after_flight_model, Calls, done, licenseVars, xpVars,
      mutexVars, handledVars, guiVars, postVars
<1>5. FileConsented' /\ MemoryConsented'
  BY DEF IInv, FileConsented, MemoryConsented,
      process_flight_loop_after_flight_model, Calls, done, licenseVars, xpVars,
      mutexVars, handledVars, guiVars, postVars
<1>6. RunsWithConsent'
  BY DEF IInv, RunsWithConsent, Registered, process_flight_loop_after_flight_model,
      Calls, done, licenseVars, xpVars, mutexVars, handledVars, guiVars, postVars
<1> QED BY <1>1, <1>2, <1>3, <1>4, <1>5, <1>6 DEF IInv

\* The rejection loop disables the plugin.
LEMMA on_plugin_licenses_rejected_flight_loopStep == ASSUME IInv, on_plugin_licenses_rejected_flight_loop PROVE IInv'
<1>1. TypeOK'
  BY DEF IInv, TypeOK, LicenseTypeOK, on_plugin_licenses_rejected_flight_loop,
      Calls, licenseVars, xpVars, mutexVars, handledVars, guiVars, postVars
<1>2. FatalOnlyAfterFailure' /\ Rested'
  BY DEF IInv, TypeOK, FatalOnlyAfterFailure, Rested, Leftovers,
      on_plugin_licenses_rejected_flight_loop, Calls, licenseVars, xpVars,
      mutexVars, handledVars, guiVars, postVars
<1>3. LoopsLive'
  BY DEF IInv, LoopsLive, Registered, on_plugin_licenses_rejected_flight_loop,
      Calls, licenseVars, xpVars, mutexVars, handledVars, guiVars, postVars
<1>4. Disabling' /\ GuiLive' /\ ThreadsLive'
  BY DEF IInv, TypeOK, Disabling, GuiLive, ThreadsLive, Registered,
      on_plugin_licenses_rejected_flight_loop, Calls, licenseVars, xpVars,
      mutexVars, handledVars, guiVars, postVars
<1>5. FileConsented' /\ MemoryConsented'
  BY DEF IInv, FileConsented, MemoryConsented,
      on_plugin_licenses_rejected_flight_loop, Calls, licenseVars, xpVars,
      mutexVars, handledVars, guiVars, postVars
<1>6. RunsWithConsent'
  BY DEF IInv, RunsWithConsent, Registered, on_plugin_licenses_rejected_flight_loop,
      Calls, licenseVars, xpVars, mutexVars, handledVars, guiVars, postVars
<1> QED BY <1>1, <1>2, <1>3, <1>4, <1>5, <1>6 DEF IInv

\* X-Plane closes the window.
LEMMA WindowClosedStep == ASSUME IInv, WindowClosed PROVE IInv'
<1>1. TypeOK'
  <2>1. window' \in Windows
    BY DEF IInv, TypeOK, WindowClosed, Windows
  <2> QED
    BY <2>1 DEF IInv, TypeOK, LicenseTypeOK, WindowClosed, UserMayAct, licenseVars,
        xpVars, mutexVars, handledVars, guiVars, postVars
<1>2. FatalOnlyAfterFailure' /\ Rested'
  BY DEF IInv, TypeOK, FatalOnlyAfterFailure, Rested, Leftovers, WindowClosed,
      UserMayAct, licenseVars, xpVars, mutexVars, handledVars, guiVars, postVars
<1>3. LoopsLive'
  BY DEF IInv, LoopsLive, Registered, WindowClosed, UserMayAct, licenseVars, xpVars,
      mutexVars, handledVars, guiVars, postVars
<1>4. Disabling' /\ GuiLive' /\ ThreadsLive'
  BY DEF IInv, TypeOK, Disabling, GuiLive, ThreadsLive, Registered, WindowClosed,
      UserMayAct, licenseVars, xpVars, mutexVars, handledVars, guiVars, postVars
<1>5. FileConsented' /\ MemoryConsented'
  BY DEF IInv, FileConsented, MemoryConsented, WindowClosed, UserMayAct,
      licenseVars, xpVars, mutexVars, handledVars, guiVars, postVars
<1>6. RunsWithConsent'
  BY DEF IInv, RunsWithConsent, Registered, WindowClosed, UserMayAct, licenseVars,
      xpVars, mutexVars, handledVars, guiVars, postVars
<1> QED BY <1>1, <1>2, <1>3, <1>4, <1>5, <1>6 DEF IInv

\* The menu's entry starts and stops the server.
LEMMA MenuTogglesStep == ASSUME IInv, MenuToggles PROVE IInv'
<1>1. TypeOK'
  BY DEF IInv, TypeOK, LicenseTypeOK, MenuToggles, UserMayAct, started,
      all_licenses_accepted, licenseVars, xpVars, mutexVars, handledVars, guiVars,
      postVars
<1>2. FatalOnlyAfterFailure' /\ Rested'
  BY DEF IInv, TypeOK, FatalOnlyAfterFailure, Rested, Leftovers,
      MenuToggles, UserMayAct, started, all_licenses_accepted, licenseVars,
      xpVars, mutexVars, handledVars, guiVars, postVars
<1>3. LoopsLive'
  BY DEF IInv, LoopsLive, Registered, MenuToggles, UserMayAct, started,
      all_licenses_accepted, licenseVars, xpVars, mutexVars, handledVars, guiVars,
      postVars
<1>4. Disabling' /\ GuiLive' /\ ThreadsLive'
  BY DEF IInv, TypeOK, Disabling, GuiLive, ThreadsLive, Registered,
      MenuToggles, UserMayAct, started, all_licenses_accepted, licenseVars,
      xpVars, mutexVars, handledVars, guiVars, postVars
<1>5. FileConsented' /\ MemoryConsented'
  BY DEF IInv, FileConsented, MemoryConsented, MenuToggles, UserMayAct,
      started, all_licenses_accepted, licenseVars, xpVars, mutexVars, handledVars,
      guiVars, postVars
<1>6. RunsWithConsent'
  BY ObjectsAre DEF IInv, RunsWithConsent, Registered, MemoryConsented, GuiLive,
      MenuToggles, UserMayAct, started, all_licenses_accepted, licenseVars,
      xpVars, mutexVars, handledVars, guiVars, postVars
<1> QED BY <1>1, <1>2, <1>3, <1>4, <1>5, <1>6 DEF IInv

\* Post-processing gets the mutex for the first time.
LEMMA PostLocksStep == ASSUME IInv, PostLocks PROVE IInv'
<1>1. TypeOK'
  BY DEF IInv, TypeOK, LicenseTypeOK, PostLocks, PostStep, WaitOrEnd, licenseVars,
      xpVars, mutexVars, handledVars, guiVars, postVars
<1>2. FatalOnlyAfterFailure' /\ Rested'
  BY DEF IInv, TypeOK, FatalOnlyAfterFailure, Rested, Leftovers, PostLocks,
      PostStep, WaitOrEnd, licenseVars, xpVars, mutexVars, handledVars, guiVars,
      postVars
<1>3. LoopsLive'
  BY DEF IInv, LoopsLive, Registered, PostLocks, PostStep, WaitOrEnd, licenseVars,
      xpVars, mutexVars, handledVars, guiVars, postVars
<1>4. Disabling' /\ GuiLive' /\ ThreadsLive'
  BY DEF IInv, TypeOK, Disabling, GuiLive, ThreadsLive, Registered, PostLocks,
      PostStep, WaitOrEnd, licenseVars, xpVars, mutexVars, handledVars, guiVars,
      postVars
<1>5. FileConsented' /\ MemoryConsented'
  BY DEF IInv, FileConsented, MemoryConsented, PostLocks, PostStep, WaitOrEnd,
      licenseVars, xpVars, mutexVars, handledVars, guiVars, postVars
<1>6. RunsWithConsent'
  BY DEF IInv, RunsWithConsent, Registered, PostLocks, PostStep, WaitOrEnd,
      licenseVars, xpVars, mutexVars, handledVars, guiVars, postVars
<1> QED BY <1>1, <1>2, <1>3, <1>4, <1>5, <1>6 DEF IInv

\* The condition wait ends.
LEMMA PostWakesStep == ASSUME IInv, PostWakes PROVE IInv'
<1>1. TypeOK'
  BY DEF IInv, TypeOK, LicenseTypeOK, PostWakes, PostStep, WaitOrEnd, licenseVars,
      xpVars, mutexVars, handledVars, guiVars, postVars
<1>2. FatalOnlyAfterFailure' /\ Rested'
  BY DEF IInv, TypeOK, FatalOnlyAfterFailure, Rested, Leftovers, PostWakes,
      PostStep, WaitOrEnd, licenseVars, xpVars, mutexVars, handledVars, guiVars,
      postVars
<1>3. LoopsLive'
  BY DEF IInv, LoopsLive, Registered, PostWakes, PostStep, WaitOrEnd, licenseVars,
      xpVars, mutexVars, handledVars, guiVars, postVars
<1>4. Disabling' /\ GuiLive' /\ ThreadsLive'
  BY DEF IInv, TypeOK, Disabling, GuiLive, ThreadsLive, Registered, PostWakes,
      PostStep, WaitOrEnd, licenseVars, xpVars, mutexVars, handledVars, guiVars,
      postVars
<1>5. FileConsented' /\ MemoryConsented'
  BY DEF IInv, FileConsented, MemoryConsented, PostWakes, PostStep, WaitOrEnd,
      licenseVars, xpVars, mutexVars, handledVars, guiVars, postVars
<1>6. RunsWithConsent'
  BY DEF IInv, RunsWithConsent, Registered, PostWakes, PostStep, WaitOrEnd,
      licenseVars, xpVars, mutexVars, handledVars, guiVars, postVars
<1> QED BY <1>1, <1>2, <1>3, <1>4, <1>5, <1>6 DEF IInv

\* Post-processing gets the mutex back.
LEMMA PostReacquiresStep == ASSUME IInv, PostReacquires PROVE IInv'
<1>1. TypeOK'
  BY DEF IInv, TypeOK, LicenseTypeOK, PostReacquires, PostStep, WaitOrEnd,
      licenseVars, xpVars, mutexVars, handledVars, guiVars, postVars
<1>2. FatalOnlyAfterFailure' /\ Rested'
  BY DEF IInv, TypeOK, FatalOnlyAfterFailure, Rested, Leftovers, PostReacquires,
      PostStep, WaitOrEnd, licenseVars, xpVars, mutexVars, handledVars, guiVars,
      postVars
<1>3. LoopsLive'
  BY DEF IInv, LoopsLive, Registered, PostReacquires, PostStep, WaitOrEnd,
      licenseVars, xpVars, mutexVars, handledVars, guiVars, postVars
<1>4. Disabling' /\ GuiLive' /\ ThreadsLive'
  BY DEF IInv, TypeOK, Disabling, GuiLive, ThreadsLive, Registered, PostReacquires,
      PostStep, WaitOrEnd, licenseVars, xpVars, mutexVars, handledVars, guiVars,
      postVars
<1>5. FileConsented' /\ MemoryConsented'
  BY DEF IInv, FileConsented, MemoryConsented, PostReacquires, PostStep, WaitOrEnd,
      licenseVars, xpVars, mutexVars, handledVars, guiVars, postVars
<1>6. RunsWithConsent'
  BY DEF IInv, RunsWithConsent, Registered, PostReacquires, PostStep, WaitOrEnd,
      licenseVars, xpVars, mutexVars, handledVars, guiVars, postVars
<1> QED BY <1>1, <1>2, <1>3, <1>4, <1>5, <1>6 DEF IInv

\* Tasks run.
LEMMA PostRunsStep == ASSUME IInv, PostRuns PROVE IInv'
<1>1. TypeOK'
  BY DEF IInv, TypeOK, LicenseTypeOK, PostRuns, PostStep, WaitOrEnd, licenseVars,
      xpVars, mutexVars, handledVars, guiVars, postVars
<1>2. FatalOnlyAfterFailure' /\ Rested'
  BY DEF IInv, TypeOK, FatalOnlyAfterFailure, Rested, Leftovers, PostRuns, PostStep,
      WaitOrEnd, licenseVars, xpVars, mutexVars, handledVars, guiVars, postVars
<1>3. LoopsLive'
  BY DEF IInv, LoopsLive, Registered, PostRuns, PostStep, WaitOrEnd, licenseVars,
      xpVars, mutexVars, handledVars, guiVars, postVars
<1>4. Disabling' /\ GuiLive' /\ ThreadsLive'
  BY DEF IInv, TypeOK, Disabling, GuiLive, ThreadsLive, Registered, PostRuns,
      PostStep, WaitOrEnd, licenseVars, xpVars, mutexVars, handledVars, guiVars,
      postVars
<1>5. FileConsented' /\ MemoryConsented'
  BY DEF IInv, FileConsented, MemoryConsented, PostRuns, PostStep, WaitOrEnd,
      licenseVars, xpVars, mutexVars, handledVars, guiVars, postVars
<1>6. RunsWithConsent'
  BY DEF IInv, RunsWithConsent, Registered, PostRuns, PostStep, WaitOrEnd,
      licenseVars, xpVars, mutexVars, handledVars, guiVars, postVars
<1> QED BY <1>1, <1>2, <1>3, <1>4, <1>5, <1>6 DEF IInv

\* The server manager's turn.
LEMMA PostMaintainsManagerStep == ASSUME IInv, PostMaintainsManager PROVE IInv'
<1>1. TypeOK'
  BY DEF IInv, TypeOK, LicenseTypeOK, PostMaintainsManager, PostStep, WaitOrEnd, started,
      all_licenses_accepted, licenseVars, xpVars, mutexVars, handledVars, guiVars,
      postVars
<1>2. FatalOnlyAfterFailure' /\ Rested'
  BY DEF IInv, TypeOK, FatalOnlyAfterFailure, Rested, Leftovers, PostMaintainsManager,
      PostStep, WaitOrEnd, started, all_licenses_accepted, licenseVars, xpVars,
      mutexVars, handledVars, guiVars, postVars
<1>3. LoopsLive'
  BY DEF IInv, LoopsLive, Registered, PostMaintainsManager, PostStep, WaitOrEnd, started,
      all_licenses_accepted, licenseVars, xpVars, mutexVars, handledVars, guiVars,
      postVars
<1>4. Disabling' /\ GuiLive' /\ ThreadsLive'
  BY DEF IInv, TypeOK, Disabling, GuiLive, ThreadsLive, Registered, PostMaintainsManager,
      PostStep, WaitOrEnd, started, all_licenses_accepted, licenseVars, xpVars,
      mutexVars, handledVars, guiVars, postVars
<1>5. FileConsented' /\ MemoryConsented'
  BY DEF IInv, FileConsented, MemoryConsented, PostMaintainsManager, PostStep, WaitOrEnd,
      started, all_licenses_accepted, licenseVars, xpVars, mutexVars, handledVars,
      guiVars, postVars
<1>6. RunsWithConsent'
  BY DEF IInv, RunsWithConsent, Registered, MemoryConsented, ThreadsLive,
      PostMaintainsManager, PostStep, WaitOrEnd, started, all_licenses_accepted,
      licenseVars, xpVars, mutexVars, handledVars, guiVars, postVars
<1> QED BY <1>1, <1>2, <1>3, <1>4, <1>5, <1>6 DEF IInv

-----------------------------------------------------------------------------
(* Lemmas about the calls the other actions share. *)

\* A manager that has just loaded the file has nothing pending only if all was
\* agreed to.
LEMMA CreateConsents ==
  ASSUME LicenseTypeOK, FileConsented, create_license_manager
  PROVE  /\ UNCHANGED <<hashes, file, consent, removeFailed>>
         /\ LicenseTypeOK'
         /\ FileConsented'
         /\ pending' = {} /\ ~removeFailed' =>
              \A l \in Licenses : hashes'[l] \in consent'[l]
<1>1. UNCHANGED <<hashes, file, consent, removeFailed>>  BY DEF create_license_manager
<1>2. PICK accepted \in {file, NoFile} : pending' = {l \in Licenses : accepted[l] # hashes[l]}
  BY DEF create_license_manager, load_accepted_licenses, compare_licenses
<1>3. \A l \in Licenses : hashes[l] \in Versions /\ hashes[l] # None
  BY LicensesAssumption DEF LicenseTypeOK, None
<1>4. ASSUME pending' = {}, ~removeFailed, NEW l \in Licenses PROVE hashes[l] \in consent[l]
  <2>1. accepted[l] = hashes[l]  BY <1>2, <1>4
  <2>2. CASE accepted = NoFile  BY <2>1, <2>2, <1>3 DEF NoFile
  <2>3. CASE accepted = file  BY <2>1, <2>3, <1>3, <1>4 DEF FileConsented
  <2> QED BY <2>2, <2>3
<1>5. LicenseTypeOK'  BY <1>1, <1>2 DEF LicenseTypeOK
<1> QED BY <1>1, <1>4, <1>5 DEF FileConsented

\* Whoever accepts has agreed to what the file and the memory say.
LEMMA AcceptConsents ==
  ASSUME LicenseTypeOK, FileConsented, accept_all_licenses
  PROVE  /\ LicenseTypeOK'
         /\ FileConsented'
         /\ \A l \in Licenses : hashes'[l] \in consent'[l]
<1>1. /\ pending' = {} /\ UNCHANGED <<hashes, removeFailed>>
      /\ consent' = [l \in Licenses |-> consent[l] \union {hashes[l]}]
  BY DEF accept_all_licenses
<1>2. \A l \in Licenses : consent'[l] = consent[l] \union {hashes[l]}  BY <1>1
<1>3. /\ file' \in [Licenses -> Versions \union {None}]
      /\ \A l \in Licenses : file'[l] \in {None, hashes[l], file[l]}
  BY DEF accept_all_licenses, persist_all_licenses, LicenseTypeOK
<1>4. LicenseTypeOK'  BY <1>1, <1>3 DEF LicenseTypeOK
<1>5. FileConsented'  BY <1>1, <1>2, <1>3 DEF FileConsented
<1> QED BY <1>1, <1>2, <1>4, <1>5

\* A rejection leaves no file, unless it cannot be deleted.
LEMMA RejectConsents ==
  ASSUME LicenseTypeOK, reject_licenses
  PROVE  /\ LicenseTypeOK'
         /\ FileConsented'
         /\ pending' = Licenses
<1>1. /\ pending' = Licenses /\ UNCHANGED hashes /\ consent' = NoConsent
      /\ \/ file' = NoFile /\ removeFailed' = FALSE
         \/ UNCHANGED file /\ removeFailed' = TRUE
  BY DEF reject_licenses, get_all_licenses_as_pending
<1>2. LicenseTypeOK'  BY <1>1 DEF LicenseTypeOK, NoFile, NoConsent
<1>3. FileConsented'  BY <1>1 DEF FileConsented, NoFile
<1> QED BY <1>1, <1>2, <1>3

\* Nothing is agreed to and nothing needs to be: no licences.
LEMMA AllPending ==
  ASSUME pending' = Licenses PROVE MemoryConsented'
BY DEF MemoryConsented

\* What the acceptance callback does unless there was a rejection.
LEMMA AcceptedEffect ==
  ASSUME TypeOK, NEW ls \in Seq(Loops), NEW p, NEW auto,
         ~handled_license_rejection, on_plugin_licenses_accepted(ls, p, auto)
  PROVE  /\ loops' \in Seq(Loops)
         /\ Range(loops') \subseteq Range(ls) \union {"before", "after"}
         /\ fatal_error' \in BOOLEAN /\ failed' \in BOOLEAN
         /\ handled_license_acceptance' \in BOOLEAN /\ menu' \in BOOLEAN
         /\ fatal_error' => fatal_error \/ failed'
         /\ failed => failed'
         /\ managed' \in {"stopped", "wanted", "running"}
         /\ managed' = "running" => managed = "running" \/ p = {}
<1>1. CASE handled_license_acceptance
  BY <1>1 DEF on_plugin_licenses_accepted, TypeOK
<1>2. CASE /\ ~handled_license_acceptance /\ handled_license_acceptance' = TRUE
           /\ menu' = TRUE
           /\ managed' \in IF auto THEN started(p) ELSE {managed}
           /\ loops' = ls \o <<"before", "after">>
           /\ UNCHANGED <<fatal_error, failed>>
  <2>1. managed' \in {"stopped", "wanted", "running"}
    BY <1>2 DEF TypeOK, started, all_licenses_accepted
  <2>2. managed' = "running" => managed = "running" \/ p = {}
    BY <1>2 DEF started, all_licenses_accepted
  <2>3. loops' \in Seq(Loops) /\ Range(loops') = Range(ls) \union {"before", "after"}
    BY <1>2, RegularRange
  <2> QED BY <1>2, <2>1, <2>2, <2>3 DEF TypeOK
<1>3. CASE /\ ~handled_license_acceptance /\ handled_license_acceptance' = TRUE
           /\ fatal_error' = TRUE /\ failed' = TRUE
           /\ loops' = ls /\ UNCHANGED <<menu, managed>>
  BY <1>3 DEF TypeOK
<1> QED BY <1>1, <1>2, <1>3 DEF on_plugin_licenses_accepted

\* What the rejection callback does to the loops.
LEMMA RejectedEffect ==
  ASSUME NEW ls \in Seq(Loops), on_plugin_licenses_rejected(ls)
  PROVE  /\ handled_license_rejection' = TRUE
         /\ loops' \in Seq(Loops)
         /\ Range(loops') \subseteq Range(ls) \union {"rejection"}
<1>1. "rejection" \in Loops  BY DEF Loops
<1>2. loops' = ls \/ loops' = Append(ls, "rejection")  BY DEF on_plugin_licenses_rejected
<1>3. Append(ls, "rejection") \in Seq(Loops) /\
      Range(Append(ls, "rejection")) = Range(ls) \union {"rejection"}
  BY <1>1, AppendRange
<1> QED BY <1>2, <1>3 DEF on_plugin_licenses_rejected

\* What opening the licence window does to the loops.
LEMMA OpenEffect ==
  ASSUME NEW ls \in Seq(Loops), NEW p, open_license_window(p, ls)
  PROVE  /\ loops' \in Seq(Loops)
         /\ Range(loops') \subseteq Range(ls) \union {"monitor"}
         /\ window' \in Windows
<1>1. "monitor" \in Loops  BY DEF Loops
<1>2. loops' = ls \/ loops' = Append(ls, "monitor")  BY DEF open_license_window
<1>3. Append(ls, "monitor") \in Seq(Loops) /\
      Range(Append(ls, "monitor")) = Range(ls) \union {"monitor"}
  BY <1>1, AppendRange
<1>4. window' \in Windows
  <2> DEFINE asks == ~all_licenses_accepted(p)
  <2>1. asks \in BOOLEAN  OBVIOUS
  <2>2. window' = [visible |-> TRUE, was_visible |-> TRUE, should_reject_on_close |-> asks]
    BY DEF open_license_window, Shown
  <2> HIDE DEF asks
  <2> QED BY <2>1, <2>2 DEF Windows
<1> QED BY <1>2, <1>3, <1>4

\* XPluginDisable returns to X-Plane.
LEMMA DisabledEffect ==
  ASSUME NEW ls \in Seq(Loops), disabled(ls)
  PROVE  /\ xplane' = "started" /\ xpc' = "idle" /\ todo' = <<>>
         /\ loops' \in Seq(Loops)
         /\ Range(loops') \subseteq Range(ls)
<1>1. loops' = ls \/ loops' = RemoveFirst(ls, "rejection")  BY DEF disabled
<1>2. /\ RemoveFirst(ls, "rejection") \in Seq(Loops)
      /\ Range(RemoveFirst(ls, "rejection")) \subseteq Range(ls)
  BY RemoveFirstRange
<1> QED BY <1>1, <1>2 DEF disabled

\* The loops without some of them.
LEMMA WithoutLoops ==
  ASSUME loops \in Seq(Loops), NEW ls
  PROVE  /\ Without(loops, ls) \in Seq(Loops)
         /\ Range(Without(loops, ls)) \subseteq Registered \ ls
<1>1. Without(loops, ls) \in Seq(Loops \ ls)  BY WithoutType
<1>2. Without(loops, ls) \in Seq(Loops)  BY <1>1
<1>3. Range(Without(loops, ls)) \subseteq Range(loops) \ ls  BY WithoutRange
<1> QED BY <1>2, <1>3 DEF Registered

\* The registered loops are flight loops.
LEMMA RegisteredAre == ASSUME loops \in Seq(Loops) PROVE Registered \subseteq Loops
BY DEF Registered, Range

-----------------------------------------------------------------------------
(* Every action keeps the invariant: the others. *)

\* XPluginEnable refuses.
LEMMA RefusedStep ==
  ASSUME IInv, xpc = "idle", xplane = "started", xplane' = "enabled", Refused,
         UNCHANGED <<plugin_initialized, todo, xpc, mutexVars, restarts>>
  PROVE  IInv'
<1>1. /\ fatal_error' = TRUE /\ fatal_error
      /\ UNCHANGED <<licenseVars, auto_start, objects, loops, handledVars, guiVars, postVars, failed>>
  BY DEF Refused, IInv, Rested
<1>2. TypeOK'
  BY <1>1 DEF IInv, TypeOK, LicenseTypeOK, licenseVars, mutexVars, handledVars, guiVars, postVars
<1>3. FatalOnlyAfterFailure' /\ Rested'
  BY <1>1 DEF IInv, FatalOnlyAfterFailure, Rested
<1>4. LoopsLive' /\ Disabling' /\ GuiLive' /\ ThreadsLive'
  BY <1>1 DEF IInv, LoopsLive, Disabling, GuiLive, ThreadsLive, Registered, handledVars, guiVars,
              postVars
<1>5. FileConsented' /\ MemoryConsented' /\ RunsWithConsent'
  BY <1>1 DEF IInv, FileConsented, MemoryConsented, RunsWithConsent, Registered, licenseVars,
              handledVars, guiVars
<1> QED BY <1>2, <1>3, <1>4, <1>5 DEF IInv

\* Where nothing is left over, no object exists and only a rejection loop can
\* be registered.
LEMMA NoLeftovers ==
  ASSUME IInv, ~Leftovers
  PROVE  /\ objects = {} /\ post = "none"
         /\ ~handled_license_acceptance /\ ~handled_license_rejection
         /\ Registered \subseteq {"rejection"}
         /\ ~window.visible /\ ~menu
<1>1. /\ objects = {} /\ post = "none"
      /\ ~handled_license_acceptance /\ ~handled_license_rejection
  BY DEF Leftovers
<1>2. \A l \in Registered : l \in Loops /\ Used(l) = {}
  BY <1>1, RegisteredAre DEF IInv, TypeOK, LoopsLive
<1>3. Registered \subseteq {"rejection"}  BY <1>2, UsedAre
<1>4. ~window.visible /\ ~menu  BY <1>1, ObjectsAre DEF IInv, GuiLive
<1> QED BY <1>1, <1>3, <1>4

\* XPluginEnable fails after some of the objects.
LEMMA EnableFailsStep ==
  ASSUME IInv, xpc = "idle", xplane = "started", xplane' = "enabled", EnableFails,
         UNCHANGED <<plugin_initialized, todo, xpc, mutexVars, restarts>>
  PROVE  IInv'
<1>1. PICK n \in 0..Len(Created) :
       /\ objects' = {Created[i] : i \in 1..n}
       /\ fatal_error' \in IF n = 3 THEN {TRUE} ELSE IF n = 0 THEN BOOLEAN ELSE {FALSE}
       /\ auto_start' \in IF n < 2 THEN {auto_start} ELSE BOOLEAN
       /\ post' \in IF n < Len(Created) THEN {"none"} ELSE {"none", "lock"}
       /\ shutdown_post_processing' = (shutdown_post_processing /\ n < Len(Created))
       /\ IF n = 0 THEN UNCHANGED licenseVars ELSE create_license_manager
  BY DEF EnableFails
<1>2. /\ failed' = TRUE /\ UNCHANGED <<loops, handledVars, guiVars>> /\ ~Leftovers
  BY DEF EnableFails
<1>3. /\ objects = {} /\ Registered \subseteq {"rejection"} /\ ~window.visible /\ ~menu
      /\ ~handled_license_rejection
  BY <1>2, NoLeftovers
<1>4. /\ objects' \subseteq Objects
      /\ n = 0 <=> "license" \notin objects'
      /\ "manager" \in objects' => "license" \in objects'
      /\ post' # "none" => "schedule" \in objects'
      /\ post' \in {"none", "lock"}
  <2>1. /\ Len(Created) = 8 /\ objects' \subseteq Objects
        /\ n = 0 <=> "license" \notin objects'
        /\ "manager" \in objects' => "license" \in objects'
        /\ n = 8 => "schedule" \in objects'
    BY <1>1, CreatedFirst
  <2>2. post' \in IF n < 8 THEN {"none"} ELSE {"none", "lock"}  BY <1>1, <2>1
  <2> QED BY <2>1, <2>2
<1>5. /\ LicenseTypeOK' /\ FileConsented'
      /\ UNCHANGED <<hashes, consent, removeFailed>>
      /\ "license" \in objects' /\ pending' = {} /\ ~removeFailed' =>
              \A l \in Licenses : hashes'[l] \in consent'[l]
  <2>1. CASE n = 0
    BY <2>1, <1>1, <1>4 DEF IInv, TypeOK, LicenseTypeOK, FileConsented, licenseVars
  <2>2. CASE n # 0
    BY <2>2, <1>1, CreateConsents DEF IInv, TypeOK
  <2> QED BY <2>1, <2>2
<1>6. fatal_error' \in BOOLEAN /\ auto_start' \in BOOLEAN
  BY <1>1 DEF IInv, TypeOK
<1>7. shutdown_post_processing' \in BOOLEAN  BY <1>1
<1>8. TypeOK'
  BY <1>2, <1>4, <1>5, <1>6, <1>7 DEF IInv, TypeOK, mutexVars, handledVars, guiVars
<1>9. FatalOnlyAfterFailure' /\ Rested'
  BY <1>2 DEF FatalOnlyAfterFailure, Rested
<1>10. LoopsLive'
  BY <1>2, <1>3, UsedAre DEF LoopsLive, Registered
<1>11. Disabling' /\ GuiLive' /\ ThreadsLive'
  BY <1>2, <1>3, <1>4 DEF Disabling, GuiLive, ThreadsLive, guiVars
<1>12. MemoryConsented'  BY <1>5 DEF MemoryConsented
<1>13. RunsWithConsent'
  BY <1>2, <1>5 DEF IInv, RunsWithConsent, Registered, handledVars, guiVars
<1> QED BY <1>5, <1>8, <1>9, <1>10, <1>11, <1>12, <1>13 DEF IInv

\* XPluginEnable succeeds, with or without asking for licences.
LEMMA EnableSucceedsStep ==
  ASSUME IInv, xpc = "idle", xplane = "started", xplane' = "enabled", EnableSucceeds,
         UNCHANGED <<plugin_initialized, todo, xpc, mutexVars, restarts>>
  PROVE  IInv'
<1>1. /\ objects' = Objects /\ auto_start' \in BOOLEAN /\ create_license_manager
      /\ post' = "lock" /\ shutdown_post_processing' = FALSE /\ ~Leftovers /\ ~fatal_error
  BY DEF EnableSucceeds
<1>2. /\ ~handled_license_acceptance /\ ~handled_license_rejection
      /\ Registered \subseteq {"rejection"} /\ ~window.visible /\ ~menu
  BY <1>1, NoLeftovers
<1>3. /\ LicenseTypeOK' /\ FileConsented'
      /\ UNCHANGED <<hashes, consent, removeFailed>>
      /\ pending' = {} /\ ~removeFailed' => \A l \in Licenses : hashes'[l] \in consent'[l]
  BY <1>1, CreateConsents DEF IInv, TypeOK
<1>4. loops \in Seq(Loops) /\ TypeOK  BY DEF IInv, TypeOK
<1>5. CASE pending' = {}
  <2>1. /\ on_plugin_licenses_accepted(loops, pending', auto_start')
        /\ UNCHANGED <<handled_license_rejection, window>>
    BY <1>5 DEF EnableSucceeds, all_licenses_accepted
  <2>2. /\ loops' \in Seq(Loops)
        /\ Range(loops') \subseteq Range(loops) \union {"before", "after"}
        /\ fatal_error' \in BOOLEAN /\ failed' \in BOOLEAN
        /\ handled_license_acceptance' \in BOOLEAN /\ menu' \in BOOLEAN
        /\ fatal_error' => fatal_error \/ failed'
        /\ managed' \in {"stopped", "wanted", "running"}
    BY <1>2, <1>4, <2>1, AcceptedEffect
  <2>3. TypeOK'
    BY <1>1, <1>3, <2>1, <2>2 DEF IInv, TypeOK, mutexVars
  <2>4. FatalOnlyAfterFailure' /\ Rested'
    BY <1>1, <2>2 DEF FatalOnlyAfterFailure, Rested
  <2>5. LoopsLive'
    BY <1>1, <2>2, <2>3, RegisteredAre, UsedAre DEF TypeOK, LoopsLive, Registered, Range
  <2>6. Disabling' /\ GuiLive' /\ ThreadsLive'
    BY <1>1, <1>2, <2>1, ObjectsAre DEF Disabling, GuiLive, ThreadsLive
  <2>7. MemoryConsented' /\ RunsWithConsent'  BY <1>3, <1>5 DEF MemoryConsented, RunsWithConsent
  <2> QED BY <1>3, <2>3, <2>4, <2>5, <2>6, <2>7 DEF IInv
<1>6. CASE pending' # {}
  <2>1. /\ open_license_window(pending', loops)
        /\ UNCHANGED <<fatal_error, handledVars, menu, managed, failed>>
    BY <1>6 DEF EnableSucceeds, all_licenses_accepted
  <2>2. /\ loops' \in Seq(Loops)
        /\ Range(loops') \subseteq Range(loops) \union {"monitor"}
        /\ window' \in Windows
    BY <1>4, <2>1, OpenEffect
  <2>3. TypeOK'
    BY <1>1, <1>3, <2>1, <2>2 DEF IInv, TypeOK, mutexVars, handledVars
  <2>4. FatalOnlyAfterFailure' /\ Rested'
    BY <1>1, <2>1 DEF FatalOnlyAfterFailure, Rested
  <2>5. LoopsLive'
    BY <1>1, <2>2, <2>3, UsedAre DEF TypeOK, LoopsLive, Registered, Range
  <2>6. Disabling' /\ GuiLive' /\ ThreadsLive'
    BY <1>1, <1>2, <2>1, ObjectsAre DEF Disabling, GuiLive, ThreadsLive, handledVars
  <2>7. MemoryConsented'  BY <1>6 DEF MemoryConsented
  <2>8. RunsWithConsent'
    BY <1>2, <1>3, <2>1, <2>2 DEF IInv, RunsWithConsent, Registered, handledVars
  <2> QED BY <1>3, <2>3, <2>4, <2>5, <2>6, <2>7, <2>8 DEF IInv
<1> QED BY <1>5, <1>6

\* XPluginEnable.
LEMMA XPluginEnableStep == ASSUME IInv, XPluginEnable PROVE IInv'
BY RefusedStep, EnableFailsStep, EnableSucceedsStep DEF XPluginEnable

\* Nothing is registered in a fresh plugin.
LEMMA NothingRegistered == Range(<<>>) = {} /\ <<>> \in Seq(Loops)
BY DEF Range

\* A hidden or destroyed window is not visible.
LEMMA WindowsGone ==
  /\ NoWindow \in Windows /\ ~NoWindow.visible
  /\ window \in Windows => Hidden \in Windows /\ ~Hidden.visible
BY DEF NoWindow, Hidden, Windows

\* XPluginDisable up to the server manager.
LEMMA DisableBeginStep == ASSUME IInv, DisableBegin PROVE IInv'
<1>1. /\ xpc = "disable" /\ xplane = "enabled" /\ TypeOK /\ loops \in Seq(Loops)
      /\ UNCHANGED <<licenseVars, plugin_initialized, auto_start, mutexVars, handledVars, postVars,
                     restarts>>
  BY DEF DisableBegin, IInv, TypeOK, Rested
<1> DEFINE ls == destroy_license_window(loops)
<1>2. ls \in Seq(Loops) /\ Range(ls) \subseteq Registered \ {"monitor"}
  BY <1>1, WithoutLoops DEF destroy_license_window
<1> HIDE DEF ls
<1>3. CASE /\ fatal_error /\ disabled(loops)
           /\ UNCHANGED <<fatal_error, objects, window, menu, managed, failed>>
  <2>1. /\ xplane' = "started" /\ xpc' = "idle" /\ todo' = <<>>
        /\ loops' \in Seq(Loops) /\ Range(loops') \subseteq Range(loops)
    BY <1>1, <1>3, DisabledEffect
  <2>2. TypeOK'
    BY <1>1, <1>3, <2>1 DEF TypeOK, LicenseTypeOK, licenseVars, mutexVars, handledVars, postVars
  <2>3. FatalOnlyAfterFailure' /\ Rested'
    BY <1>3, <2>1 DEF IInv, FatalOnlyAfterFailure, Rested
  <2>4. LoopsLive'  BY <1>3, <2>1 DEF IInv, LoopsLive, Registered
  <2>5. Disabling' /\ GuiLive' /\ ThreadsLive'
    BY <1>1, <1>3, <2>1 DEF IInv, Disabling, GuiLive, ThreadsLive, handledVars, postVars
  <2>6. FileConsented' /\ MemoryConsented' /\ RunsWithConsent'
    BY <1>1, <1>3, <2>1 DEF IInv, FileConsented, MemoryConsented, RunsWithConsent, Registered,
                            licenseVars, handledVars
  <2> QED BY <2>2, <2>3, <2>4, <2>5, <2>6 DEF IInv
<1>4. CASE /\ window' = NoWindow /\ menu' = FALSE
           /\ objects' = objects \ {"gui", "manager"}
           /\ managed' = "stopped"
           /\ xpc' = "lock" /\ loops' = ls
           /\ UNCHANGED <<xplane, todo, fatal_error, failed>>
  <2>1. window' \in Windows /\ ~window'.visible /\ ~menu'  BY <1>4, WindowsGone
  <2>0. /\ loops' \in Seq(Loops) /\ objects' \subseteq Objects /\ menu' \in BOOLEAN
        /\ managed' = "stopped" /\ xpc' = "lock"
        /\ UNCHANGED <<xplane, todo, fatal_error, failed>>
    BY <1>1, <1>2, <1>4 DEF TypeOK
  <2>2. TypeOK'
    BY <1>1, <2>0, <2>1 DEF TypeOK, LicenseTypeOK, licenseVars, mutexVars, handledVars, postVars
  <2>3. FatalOnlyAfterFailure' /\ Rested'
    BY <1>1, <1>4 DEF IInv, FatalOnlyAfterFailure, Rested
  <2>4. LoopsLive'
    <3> SUFFICES ASSUME NEW l \in Range(ls) PROVE Used(l) \subseteq objects \ {"gui", "manager"}
      BY <1>4 DEF LoopsLive, Registered
    <3>1. l \in Registered /\ l \in Loops /\ l # "monitor"  BY <1>1, <1>2, RegisteredAre
    <3> QED BY <3>1, UsedAre DEF IInv, LoopsLive
  <2>5. Disabling' /\ GuiLive' /\ ThreadsLive'
    BY <1>1, <1>2, <1>4, <2>1 DEF IInv, Disabling, GuiLive, ThreadsLive, Registered, postVars
  <2>6. FileConsented' /\ MemoryConsented' /\ RunsWithConsent'
    BY <1>1, <1>2, <1>4 DEF IInv, FileConsented, MemoryConsented, RunsWithConsent, Registered,
                            licenseVars, handledVars
  <2> QED BY <2>2, <2>3, <2>4, <2>5, <2>6 DEF IInv
<1>5. CASE /\ window' = NoWindow /\ menu' = FALSE
           /\ objects' = objects \ {"gui"}
           /\ fatal_error' = TRUE /\ failed' = TRUE
           /\ UNCHANGED managed
           /\ disabled(ls)
  <2>1. window' \in Windows /\ ~window'.visible /\ ~menu'  BY <1>5, WindowsGone
  <2>2. /\ xplane' = "started" /\ xpc' = "idle" /\ todo' = <<>>
        /\ loops' \in Seq(Loops) /\ Range(loops') \subseteq Range(ls)
    BY <1>2, <1>5, DisabledEffect
  <2>0. /\ objects' \subseteq Objects /\ menu' \in BOOLEAN
        /\ fatal_error' \in BOOLEAN /\ failed' \in BOOLEAN /\ UNCHANGED managed
    BY <1>1, <1>5 DEF TypeOK
  <2>3. TypeOK'
    BY <1>1, <2>0, <2>1, <2>2, NothingRegistered DEF TypeOK, LicenseTypeOK, licenseVars, mutexVars, handledVars, postVars
  <2>4. FatalOnlyAfterFailure' /\ Rested'
    BY <1>5, <2>2 DEF FatalOnlyAfterFailure, Rested
  <2>5. LoopsLive'
    <3> SUFFICES ASSUME NEW l \in Range(loops') PROVE Used(l) \subseteq objects \ {"gui"}
      BY <1>5 DEF LoopsLive, Registered
    <3>1. l \in Registered /\ l \in Loops /\ l # "monitor"  BY <1>1, <1>2, <2>2, RegisteredAre
    <3> QED BY <3>1, UsedAre DEF IInv, LoopsLive
  <2>6. Disabling' /\ GuiLive' /\ ThreadsLive'
    BY <1>1, <1>5, <2>1, <2>2 DEF IInv, Disabling, GuiLive, ThreadsLive, postVars
  <2>7. FileConsented' /\ MemoryConsented' /\ RunsWithConsent'
    BY <1>1, <1>2, <1>5, <2>2 DEF IInv, FileConsented, MemoryConsented, RunsWithConsent, Registered,
                                  licenseVars, handledVars
  <2> QED BY <2>3, <2>4, <2>5, <2>6, <2>7 DEF IInv
<1> QED BY <1>3, <1>4, <1>5 DEF DisableBegin, ls

\* XPluginDisable destroys the regular loops.
LEMMA DisableSignalsStep == ASSUME IInv, DisableSignals PROVE IInv'
<1>1. /\ xpc = "lock" /\ xplane = "enabled" /\ xpc' = "join" /\ loops \in Seq(Loops)
      /\ loops' = Without(loops, {"before", "after"})
      /\ UNCHANGED <<licenseVars, xplane, plugin_initialized, fatal_error, auto_start, objects, todo,
                     mutexVars, handledVars, guiVars, failed, restarts>>
  BY DEF DisableSignals, IInv, TypeOK, Rested
<1>2. /\ shutdown_post_processing' \in BOOLEAN
      /\ post' \in {"none", "lock", "wait", "woken", "run", "maintain", "ended"}
      /\ post' = "none" <=> post = "none"
  BY DEF DisableSignals, IInv, TypeOK
<1>3. loops' \in Seq(Loops) /\ Range(loops') \subseteq Registered \ {"before", "after"}
  BY <1>1, WithoutLoops
<1>4. Range(loops') \subseteq {"rejection"}
  <2>1. Registered \subseteq Loops \ {"monitor"}
    BY <1>1, RegisteredAre DEF IInv, Disabling
  <2> QED BY <1>3, <2>1 DEF Loops
<1>5. TypeOK'
  BY <1>1, <1>2, <1>3 DEF IInv, TypeOK, LicenseTypeOK, licenseVars, mutexVars, handledVars, guiVars
<1>6. FatalOnlyAfterFailure' /\ Rested'
  BY <1>1 DEF IInv, FatalOnlyAfterFailure, Rested
<1>7. LoopsLive'
  BY <1>1, <1>3 DEF IInv, LoopsLive, Registered
<1>8. Disabling' /\ GuiLive' /\ ThreadsLive'
  BY <1>1, <1>2, <1>4 DEF IInv, Disabling, GuiLive, ThreadsLive, Registered, handledVars, guiVars
<1>9. FileConsented' /\ MemoryConsented' /\ RunsWithConsent'
  BY <1>1, <1>3 DEF IInv, FileConsented, MemoryConsented, RunsWithConsent, Registered,
                    licenseVars, handledVars, guiVars
<1> QED BY <1>5, <1>6, <1>7, <1>8, <1>9 DEF IInv

\* XPluginDisable destroys what is left, or stops at something that fails.
LEMMA DisableEndStep == ASSUME IInv, DisableEnd PROVE IInv'
<1>1. /\ xpc = "join" /\ xplane = "enabled" /\ post' = "none" /\ loops \in Seq(Loops)
      /\ disabled(loops)
      /\ UNCHANGED <<plugin_initialized, auto_start, guiVars, shutdown_post_processing, restarts>>
  BY DEF DisableEnd, IInv, TypeOK, Rested
<1>2. /\ flight_loop_mutex' \in {"none", "xp", "post"}
      /\ flight_loop_locked_by_xp' \in BOOLEAN /\ ~flight_loop_locked_by_xp'
  BY DEF DisableEnd, IInv, TypeOK, mutexVars
<1>3. /\ xplane' = "started" /\ xpc' = "idle" /\ todo' = <<>>
      /\ loops' \in Seq(Loops) /\ Range(loops') \subseteq Range(loops)
  BY <1>1, DisabledEffect
<1>4. /\ "gui" \notin objects /\ "manager" \notin objects /\ objects \subseteq Objects
      /\ ~window.visible /\ ~menu /\ managed = "stopped"
      /\ Range(loops') \subseteq {"rejection"}
  BY <1>1, <1>3 DEF IInv, TypeOK, Disabling, Registered
<1>5. LoopsLive'  BY <1>4, UsedAre DEF LoopsLive, Registered
<1>6. GuiLive'  BY <1>1, <1>4 DEF GuiLive, guiVars
<1>7. RunsWithConsent'  BY <1>1, <1>4 DEF RunsWithConsent, Registered, guiVars
<1>8. CASE /\ DestroyFirst(Len(Destroyed))
           /\ IF "license" \in objects THEN destroy_license_manager ELSE UNCHANGED licenseVars
           /\ ForgetDecisions
           /\ UNCHANGED <<fatal_error, failed>>
  <2>1. objects' = {}  BY <1>4, <1>8, DestroyedFirst DEF DestroyFirst
  <2>2. /\ pending' \subseteq Licenses /\ UNCHANGED <<hashes, file, consent, removeFailed>>
    BY <1>8 DEF IInv, TypeOK, LicenseTypeOK, destroy_license_manager, licenseVars
  <2>3. /\ handled_license_acceptance' = FALSE /\ handled_license_rejection' = FALSE
    BY <1>8 DEF ForgetDecisions
  <2>4. TypeOK'
    <3>1. LicenseTypeOK'  BY <2>2 DEF IInv, TypeOK, LicenseTypeOK
    <3>2. fatal_error' = fatal_error /\ failed' = failed  BY <1>8
    <3> QED BY <1>1, <1>2, <1>3, <2>1, <2>3, <3>1, <3>2, NothingRegistered DEF IInv, TypeOK, guiVars
  <2>5. FatalOnlyAfterFailure' /\ Rested'
    BY <1>1, <1>2, <1>3, <1>8, <2>1, <2>3 DEF IInv, FatalOnlyAfterFailure, Rested, Leftovers
  <2>6. Disabling' /\ ThreadsLive'  BY <1>1, <1>3, <2>1 DEF Disabling, ThreadsLive
  <2>7. FileConsented' /\ MemoryConsented'
    BY <2>1, <2>2 DEF IInv, FileConsented, MemoryConsented
  <2> QED BY <1>5, <1>6, <1>7, <2>4, <2>5, <2>6, <2>7 DEF IInv
<1>9. CASE /\ \E n \in 0..(Len(Destroyed) - 2) : Destroyed[n + 1] \in objects /\ DestroyFirst(n)
           /\ fatal_error' = TRUE /\ failed' = TRUE
           /\ UNCHANGED <<licenseVars, handledVars>>
  <2>1. /\ objects' \subseteq objects
        /\ "license" \in objects <=> "license" \in objects'
    BY <1>9, DestroyedFirst DEF DestroyFirst
  <2>2. TypeOK'
    BY <1>1, <1>2, <1>3, <1>9, <2>1 DEF IInv, TypeOK, LicenseTypeOK, guiVars, licenseVars, handledVars
  <2>3. FatalOnlyAfterFailure' /\ Rested'
    BY <1>3, <1>9 DEF FatalOnlyAfterFailure, Rested
  <2>4. Disabling' /\ ThreadsLive'  BY <1>1, <1>3, <1>4, <2>1 DEF Disabling, ThreadsLive
  <2>5. FileConsented' /\ MemoryConsented'
    BY <1>9, <2>1 DEF IInv, FileConsented, MemoryConsented, licenseVars
  <2> QED BY <1>5, <1>6, <1>7, <2>2, <2>3, <2>4, <2>5 DEF IInv
<1> QED BY <1>8, <1>9 DEF DisableEnd

\* The licence window's monitor.
LEMMA handle_window_stateStep == ASSUME IInv, handle_window_state PROVE IInv'
<1>1. /\ xpc \in {"before", "after"} /\ todo # <<>> /\ todo' = Tail(todo)
      /\ loops \in Seq(Loops) /\ todo \in Seq(Loops) /\ LicenseTypeOK
      /\ UNCHANGED <<xplane, plugin_initialized, fatal_error, auto_start, objects, xpc, mutexVars,
                     handled_license_acceptance, guiVars, postVars, failed, restarts>>
  BY DEF handle_window_state, Calls, done, IInv, TypeOK
<1> DEFINE ls == Without(loops, {"monitor"})
<1>2. ls \in Seq(Loops) /\ Range(ls) \subseteq Registered \ {"monitor"}
  BY <1>1, WithoutLoops
<1> HIDE DEF ls
<1>3. todo' \in Seq(Loops)  BY <1>1
<1>4. xplane = "enabled"  BY <1>1 DEF IInv, Rested
<1>5. CASE /\ loops' \in {loops, ls}
           /\ UNCHANGED <<licenseVars, handled_license_rejection>>
  <2>1. loops' \in Seq(Loops) /\ Range(loops') \subseteq Registered
    BY <1>1, <1>2, <1>5 DEF Registered
  <2>2. TypeOK'
    BY <1>1, <1>3, <1>5, <2>1 DEF IInv, TypeOK, LicenseTypeOK, licenseVars, mutexVars, guiVars, postVars
  <2>3. FatalOnlyAfterFailure' /\ Rested'
    BY <1>1, <1>4 DEF IInv, FatalOnlyAfterFailure, Rested
  <2>4. LoopsLive'  BY <1>1, <2>1 DEF IInv, LoopsLive, Registered
  <2>5. Disabling' /\ GuiLive' /\ ThreadsLive'
    BY <1>1, <1>5 DEF IInv, Disabling, GuiLive, ThreadsLive, guiVars, postVars
  <2>6. FileConsented' /\ MemoryConsented' /\ RunsWithConsent'
    BY <1>1, <1>5, <2>1 DEF IInv, FileConsented, MemoryConsented, RunsWithConsent, Registered,
                            licenseVars, guiVars
  <2> QED BY <2>2, <2>3, <2>4, <2>5, <2>6 DEF IInv
<1>6. CASE ~window.visible /\ reject_licenses /\ on_plugin_licenses_rejected(ls)
  <2>1. /\ handled_license_rejection' = TRUE /\ loops' \in Seq(Loops)
        /\ Range(loops') \subseteq Range(ls) \union {"rejection"}
    BY <1>2, <1>6, RejectedEffect
  <2>2. LicenseTypeOK' /\ FileConsented' /\ pending' = Licenses
    BY <1>1, <1>6, RejectConsents
  <2>3. TypeOK'
    BY <1>1, <1>3, <2>1, <2>2 DEF IInv, TypeOK, mutexVars, guiVars, postVars
  <2>4. FatalOnlyAfterFailure' /\ Rested'
    BY <1>1, <1>4 DEF IInv, FatalOnlyAfterFailure, Rested
  <2>5. LoopsLive'  BY <1>1, <1>2, <2>1, UsedAre DEF IInv, LoopsLive, Registered
  <2>6. Disabling' /\ GuiLive' /\ ThreadsLive'
    BY <1>1, <1>6 DEF IInv, Disabling, GuiLive, ThreadsLive, guiVars, postVars
  <2>7. MemoryConsented' /\ RunsWithConsent'
    BY <2>1, <2>2, AllPending DEF RunsWithConsent
  <2> QED BY <2>2, <2>3, <2>4, <2>5, <2>6, <2>7 DEF IInv
<1> QED BY <1>5, <1>6 DEF handle_window_state, ls

\* The licences are accepted in the window.
LEMMA SaveButtonStep == ASSUME IInv, SaveButton PROVE IInv'
<1>1. /\ xpc = "idle" /\ xplane = "enabled" /\ window.visible /\ window' = Hidden
      /\ accept_all_licenses
      /\ loops \in Seq(Loops) /\ TypeOK /\ FileConsented
      /\ UNCHANGED <<xplane, plugin_initialized, auto_start, objects, todo, xpc, mutexVars,
                     handled_license_rejection, postVars, restarts>>
  BY DEF SaveButton, UserMayAct, IInv, TypeOK
<1> DEFINE ls == Without(loops, {"monitor"})
<1>2. ls \in Seq(Loops) /\ Range(ls) \subseteq Registered \ {"monitor"}
  BY <1>1, WithoutLoops
<1>3. on_plugin_licenses_accepted(ls, pending', auto_start)  BY DEF SaveButton
<1> HIDE DEF ls
<1>4. objects = Objects /\ ~handled_license_rejection  BY <1>1 DEF IInv, GuiLive
<1>5. /\ loops' \in Seq(Loops)
      /\ Range(loops') \subseteq Range(ls) \union {"before", "after"}
      /\ fatal_error' \in BOOLEAN /\ failed' \in BOOLEAN
      /\ handled_license_acceptance' \in BOOLEAN /\ menu' \in BOOLEAN
      /\ fatal_error' => fatal_error \/ failed'
      /\ failed => failed'
      /\ managed' \in {"stopped", "wanted", "running"}
  BY <1>1, <1>2, <1>3, <1>4, AcceptedEffect
<1>6. /\ LicenseTypeOK' /\ FileConsented'
      /\ \A l \in Licenses : hashes'[l] \in consent'[l]
  BY <1>1, AcceptConsents DEF TypeOK
<1>7. window' \in Windows /\ ~window'.visible  BY <1>1, WindowsGone DEF TypeOK
<1>8. TypeOK'
  BY <1>1, <1>5, <1>6, <1>7 DEF TypeOK, mutexVars, postVars
<1>9. FatalOnlyAfterFailure' /\ Rested'
  BY <1>1, <1>5 DEF IInv, FatalOnlyAfterFailure, Rested
<1>10. LoopsLive'
  BY <1>1, <1>4, <1>8, UsedAre, RegisteredAre DEF TypeOK, LoopsLive, Registered, Range
<1>11. Disabling' /\ GuiLive' /\ ThreadsLive'
  BY <1>1, <1>4, <1>7, ObjectsAre DEF Disabling, GuiLive, ThreadsLive
<1>12. MemoryConsented' /\ RunsWithConsent'  BY <1>6 DEF MemoryConsented, RunsWithConsent
<1> QED BY <1>6, <1>8, <1>9, <1>10, <1>11, <1>12 DEF IInv

\* The licences are rejected in the window or from the menu.
LEMMA RejectsStep == ASSUME IInv, Rejects PROVE IInv'
<1>1. /\ xpc = "idle" /\ xplane = "enabled" /\ reject_licenses
      /\ loops \in Seq(Loops) /\ TypeOK
      /\ UNCHANGED <<xplane, plugin_initialized, fatal_error, auto_start, objects, todo, xpc, mutexVars,
                     handled_license_acceptance, menu, managed, postVars, failed, restarts>>
  BY DEF Rejects, UserMayAct, IInv, TypeOK
<1>2. PICK ls \in {loops, Without(loops, {"monitor"})} :
        /\ on_plugin_licenses_rejected(ls)
        /\ (window.visible /\ window' = Hidden) \/ (menu /\ window' = window)
  BY DEF Rejects
<1>3. ls \in Seq(Loops) /\ Range(ls) \subseteq Registered
  BY <1>1, <1>2, WithoutLoops DEF Registered
<1>4. window' \in Windows /\ ~window'.visible
  BY <1>1, <1>2, WindowsGone DEF IInv, TypeOK, GuiLive
<1>5. /\ handled_license_rejection' = TRUE /\ loops' \in Seq(Loops)
      /\ Range(loops') \subseteq Range(ls) \union {"rejection"}
  BY <1>2, <1>3, RejectedEffect
<1>6. LicenseTypeOK' /\ FileConsented' /\ pending' = Licenses
  BY <1>1, RejectConsents DEF TypeOK
<1>7. TypeOK'
  BY <1>1, <1>4, <1>5, <1>6 DEF TypeOK, mutexVars, postVars
<1>8. FatalOnlyAfterFailure' /\ Rested'
  BY <1>1 DEF IInv, FatalOnlyAfterFailure, Rested
<1>9. LoopsLive'  BY <1>1, <1>3, <1>5, UsedAre DEF IInv, LoopsLive, Registered
<1>10. Disabling' /\ GuiLive' /\ ThreadsLive'
  BY <1>1, <1>4 DEF IInv, Disabling, GuiLive, ThreadsLive, postVars
<1>11. MemoryConsented' /\ RunsWithConsent'
  BY <1>5, <1>6, AllPending DEF RunsWithConsent
<1> QED BY <1>6, <1>7, <1>8, <1>9, <1>10, <1>11 DEF IInv

\* A new start of the simulator.
LEMMA RestartStep == ASSUME IInv, Restart PROVE IInv'
<1>1. /\ restarts' \in 0..MaxRestarts
      /\ xplane' = "stopped" /\ plugin_initialized' = FALSE /\ fatal_error' = FALSE
      /\ auto_start' = FALSE /\ objects' = {} /\ loops' = <<>> /\ todo' = <<>> /\ xpc' = "idle"
      /\ flight_loop_mutex' = "none" /\ flight_loop_locked_by_xp' = FALSE
      /\ handled_license_acceptance' = FALSE /\ handled_license_rejection' = FALSE
      /\ window' = NoWindow /\ menu' = FALSE /\ managed' = "stopped"
      /\ post' = "none" /\ shutdown_post_processing' = FALSE /\ failed' = FALSE
  BY PluginAssumption DEF Restart, IInv, TypeOK
<1>2. /\ hashes' \in [Licenses -> Versions] /\ pending' = {}
      /\ UNCHANGED <<file, consent, removeFailed>>
  BY DEF Restart, NewBuild
<1>3. window' \in Windows /\ ~window'.visible  BY <1>1, WindowsGone
<1>4. TypeOK'
  BY <1>1, <1>2, <1>3, NothingRegistered DEF IInv, TypeOK, LicenseTypeOK
<1>5. FatalOnlyAfterFailure' /\ Rested'
  BY <1>1 DEF FatalOnlyAfterFailure, Rested, Leftovers
<1>6. LoopsLive' /\ Disabling' /\ GuiLive' /\ ThreadsLive'
  BY <1>1, <1>3, NothingRegistered DEF LoopsLive, Disabling, GuiLive, ThreadsLive, Registered
<1>7. FileConsented' /\ MemoryConsented' /\ RunsWithConsent'
  BY <1>1, <1>2, NothingRegistered DEF IInv, FileConsented, MemoryConsented, RunsWithConsent,
                                       Registered
<1> QED BY <1>4, <1>5, <1>6, <1>7 DEF IInv

-----------------------------------------------------------------------------
(* The theorems. *)

\* The invariant holds in a freshly loaded plugin.
LEMMA InitInvariant == Init => IInv
<1> SUFFICES ASSUME Init PROVE IInv  OBVIOUS
<1> USE DEF Init, Fresh
<1>1. window \in Windows /\ ~window.visible  BY WindowsGone
<1>2. TypeOK
  <2>1. LicenseTypeOK  BY DEF LicenseTypeOK, LicenseInit, NoFile, NoConsent
  <2>2. /\ plugin_initialized \in BOOLEAN /\ fatal_error \in BOOLEAN /\ auto_start \in BOOLEAN
        /\ flight_loop_locked_by_xp \in BOOLEAN /\ menu \in BOOLEAN
        /\ handled_license_acceptance \in BOOLEAN /\ handled_license_rejection \in BOOLEAN
        /\ shutdown_post_processing \in BOOLEAN /\ failed \in BOOLEAN
    OBVIOUS
  <2>3. /\ objects \subseteq Objects /\ loops \in Seq(Loops) /\ todo \in Seq(Loops)
        /\ restarts \in 0..MaxRestarts
    BY NothingRegistered, PluginAssumption
  <2> QED BY <1>1, <2>1, <2>2, <2>3 DEF TypeOK
<1>3. FatalOnlyAfterFailure /\ Rested
  BY DEF FatalOnlyAfterFailure, Rested, Leftovers
<1>4. LoopsLive /\ Disabling /\ GuiLive /\ ThreadsLive
  BY <1>1, NothingRegistered DEF LoopsLive, Disabling, GuiLive, ThreadsLive, Registered
<1>5. FileConsented /\ MemoryConsented /\ RunsWithConsent
  BY NothingRegistered DEF FileConsented, MemoryConsented, RunsWithConsent, Registered, LicenseInit,
                           NoFile
<1> QED BY <1>2, <1>3, <1>4, <1>5 DEF IInv

\* A step that changes nothing keeps the invariant.
LEMMA StutterStep == ASSUME IInv, UNCHANGED vars PROVE IInv'
<1>1. /\ UNCHANGED <<licenseVars, xpVars, mutexVars>>
      /\ UNCHANGED <<handledVars, guiVars, postVars, failed, restarts>>
  BY DEF vars
<1> QED BY <1>1 DEF IInv, TypeOK, LicenseTypeOK, FatalOnlyAfterFailure, Rested, Leftovers, LoopsLive,
                    Disabling, GuiLive, ThreadsLive, FileConsented, MemoryConsented, RunsWithConsent,
                    Registered, licenseVars, xpVars, mutexVars, handledVars, guiVars, postVars

\* Every step keeps the invariant.
LEMMA NextInvariant == ASSUME IInv, [Next]_vars PROVE IInv'
BY StutterStep, XPluginStartStep, XPluginEnableStep, XPluginStopStep, UserDisablesStep,
   FrameBeginsStep, DisableBeginStep, DisableSignalsStep, DisableEndStep, PhaseEndsStep,
   process_flight_loop_before_flight_modelStep, process_flight_loop_after_flight_modelStep,
   handle_window_stateStep, on_plugin_licenses_rejected_flight_loopStep, SaveButtonStep,
   RejectsStep, WindowClosedStep, MenuTogglesStep, PostLocksStep, PostWakesStep,
   PostReacquiresStep, PostRunsStep, PostMaintainsManagerStep, RestartStep
   DEF Next, XPlaneStep, PostThread

\* The inductive invariant holds in every reachable state.
THEOREM PluginInvariant == Spec => []IInv
<1>1. Init => IInv  BY InitInvariant
<1>2. IInv /\ [Next]_vars => IInv'  BY NextInvariant
<1> QED BY <1>1, <1>2, PTL DEF Spec

\* The variables keep their types.
THEOREM PluginTypeCorrect == Spec => []TypeOK
<1>1. IInv => TypeOK  BY DEF IInv
<1> QED BY <1>1, PluginInvariant, PTL

\* What X-Plane's callbacks, the window, the menu and the post-processing
\* thread use exists (XPluginDisable), except the server manager, which the
\* formula leaves out: post-processing may use it after its destruction.
THEOREM CallbacksLive == Spec => []UsesOnlyLiving
<1>1. IInv => UsesOnlyLiving
  BY ObjectsAre DEF IInv, LoopsLive, GuiLive, ThreadsLive, UsesOnlyLiving
<1> QED BY <1>1, PluginInvariant, PTL

\* Flight loop and server run only with the user's consent
\* (on_plugin_licenses_accepted, create_license_manager), unless the file of an
\* earlier consent could not be deleted (license_manager.c:548).
THEOREM ConsentGiven == Spec => []RunsWithConsent
<1>1. IInv => RunsWithConsent  BY DEF IInv
<1> QED BY <1>1, PluginInvariant, PTL

\* A restart is required only after something has failed (fatal_error).
THEOREM FatalAfterFailure == Spec => []FatalOnlyAfterFailure
<1>1. IInv => FatalOnlyAfterFailure  BY DEF IInv
<1> QED BY <1>1, PluginInvariant, PTL

-----------------------------------------------------------------------------
(* The server manager. *)

Inside == {"transition", "config", "starting", "leave"}

\* Post-processing only maintains; the mutex is held exactly inside.
LockInv ==
  /\ pc["post"] \in {"idle", "maintain"} \union Inside
  /\ \A t \in Threads : pc[t] \in Inside <=> mutex = t

\* A start under way: it is wanted, recorded, and there is no server yet.
StartInv ==
  \A t \in Threads :
    pc[t] \in {"config", "starting"} => change_state /\ wanted_state_first /\ ~Running

\* The main thread has set the flag and will record the stop that goes with it.
ShutdownPending == pc["main"] = "update" /\ request = "stop"

\* After a shutdown has been recorded no server is wanted and no start fails.
ShutdownInv ==
  shutdown /\ ~ShutdownPending =>
    ~wanted_state_first /\ ~wanted_state_next /\ ~user_intervention_needed

WantedInv ==
  /\ asked <=> wanted_state_next
  /\ ~change_state /\ ~user_intervention_needed => (Running <=> wanted_state_next)

RestartPending == pc["main"] = "update" /\ request = "restart"

\* A server with outdated settings is about to be stopped.
SettingsInv ==
  /\ saved <= settings
  /\ pc["main"] = "saved" \/ RestartPending => ~shutdown
  /\ (\E t \in Threads : pc[t] = "starting") /\ config < saved => pc["main"] = "saved"
  /\ server = "up" /\ serverCfg < saved =>
       \/ pc["main"] = "saved"
       \/ RestartPending
       \/ pc["main"] \in {"maintain", "transition"} /\ change_state /\ ~wanted_state_first

DestroyInv ==
  /\ destruction_pending => server = "none" /\ mutex = NoThread
  /\ destruction_pending <=> pc["main"] \in {"drain", "free", "gone"}

ManagerInv == ManagerTypeOK /\ LockInv /\ StartInv /\ ShutdownInv /\ WantedInv /\ SettingsInv /\ DestroyInv

\* The invariant holds for a new manager.
LEMMA ManagerInitInv == ASSUME ManagerInit PROVE ManagerInv
<1> USE DEF ManagerInit, Threads, NoThread
<1>1. ManagerTypeOK
  <2>1. requests \in 0 .. MaxRequests
    <3>1. requests = 0 OBVIOUS
    <3> HIDE DEF ManagerInit
    <3> QED BY <3>1, BoundsAssumption
  <2>2. serverCfg \in Nat /\ settings \in Nat /\ config \in Nat /\ saved \in Nat
    OBVIOUS
  <2>3. pc \in [Threads -> Pcs]
    BY DEF Pcs
  <2>4. change_state \in BOOLEAN /\ failing \in BOOLEAN /\ mutex \in Threads \union {NoThread}
    OBVIOUS
  <2> QED BY <2>1, <2>2, <2>3, <2>4 DEF ManagerTypeOK, States
<1>2. LockInv BY DEF LockInv, Inside
<1>3. StartInv BY DEF StartInv
<1>4. ShutdownInv BY DEF ShutdownInv
<1>5. WantedInv BY DEF WantedInv, Running
<1>6. SettingsInv
  <2>1. saved = 0 /\ settings = 0 /\ config = 0 /\ serverCfg = 0
    OBVIOUS
  <2>2. saved <= settings /\ ~(config < saved) /\ ~(serverCfg < saved)
    <3> HIDE DEF ManagerInit
    <3> QED BY <2>1
  <2> QED BY <2>2 DEF SettingsInv, RestartPending
<1>7. DestroyInv BY DEF DestroyInv
<1> QED BY <1>1, <1>2, <1>3, <1>4, <1>5, <1>6, <1>7 DEF ManagerInv

\* The numbers of the model stay in their ranges.
NumbersOK ==
  /\ serverCfg \in Nat /\ settings \in Nat /\ config \in Nat /\ saved \in Nat
  /\ requests \in 0 .. MaxRequests

\* Requests are counted up to their bound.
LEMMA NumbersStep ==
  ASSUME ManagerTypeOK, ManagerNext
  PROVE  NumbersOK'
<1> USE BoundsAssumption DEF ManagerTypeOK, NumbersOK
<1>1. CASE start_managed_server BY <1>1 DEF start_managed_server, Record, Idle
<1>2. CASE shutdown_managed_server BY <1>2 DEF shutdown_managed_server, Idle
<1>3. CASE toggle_server_state BY <1>3 DEF toggle_server_state, Record, Idle
<1>4. CASE apply_settings BY <1>4 DEF apply_settings, Idle
<1>5. CASE SettingsNotStored BY <1>5 DEF SettingsNotStored, Idle
<1>6. CASE RestartAfterSave BY <1>6 DEF RestartAfterSave, restart_managed_server
<1>7. CASE update_wanted_state BY <1>7 DEF update_wanted_state
<1>8. CASE DestroyMark BY <1>8 DEF DestroyMark, Idle, MayDestroy
<1>9. CASE DestroyDrain BY <1>9 DEF DestroyDrain
<1>10. CASE DestroyFree BY <1>10 DEF DestroyFree
<1>11. CASE PostMaintains BY <1>11 DEF PostMaintains
<1>12. ASSUME NEW t \in Threads, Maintain(t) PROVE NumbersOK'
  <2>1. CASE lock_server_manager(t) BY <2>1 DEF lock_server_manager
  <2>2. CASE NoTransition(t) BY <2>2 DEF NoTransition
  <2>3. CASE do_server_stop(t) BY <2>3 DEF do_server_stop
  <2>4. CASE do_server_start(t) BY <2>4 DEF do_server_start
  <2>5. CASE update_server_config(t) BY <2>5 DEF update_server_config
  <2>6. CASE LicensesBlockStart(t) BY <2>6 DEF LicensesBlockStart, Fault
  <2>7. CASE ConfigFails(t) BY <2>7 DEF ConfigFails, Fault
  <2>8. CASE start_server(t) BY <2>8 DEF start_server, Started
  <2>9. CASE StartFails(t) BY <2>9 DEF StartFails, Fault
  <2>10. CASE MaintainLeave(t) BY <2>10 DEF MaintainLeave
  <2> QED BY <1>12, <2>1, <2>2, <2>3, <2>4, <2>5, <2>6, <2>7, <2>8, <2>9, <2>10 DEF Maintain
<1>13. CASE Gone BY <1>13 DEF Gone, managerVars, manager, ending
<1> QED BY <1>1, <1>2, <1>3, <1>4, <1>5, <1>6, <1>7, <1>8, <1>9, <1>10, <1>11, <1>12, <1>13 DEF ManagerNext, MainNext

\* The flags stay Boolean.
FlagsOK ==
  /\ change_state \in BOOLEAN /\ wanted_state_first \in BOOLEAN
  /\ wanted_state_next \in BOOLEAN /\ user_intervention_needed \in BOOLEAN
  /\ shutdown \in BOOLEAN /\ destruction_pending \in BOOLEAN /\ freed \in BOOLEAN
  /\ asked \in BOOLEAN /\ failing \in BOOLEAN

\* No step makes a flag anything but TRUE or FALSE.
LEMMA FlagsStep ==
  ASSUME ManagerTypeOK, ManagerNext
  PROVE  FlagsOK'
<1> USE DEF ManagerTypeOK, FlagsOK, manager, ending
<1>1. CASE start_managed_server BY <1>1 DEF start_managed_server, Record, Idle
<1>2. CASE shutdown_managed_server BY <1>2 DEF shutdown_managed_server, Idle
<1>3. CASE toggle_server_state BY <1>3 DEF toggle_server_state, Record, Idle
<1>4. CASE apply_settings BY <1>4 DEF apply_settings, Idle
<1>5. CASE SettingsNotStored BY <1>5 DEF SettingsNotStored, Idle
<1>6. CASE RestartAfterSave BY <1>6 DEF RestartAfterSave, restart_managed_server
<1>7. CASE update_wanted_state
  <2>1. First(request) \in BOOLEAN /\ Then(request) \in BOOLEAN
    BY DEF First, Then
  <2>2. CASE RefusedAfterShutdown BY <1>7, <2>2 DEF update_wanted_state
  <2>3. CASE ~RefusedAfterShutdown BY <1>7, <2>1, <2>3 DEF update_wanted_state
  <2> QED BY <2>2, <2>3
<1>8. CASE DestroyMark BY <1>8 DEF DestroyMark, Idle, MayDestroy
<1>9. CASE DestroyDrain BY <1>9 DEF DestroyDrain
<1>10. CASE DestroyFree BY <1>10 DEF DestroyFree
<1>11. CASE PostMaintains BY <1>11 DEF PostMaintains
<1>12. ASSUME NEW t \in Threads, Maintain(t) PROVE FlagsOK'
  <2>1. CASE lock_server_manager(t) BY <2>1 DEF lock_server_manager
  <2>2. CASE NoTransition(t) BY <2>2 DEF NoTransition, Forwarded
  <2>3. CASE do_server_stop(t) BY <2>3 DEF do_server_stop, Forwarded, Remaining
  <2>4. CASE do_server_start(t) BY <2>4 DEF do_server_start, Forwarded
  <2>5. CASE update_server_config(t) BY <2>5 DEF update_server_config
  <2>6. CASE LicensesBlockStart(t) BY <2>6 DEF LicensesBlockStart, Fault
  <2>7. CASE ConfigFails(t) BY <2>7 DEF ConfigFails, Fault
  <2>8. CASE start_server(t) BY <2>8 DEF start_server, Started
  <2>9. CASE StartFails(t) BY <2>9 DEF StartFails, Fault
  <2>10. CASE MaintainLeave(t) BY <2>10 DEF MaintainLeave
  <2> QED BY <1>12, <2>1, <2>2, <2>3, <2>4, <2>5, <2>6, <2>7, <2>8, <2>9, <2>10 DEF Maintain
<1>13. CASE Gone BY <1>13 DEF Gone, managerVars, manager, ending
<1> QED BY <1>1, <1>2, <1>3, <1>4, <1>5, <1>6, <1>7, <1>8, <1>9, <1>10, <1>11, <1>12, <1>13 DEF ManagerNext, MainNext

\* The enumerations of the model.
NamesOK ==
  /\ server \in {"none", "up", "broken"}
  /\ mutex \in Threads \union {NoThread}
  /\ told \in States /\ entry \in States
  /\ pc \in [Threads -> Pcs]
  /\ request \in {"start", "stop", "restart"}

\* The state that is reported is one of the named ones.
LEMMA StateIsNamed == get_managed_server_state \in States
BY DEF get_managed_server_state, States

\* Every variable over names keeps to its set.
LEMMA NamesStep ==
  ASSUME ManagerTypeOK, ManagerNext
  PROVE  NamesOK'
<1> USE StateIsNamed DEF ManagerTypeOK, NamesOK, Goto, Threads, Pcs
<1>1. CASE start_managed_server BY <1>1 DEF start_managed_server, Record, Idle
<1>2. CASE shutdown_managed_server BY <1>2 DEF shutdown_managed_server, Idle
<1>3. CASE toggle_server_state BY <1>3 DEF toggle_server_state, Record, Idle
<1>4. CASE apply_settings BY <1>4 DEF apply_settings, Idle
<1>5. CASE SettingsNotStored BY <1>5 DEF SettingsNotStored, Idle
<1>6. CASE RestartAfterSave BY <1>6 DEF RestartAfterSave, restart_managed_server
<1>7. CASE update_wanted_state BY <1>7 DEF update_wanted_state
<1>8. CASE DestroyMark BY <1>8 DEF DestroyMark, Idle, MayDestroy
<1>9. CASE DestroyDrain BY <1>9 DEF DestroyDrain
<1>10. CASE DestroyFree BY <1>10 DEF DestroyFree
<1>11. CASE PostMaintains BY <1>11 DEF PostMaintains
<1>12. ASSUME NEW t \in Threads, Maintain(t) PROVE NamesOK'
  <2>1. CASE lock_server_manager(t) BY <2>1 DEF lock_server_manager
  <2>2. CASE NoTransition(t) BY <2>2 DEF NoTransition
  <2>3. CASE do_server_stop(t) BY <2>3 DEF do_server_stop
  <2>4. CASE do_server_start(t) BY <2>4 DEF do_server_start
  <2>5. CASE update_server_config(t) BY <2>5 DEF update_server_config
  <2>6. CASE LicensesBlockStart(t) BY <2>6 DEF LicensesBlockStart, Fault
  <2>7. CASE ConfigFails(t) BY <2>7 DEF ConfigFails, Fault
  <2>8. CASE start_server(t) BY <2>8 DEF start_server, Started
  <2>9. CASE StartFails(t) BY <2>9 DEF StartFails, Fault
  <2>10. CASE MaintainLeave(t) BY <2>10 DEF MaintainLeave
  <2> QED BY <1>12, <2>1, <2>2, <2>3, <2>4, <2>5, <2>6, <2>7, <2>8, <2>9, <2>10 DEF Maintain
<1>13. CASE Gone BY <1>13 DEF Gone, managerVars, manager, ending
<1> QED BY <1>1, <1>2, <1>3, <1>4, <1>5, <1>6, <1>7, <1>8, <1>9, <1>10, <1>11, <1>12, <1>13 DEF ManagerNext, MainNext

\* Every step keeps the types.
LEMMA TypeStep ==
  ASSUME ManagerTypeOK, ManagerNext
  PROVE  ManagerTypeOK'
<1>1. NumbersOK' BY NumbersStep
<1>2. FlagsOK' BY FlagsStep
<1>3. NamesOK' BY NamesStep
<1> QED BY <1>1, <1>2, <1>3 DEF ManagerTypeOK, NumbersOK, FlagsOK, NamesOK

\* The mutex is taken on the way in and given back on the way out.
LEMMA LockStep ==
  ASSUME ManagerInv, ManagerTypeOK', ManagerNext
  PROVE  LockInv'
<1> USE DEF ManagerInv, ManagerTypeOK, LockInv, DestroyInv, Goto, Threads, Pcs, Inside, NoThread
<1>1. CASE start_managed_server BY <1>1 DEF start_managed_server, Record, Idle
<1>2. CASE shutdown_managed_server BY <1>2 DEF shutdown_managed_server, Idle
<1>3. CASE toggle_server_state BY <1>3 DEF toggle_server_state, Record, Idle
<1>4. CASE apply_settings BY <1>4 DEF apply_settings, Idle
<1>5. CASE SettingsNotStored BY <1>5 DEF SettingsNotStored, Idle
<1>6. CASE RestartAfterSave BY <1>6 DEF RestartAfterSave, restart_managed_server
<1>7. CASE update_wanted_state BY <1>7 DEF update_wanted_state
<1>8. CASE DestroyMark BY <1>8 DEF DestroyMark, Idle, MayDestroy
<1>9. CASE DestroyDrain BY <1>9 DEF DestroyDrain
<1>10. CASE DestroyFree BY <1>10 DEF DestroyFree
<1>11. CASE PostMaintains BY <1>11 DEF PostMaintains
<1>12. ASSUME NEW t \in Threads, Maintain(t) PROVE LockInv'
  <2>1. CASE lock_server_manager(t) BY <2>1 DEF lock_server_manager
  <2>2. CASE NoTransition(t) BY <2>2 DEF NoTransition
  <2>3. CASE do_server_stop(t) BY <2>3 DEF do_server_stop
  <2>4. CASE do_server_start(t) BY <2>4 DEF do_server_start
  <2>5. CASE update_server_config(t) BY <2>5 DEF update_server_config
  <2>6. CASE LicensesBlockStart(t) BY <2>6 DEF LicensesBlockStart, Fault
  <2>7. CASE ConfigFails(t) BY <2>7 DEF ConfigFails, Fault
  <2>8. CASE start_server(t) BY <2>8 DEF start_server, Started
  <2>9. CASE StartFails(t) BY <2>9 DEF StartFails, Fault
  <2>10. CASE MaintainLeave(t) BY <2>10 DEF MaintainLeave
  <2> QED BY <1>12, <2>1, <2>2, <2>3, <2>4, <2>5, <2>6, <2>7, <2>8, <2>9, <2>10 DEF Maintain
<1>13. CASE Gone BY <1>13 DEF Gone, managerVars, manager, ending
<1> QED BY <1>1, <1>2, <1>3, <1>4, <1>5, <1>6, <1>7, <1>8, <1>9, <1>10, <1>11, <1>12, <1>13 DEF ManagerNext, MainNext

\* Only the thread inside can disturb a start.
LEMMA StartStep ==
  ASSUME ManagerInv, ManagerTypeOK', ManagerNext
  PROVE  StartInv'
<1> USE DEF ManagerInv, ManagerTypeOK, LockInv, StartInv, Goto, Threads, Pcs, Inside, NoThread, manager, Running
<1>1. CASE start_managed_server BY <1>1 DEF start_managed_server, Record, Idle
<1>2. CASE shutdown_managed_server BY <1>2 DEF shutdown_managed_server, Idle
<1>3. CASE toggle_server_state BY <1>3 DEF toggle_server_state, Record, Idle
<1>4. CASE apply_settings BY <1>4 DEF apply_settings, Idle
<1>5. CASE SettingsNotStored BY <1>5 DEF SettingsNotStored, Idle
<1>6. CASE RestartAfterSave BY <1>6 DEF RestartAfterSave, restart_managed_server
<1>7. CASE update_wanted_state BY <1>7 DEF update_wanted_state
<1>8. CASE DestroyMark BY <1>8 DEF DestroyMark, Idle, MayDestroy
<1>9. CASE DestroyDrain BY <1>9 DEF DestroyDrain
<1>10. CASE DestroyFree BY <1>10 DEF DestroyFree
<1>11. CASE PostMaintains BY <1>11 DEF PostMaintains
<1>12. ASSUME NEW t \in Threads, Maintain(t) PROVE StartInv'
  <2>1. CASE lock_server_manager(t) BY <2>1 DEF lock_server_manager
  <2>2. CASE NoTransition(t) BY <2>2 DEF NoTransition
  <2>3. CASE do_server_stop(t) BY <2>3 DEF do_server_stop
  <2>4. CASE do_server_start(t) BY <2>4 DEF do_server_start, Transitions, Forwarded
  <2>5. CASE update_server_config(t) BY <2>5 DEF update_server_config
  <2>6. CASE LicensesBlockStart(t) BY <2>6 DEF LicensesBlockStart, Fault
  <2>7. CASE ConfigFails(t) BY <2>7 DEF ConfigFails, Fault
  <2>8. CASE start_server(t) BY <2>8 DEF start_server, Started
  <2>9. CASE StartFails(t) BY <2>9 DEF StartFails, Fault
  <2>10. CASE MaintainLeave(t) BY <2>10 DEF MaintainLeave
  <2> QED BY <1>12, <2>1, <2>2, <2>3, <2>4, <2>5, <2>6, <2>7, <2>8, <2>9, <2>10 DEF Maintain
<1>13. CASE Gone BY <1>13 DEF Gone, managerVars, manager, ending
<1> QED BY <1>1, <1>2, <1>3, <1>4, <1>5, <1>6, <1>7, <1>8, <1>9, <1>10, <1>11, <1>12, <1>13 DEF ManagerNext, MainNext

\* A shutdown, once recorded, stays the last word.
LEMMA ShutdownStep ==
  ASSUME ManagerInv, ManagerTypeOK', ManagerNext
  PROVE  ShutdownInv'
<1> USE DEF ManagerInv, ManagerTypeOK, StartInv, ShutdownInv, ShutdownPending, SettingsInv, RestartPending, Goto, Threads, Pcs, manager, ending
<1>1. CASE start_managed_server BY <1>1 DEF start_managed_server, Record, Idle
<1>2. CASE shutdown_managed_server BY <1>2 DEF shutdown_managed_server, Idle
<1>3. CASE toggle_server_state BY <1>3 DEF toggle_server_state, Record, Idle
<1>4. CASE apply_settings BY <1>4 DEF apply_settings, Idle
<1>5. CASE SettingsNotStored BY <1>5 DEF SettingsNotStored, Idle
<1>6. CASE RestartAfterSave BY <1>6 DEF RestartAfterSave, restart_managed_server
<1>7. CASE update_wanted_state BY <1>7 DEF update_wanted_state, RefusedAfterShutdown, First, Then
<1>8. CASE DestroyMark BY <1>8 DEF DestroyMark, Idle, MayDestroy
<1>9. CASE DestroyDrain BY <1>9 DEF DestroyDrain
<1>10. CASE DestroyFree BY <1>10 DEF DestroyFree
<1>11. CASE PostMaintains BY <1>11 DEF PostMaintains
<1>12. ASSUME NEW t \in Threads, Maintain(t) PROVE ShutdownInv'
  <2>1. CASE lock_server_manager(t) BY <2>1 DEF lock_server_manager
  <2>2. CASE NoTransition(t) BY <2>2 DEF NoTransition, Forwarded
  <2>3. CASE do_server_stop(t) BY <2>3 DEF do_server_stop, Forwarded
  <2>4. CASE do_server_start(t) BY <2>4 DEF do_server_start, Forwarded
  <2>5. CASE update_server_config(t) BY <2>5 DEF update_server_config
  <2>6. CASE LicensesBlockStart(t) BY <2>6 DEF LicensesBlockStart, Fault
  <2>7. CASE ConfigFails(t) BY <2>7 DEF ConfigFails, Fault
  <2>8. CASE start_server(t) BY <2>8 DEF start_server, Started
  <2>9. CASE StartFails(t) BY <2>9 DEF StartFails, Fault
  <2>10. CASE MaintainLeave(t) BY <2>10 DEF MaintainLeave
  <2> QED BY <1>12, <2>1, <2>2, <2>3, <2>4, <2>5, <2>6, <2>7, <2>8, <2>9, <2>10 DEF Maintain
<1>13. CASE Gone BY <1>13 DEF Gone, managerVars, manager, ending
<1> QED BY <1>1, <1>2, <1>3, <1>4, <1>5, <1>6, <1>7, <1>8, <1>9, <1>10, <1>11, <1>12, <1>13 DEF ManagerNext, MainNext

\* A change is complete only in the wanted state.
LEMMA WantedStep ==
  ASSUME ManagerInv, ManagerTypeOK', ManagerNext
  PROVE  WantedInv'
<1> USE DEF ManagerInv, ManagerTypeOK, StartInv, WantedInv, Goto, Threads, Pcs, manager, ending, Running
<1>1. CASE start_managed_server BY <1>1 DEF start_managed_server, Record, Idle
<1>2. CASE shutdown_managed_server BY <1>2 DEF shutdown_managed_server, Idle
<1>3. CASE toggle_server_state BY <1>3 DEF toggle_server_state, Record, Idle
<1>4. CASE apply_settings BY <1>4 DEF apply_settings, Idle
<1>5. CASE SettingsNotStored BY <1>5 DEF SettingsNotStored, Idle
<1>6. CASE RestartAfterSave BY <1>6 DEF RestartAfterSave, restart_managed_server
<1>7. CASE update_wanted_state
  BY <1>7 DEF update_wanted_state, RefusedAfterShutdown, First, Then, ShutdownInv, ShutdownPending
<1>8. CASE DestroyMark BY <1>8 DEF DestroyMark, Idle, MayDestroy
<1>9. CASE DestroyDrain BY <1>9 DEF DestroyDrain
<1>10. CASE DestroyFree BY <1>10 DEF DestroyFree
<1>11. CASE PostMaintains BY <1>11 DEF PostMaintains
<1>12. ASSUME NEW t \in Threads, Maintain(t) PROVE WantedInv'
  <2>1. CASE lock_server_manager(t) BY <2>1 DEF lock_server_manager
  <2>2. CASE NoTransition(t) BY <2>2 DEF NoTransition, Forwarded
  <2>3. CASE do_server_stop(t) BY <2>3 DEF do_server_stop, Forwarded, Remaining, Transitions
  <2>4. CASE do_server_start(t) BY <2>4 DEF do_server_start, Forwarded
  <2>5. CASE update_server_config(t) BY <2>5 DEF update_server_config
  <2>6. CASE LicensesBlockStart(t) BY <2>6 DEF LicensesBlockStart, Fault
  <2>7. CASE ConfigFails(t) BY <2>7 DEF ConfigFails, Fault
  <2>8. CASE start_server(t) BY <2>8 DEF start_server, Started
  <2>9. CASE StartFails(t) BY <2>9 DEF StartFails, Fault
  <2>10. CASE MaintainLeave(t) BY <2>10 DEF MaintainLeave
  <2> QED BY <1>12, <2>1, <2>2, <2>3, <2>4, <2>5, <2>6, <2>7, <2>8, <2>9, <2>10 DEF Maintain
<1>13. CASE Gone BY <1>13 DEF Gone, managerVars, manager, ending
<1> QED BY <1>1, <1>2, <1>3, <1>4, <1>5, <1>6, <1>7, <1>8, <1>9, <1>10, <1>11, <1>12, <1>13 DEF ManagerNext, MainNext

\* Nobody gets in once the destruction is marked.
LEMMA DestroyStep ==
  ASSUME ManagerInv, ManagerTypeOK', ManagerNext
  PROVE  DestroyInv'
<1> USE DEF ManagerInv, ManagerTypeOK, LockInv, DestroyInv, Goto, Threads, Pcs, Inside, NoThread, ending
<1>1. CASE start_managed_server BY <1>1 DEF start_managed_server, Record, Idle
<1>2. CASE shutdown_managed_server BY <1>2 DEF shutdown_managed_server, Idle
<1>3. CASE toggle_server_state BY <1>3 DEF toggle_server_state, Record, Idle
<1>4. CASE apply_settings BY <1>4 DEF apply_settings, Idle
<1>5. CASE SettingsNotStored BY <1>5 DEF SettingsNotStored, Idle
<1>6. CASE RestartAfterSave BY <1>6 DEF RestartAfterSave, restart_managed_server
<1>7. CASE update_wanted_state BY <1>7 DEF update_wanted_state
<1>8. CASE DestroyMark BY <1>8 DEF DestroyMark, Idle, MayDestroy, Running
<1>9. CASE DestroyDrain BY <1>9 DEF DestroyDrain
<1>10. CASE DestroyFree BY <1>10 DEF DestroyFree
<1>11. CASE PostMaintains BY <1>11 DEF PostMaintains
<1>12. ASSUME NEW t \in Threads, Maintain(t) PROVE DestroyInv'
  <2>1. CASE lock_server_manager(t) BY <2>1 DEF lock_server_manager
  <2>2. CASE NoTransition(t) BY <2>2 DEF NoTransition
  <2>3. CASE do_server_stop(t) BY <2>3 DEF do_server_stop
  <2>4. CASE do_server_start(t) BY <2>4 DEF do_server_start
  <2>5. CASE update_server_config(t) BY <2>5 DEF update_server_config
  <2>6. CASE LicensesBlockStart(t) BY <2>6 DEF LicensesBlockStart, Fault
  <2>7. CASE ConfigFails(t) BY <2>7 DEF ConfigFails, Fault
  <2>8. CASE start_server(t) BY <2>8 DEF start_server, Started
  <2>9. CASE StartFails(t) BY <2>9 DEF StartFails, Fault
  <2>10. CASE MaintainLeave(t) BY <2>10 DEF MaintainLeave
  <2> QED BY <1>12, <2>1, <2>2, <2>3, <2>4, <2>5, <2>6, <2>7, <2>8, <2>9, <2>10 DEF Maintain
<1>13. CASE Gone BY <1>13 DEF Gone, managerVars, manager, ending
<1> QED BY <1>1, <1>2, <1>3, <1>4, <1>5, <1>6, <1>7, <1>8, <1>9, <1>10, <1>11, <1>12, <1>13 DEF ManagerNext, MainNext

\* Outdated settings are always followed by a stop.
LEMMA SettingsStep ==
  ASSUME ManagerInv, ManagerTypeOK', ManagerNext
  PROVE  SettingsInv'
<1> USE DEF ManagerInv, ManagerTypeOK, LockInv, StartInv, SettingsInv, DestroyInv, RestartPending, Goto, Threads, Pcs, Inside, NoThread, manager, ending
<1>1. CASE start_managed_server BY <1>1 DEF start_managed_server, Record, Idle
<1>2. CASE shutdown_managed_server BY <1>2 DEF shutdown_managed_server, Idle
<1>3. CASE toggle_server_state BY <1>3 DEF toggle_server_state, Record, Idle
<1>4. CASE apply_settings
  <2>1. saved' <= settings'
    <3>1. saved' = settings + 1 /\ settings' = settings + 1 /\ settings \in Nat
      BY <1>4 DEF apply_settings
    <3> HIDE DEF ManagerInv, ManagerTypeOK
    <3> QED BY <3>1
  <2>2. pc["main"]' = "saved" /\ ~shutdown'
    BY <1>4 DEF apply_settings, Idle
  <2> QED BY <2>1, <2>2
<1>5. CASE SettingsNotStored
  <2>1. saved' <= settings'
    <3>1. saved' = saved /\ settings' = settings + 1 /\ settings \in Nat /\ saved \in Nat
          /\ saved <= settings
      BY <1>5 DEF SettingsNotStored
    <3> HIDE DEF ManagerInv, ManagerTypeOK
    <3> QED BY <3>1
  <2>2. UNCHANGED <<server, serverCfg, manager, ending, pc, request, config, saved>>
        /\ pc["main"] = "idle"
    BY <1>5 DEF SettingsNotStored, Idle
  <2> QED BY <2>1, <2>2
<1>6. CASE RestartAfterSave
  BY <1>6 DEF RestartAfterSave, restart_managed_server, NeedsRestart, is_running_server_state, get_managed_server_state, Running
<1>7. CASE update_wanted_state BY <1>7 DEF update_wanted_state, RefusedAfterShutdown, First, Then
<1>8. CASE DestroyMark BY <1>8 DEF DestroyMark, Idle, MayDestroy
<1>9. CASE DestroyDrain BY <1>9 DEF DestroyDrain
<1>10. CASE DestroyFree BY <1>10 DEF DestroyFree
<1>11. CASE PostMaintains BY <1>11 DEF PostMaintains
<1>12. ASSUME NEW t \in Threads, Maintain(t) PROVE SettingsInv'
  <2>1. CASE lock_server_manager(t) BY <2>1 DEF lock_server_manager
  <2>2. CASE NoTransition(t) BY <2>2 DEF NoTransition, Forwarded, Running
  <2>3. CASE do_server_stop(t) BY <2>3 DEF do_server_stop, Forwarded
  <2>4. CASE do_server_start(t) BY <2>4 DEF do_server_start, Transitions, Forwarded, Running
  <2>5. CASE update_server_config(t)
    <3>1. ~(config' < saved') /\ saved' <= settings'
      <4>1. saved' = saved /\ settings' = settings /\ config' = settings /\ settings \in Nat
            /\ saved \in Nat /\ saved <= settings
        BY <2>5 DEF update_server_config
      <4> HIDE DEF ManagerInv, ManagerTypeOK
      <4> QED BY <4>1
    <3>2. UNCHANGED <<server, serverCfg, change_state, wanted_state_first, ending, request, saved>>
      BY <2>5 DEF update_server_config
    <3>3. \/ pc["main"]' = pc["main"]
          \/ pc["main"]' = "starting" /\ pc["main"] = "config"
      <4>1. pc \in [Threads -> Pcs] /\ pc' = [pc EXCEPT ![t] = "starting"] /\ pc[t] = "config"
        BY <2>5 DEF update_server_config
      <4>2. CASE t = "main" BY <4>1, <4>2
      <4>3. CASE t = "post" BY <4>1, <4>3
      <4> QED BY <4>2, <4>3
    <3>4. server = "none" \/ server # "up"
      BY <2>5 DEF update_server_config, Running
    <3> QED BY <3>1, <3>2, <3>3, <3>4
  <2>6. CASE LicensesBlockStart(t) BY <2>6 DEF LicensesBlockStart, Fault
  <2>7. CASE ConfigFails(t) BY <2>7 DEF ConfigFails, Fault
  <2>8. CASE start_server(t) BY <2>8 DEF start_server, Started, Running
  <2>9. CASE StartFails(t) BY <2>9 DEF StartFails, Fault
  <2>10. CASE MaintainLeave(t) BY <2>10 DEF MaintainLeave
  <2> QED BY <1>12, <2>1, <2>2, <2>3, <2>4, <2>5, <2>6, <2>7, <2>8, <2>9, <2>10 DEF Maintain
<1>13. CASE Gone BY <1>13 DEF Gone, managerVars, manager, ending
<1> QED BY <1>1, <1>2, <1>3, <1>4, <1>5, <1>6, <1>7, <1>8, <1>9, <1>10, <1>11, <1>12, <1>13 DEF ManagerNext, MainNext

\* Every step keeps the invariant.
LEMMA ManagerNextInv ==
  ASSUME ManagerInv, [ManagerNext]_managerVars
  PROVE  ManagerInv'
<1>1. CASE ManagerNext
  <2>1. ManagerTypeOK'
    BY <1>1, TypeStep DEF ManagerInv
  <2> QED
    BY <1>1, <2>1, LockStep, StartStep, ShutdownStep, WantedStep, SettingsStep, DestroyStep DEF ManagerInv
<1>2. CASE UNCHANGED managerVars
  BY <1>2 DEF managerVars, manager, ending, ManagerInv, ManagerTypeOK, LockInv, StartInv, ShutdownInv, WantedInv,
     SettingsInv, DestroyInv, ShutdownPending, RestartPending, Running
<1> QED BY <1>1, <1>2

\* The inductive invariant of the server manager holds in every reachable
\* state, for every bound on requests and saved settings.
THEOREM ManagerInvariance == ManagerSpec => []ManagerInv
<1>1. ManagerInit => ManagerInv
  BY ManagerInitInv
<1>2. ManagerInv /\ [ManagerNext]_managerVars => ManagerInv'
  BY ManagerNextInv
<1> QED BY <1>1, <1>2, PTL DEF ManagerSpec

\* Every variable of the manager keeps to its type.
THEOREM ManagerTypeCorrect == ManagerSpec => []ManagerTypeOK
<1>1. ManagerInv => ManagerTypeOK
  BY DEF ManagerInv
<1> QED BY <1>1, ManagerInvariance, PTL

\* A manager without a pending change that has not given up has the server
\* in the state asked for last (maintain_server_manager).
THEOREM SettlesAsWanted == ManagerSpec => []SettledAsWanted
<1>1. ManagerInv => SettledAsWanted
  BY DEF ManagerInv, WantedInv, SettledAsWanted
<1> QED BY <1>1, ManagerInvariance, PTL

\* A server that runs undisturbed uses the settings saved last.
THEOREM SettingsEffective == ManagerSpec => []SettingsTakeEffect
<1>1. ManagerInv => SettingsTakeEffect
  <2>1. ASSUME ManagerInv PROVE serverCfg < saved \/ serverCfg >= saved
    BY <2>1 DEF ManagerInv, ManagerTypeOK
  <2> QED BY <2>1 DEF ManagerInv, SettingsInv, RestartPending, SettingsTakeEffect
<1> QED BY <1>1, ManagerInvariance, PTL

\* The manager is only destroyed without a server, and gets none meanwhile.
THEOREM DestroyedClean == ManagerSpec => []DestroyedWithoutServer
<1>1. ManagerInv => DestroyedWithoutServer
  BY DEF ManagerInv, DestroyInv, DestroyedWithoutServer, Running
<1> QED BY <1>1, ManagerInvariance, PTL
=============================================================================
