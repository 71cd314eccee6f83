-------------------------- MODULE UsageAndExportProofs --------------------------
(***************************************************************************)
(* Two components whose proofs rest on the same induction.                 *)
(*                                                                         *)
(* What an organization uses, for any plan and any number of calls: it is  *)
(* within the limits as long as each key has one holder, because room for  *)
(* what that holder adds has been left since its check.  Files agree with  *)
(* objects, and counted mail with what was sent.                           *)
(*                                                                         *)
(* One export, for any list of targets and any number of replays: what is  *)
(* recorded as delivered was delivered, and at rest each connection has    *)
(* the outcome of its last delivery.                                       *)
(***************************************************************************)
EXTENDS PlanUsage, ExportJob, FiniteSetTheorems, WellFoundedInduction, TLAPS

----------------------------------------------------------------------------
(* The sum of sizes, which the plan's storage limit is measured by *)

\* Induction over the subsets of a finite set, K being those that have the property.
LEMMA SubsetInduction ==
    ASSUME NEW S, IsFiniteSet(S), NEW K,
           \A s \in SUBSET S : (\A t \in SUBSET s : t # s => t \in K) => s \in K
    PROVE  SUBSET S \subseteq K
<1> DEFINE bad == {s \in SUBSET S : s \notin K}
<1> SUFFICES ASSUME bad # {} PROVE FALSE
  OBVIOUS
<1>1. IsWellFoundedOn(StrictSubsetOrdering(S), SUBSET S)
  <2>1. FiniteSubsetsOf(S) = SUBSET S
    BY FS_FiniteSubsetsOfFinite
  <2>2. IsWellFoundedOn(StrictSubsetOrdering(S), FiniteSubsetsOf(S))
    BY FS_StrictSubsetOrderingWellFounded
  <2> QED
    BY <2>1, <2>2
<1>2. bad \subseteq SUBSET S
  OBVIOUS
<1>3. \E s \in bad : \A t \in bad : <<t, s>> \notin StrictSubsetOrdering(S)
  <2> HIDE DEF bad
  <2> QED
    BY <1>1, <1>2, WFMin
<1>4. PICK s \in bad : \A t \in bad : <<t, s>> \notin StrictSubsetOrdering(S)
  BY <1>3
<1>5. ASSUME NEW t \in SUBSET s, t # s PROVE t \in K
  <2>1. <<t, s>> \in StrictSubsetOrdering(S)
    BY <1>5 DEF StrictSubsetOrdering
  <2> QED
    BY <1>4, <2>1
<1> QED
  BY <1>5

LEMMA CountingInduction ==
    ASSUME NEW K, 0 \in K, \A n \in Nat : n \in K => n + 1 \in K
    PROVE  Nat \subseteq K
<1> DEFINE bad == {n \in Nat : n \notin K}
<1> SUFFICES ASSUME bad # {} PROVE FALSE
  OBVIOUS
<1>1. \E n \in bad : \A m \in bad : <<m, n>> \notin OpToRel(<, Nat)
  <2>1. bad \subseteq Nat
    OBVIOUS
  <2> HIDE DEF bad
  <2> QED
    BY <2>1, NatLessThanWellFounded, WFMin
<1>2. \A m, n \in Nat : <<m, n>> \in OpToRel(<, Nat) <=> m < n
  BY DEF OpToRel
<1>3. PICK n \in bad : \A m \in bad : <<m, n>> \notin OpToRel(<, Nat)
  BY <1>1
<1>4. \A m \in bad : ~(m < n)
  BY <1>2, <1>3
<1>5. n # 0 /\ n - 1 \in Nat /\ n - 1 < n /\ (n - 1) + 1 = n
  OBVIOUS
<1> QED
  BY <1>4, <1>5

Pick(s) == CHOOSE x \in s : TRUE

\* One step of MapThenSumSet; the sums of the subsets of S by these steps.
SumStep(f, s) == IF s = {} THEN 0 ELSE Pick(s).file.size + f[s \ {Pick(s)}]
Sums(S) == CHOOSE f : f = [s \in SUBSET S |-> SumStep(f, s)]

\* Everything in S has a size.
Sized(S) == IsFiniteSet(S) /\ \A x \in S : x.file.size \in Nat

TotalSize(S) == MapThenSumSet(LAMBDA r : r.file.size, S)

LEMMA TotalIsSum == ASSUME NEW S PROVE TotalSize(S) = Sums(S)[S]
BY DEF TotalSize, Sums, SumStep, Pick, MapThenSumSet, MapThenFoldSet

\* The recursion has a solution: one step more for every number of elements.
LEMMA SumsExist ==
    ASSUME NEW S, Sized(S)
    PROVE  \E f : f = [s \in SUBSET S |-> SumStep(f, s)]
<1> DEFINE Upto(n, f) == \A s \in SUBSET S : Cardinality(s) <= n => f[s] = SumStep(f, s)
           Solved == {n \in Nat : \E f \in [SUBSET S -> Nat] : Upto(n, f)}
<1>0. \A s \in SUBSET S : IsFiniteSet(s) /\ Cardinality(s) \in Nat
  BY FS_Subset, FS_CardinalityType DEF Sized
<1>1. 0 \in Solved
  <2> DEFINE f == [s \in SUBSET S |-> 0]
  <2>1. Upto(0, f)
    <3> SUFFICES ASSUME NEW s \in SUBSET S, Cardinality(s) <= 0 PROVE f[s] = SumStep(f, s)
      OBVIOUS
    <3>1. s = {}
      BY <1>0, FS_EmptySet
    <3> QED
      BY <3>1 DEF SumStep
  <2>2. f \in [SUBSET S -> Nat]
    OBVIOUS
  <2> QED
    BY <2>1, <2>2
<1>2. ASSUME NEW n \in Nat, n \in Solved PROVE n + 1 \in Solved
  <2>1. PICK f \in [SUBSET S -> Nat] : Upto(n, f)
    BY <1>2
  <2> DEFINE g == [s \in SUBSET S |-> IF Cardinality(s) <= n THEN f[s] ELSE SumStep(f, s)]
  <2>2. \A s \in SUBSET S : s # {} =>
           /\ Pick(s) \in s /\ Pick(s).file.size \in Nat
           /\ s \ {Pick(s)} \in SUBSET S
           /\ Cardinality(s \ {Pick(s)}) = Cardinality(s) - 1
    BY <1>0, FS_RemoveElement DEF Sized, Pick
  <2>3. ASSUME NEW s \in SUBSET S PROVE SumStep(f, s) \in Nat
    <3>1. CASE s = {}
      BY <3>1 DEF SumStep
    <3>2. CASE s # {}
      <4>1. Pick(s).file.size \in Nat /\ f[s \ {Pick(s)}] \in Nat
        BY <2>2, <3>2
      <4> QED
        BY <3>2, <4>1 DEF SumStep
    <3> QED
      BY <3>1, <3>2
  <2>4. g \in [SUBSET S -> Nat]
    BY <2>3
  <2>5. Upto(n + 1, g)
    <3> SUFFICES ASSUME NEW s \in SUBSET S, Cardinality(s) <= n + 1 PROVE g[s] = SumStep(g, s)
      OBVIOUS
    <3>1. CASE s = {}
      <4>1. Cardinality(s) <= n
        BY <3>1, FS_EmptySet
      <4> QED
        BY <2>1, <3>1, <4>1 DEF SumStep
    <3>2. CASE s # {}
      <4>1. Cardinality(s \ {Pick(s)}) <= n
        BY <1>0, <2>2, <3>2
      <4>2. g[s \ {Pick(s)}] = f[s \ {Pick(s)}]
        BY <2>2, <3>2, <4>1
      <4>3. SumStep(g, s) = SumStep(f, s)
        BY <3>2, <4>2 DEF SumStep
      <4>4. g[s] = SumStep(f, s)
        BY <2>1
      <4> QED
        BY <4>3, <4>4
    <3> QED
      BY <3>1, <3>2
  <2> HIDE DEF g
  <2> QED
    BY <2>4, <2>5
<1>3. Cardinality(S) \in Solved
  <2> HIDE DEF Solved
  <2> QED
    BY <1>0, <1>1, <1>2, CountingInduction
<1>4. PICK f \in [SUBSET S -> Nat] : Upto(Cardinality(S), f)
  BY <1>3
<1>5. \A s \in SUBSET S : f[s] = SumStep(f, s)
  BY <1>0, <1>4, FS_Subset DEF Sized
<1> QED
  BY <1>5

LEMMA SumsRecursion ==
    ASSUME NEW S, Sized(S), NEW s \in SUBSET S
    PROVE  Sums(S)[s] = SumStep(Sums(S), s)
<1>1. Sums(S) = [t \in SUBSET S |-> SumStep(Sums(S), t)]
  BY SumsExist DEF Sums
<1> QED
  BY <1>1

\* The order in which the elements are taken does not matter.
LEMMA AnyOrder ==
    ASSUME NEW S, Sized(S), NEW s \in SUBSET S
    PROVE  /\ Sums(S)[s] \in Nat
           /\ \A x \in s : Sums(S)[s] = x.file.size + Sums(S)[s \ {x}]
<1> DEFINE f == Sums(S)
           K == {t \in SUBSET S : f[t] \in Nat /\ \A x \in t : f[t] = x.file.size + f[t \ {x}]}
<1>1. \A t \in SUBSET S : f[t] = SumStep(f, t)
  BY SumsRecursion
<1> HIDE DEF f
<1>2. ASSUME NEW t \in SUBSET S, \A u \in SUBSET t : u # t => u \in K PROVE t \in K
  <2>1. CASE t = {}
    <3>1. f[t] = 0
      BY <1>1, <2>1 DEF SumStep
    <3> QED
      BY <2>1, <3>1
  <2>2. CASE t # {}
    <3> DEFINE p == Pick(t)
    <3>1. p \in t /\ p.file.size \in Nat /\ t \ {p} # t
      BY <2>2 DEF Pick, Sized
    <3>2. f[t] = p.file.size + f[t \ {p}]
      BY <1>1, <2>2 DEF SumStep
    <3> HIDE DEF p
    <3>3. t \ {p} \in K
      BY <1>2, <3>1
    <3>4. f[t] \in Nat
      BY <3>1, <3>2, <3>3
    <3>5. ASSUME NEW x \in t PROVE f[t] = x.file.size + f[t \ {x}]
      <4>1. CASE x = p
        BY <3>2, <4>1
      <4>2. CASE x # p
        <5>1. f[t \ {p}] = x.file.size + f[(t \ {p}) \ {x}]
          BY <3>3, <4>2
        <5>2. t \ {x} \in K
          BY <1>2
        <5>3. f[t \ {x}] = p.file.size + f[(t \ {x}) \ {p}]
          BY <3>1, <4>2, <5>2
        <5>4. (t \ {x}) \ {p} = (t \ {p}) \ {x}
          OBVIOUS
        <5>5. f[(t \ {p}) \ {x}] \in Nat
          <6>1. (t \ {p}) \ {x} \in K
            BY <1>2, <3>1
          <6> QED
            BY <6>1
        <5>6. x.file.size \in Nat
          BY DEF Sized
        <5>7. f[t \ {x}] = p.file.size + f[(t \ {p}) \ {x}]
          BY <5>3, <5>4
        <5>8. f[t] = p.file.size + (x.file.size + f[(t \ {p}) \ {x}])
          BY <3>2, <5>1
        <5> HIDE DEF K
        <5> QED
          BY <3>1, <5>5, <5>6, <5>7, <5>8
      <4> QED
        BY <4>1, <4>2
    <3> QED
      BY <3>4, <3>5
  <2> QED
    BY <2>1, <2>2
<1>3. s \in K
  <2> HIDE DEF K
  <2> QED
    BY <1>2, SubsetInduction DEF Sized
<1> QED
  BY <1>3 DEF f

\* The sum of a set does not depend on the set that it is part of.
LEMMA SumsAgree ==
    ASSUME NEW S, Sized(S), NEW T \in SUBSET S
    PROVE  Sums(S)[T] = Sums(T)[T]
<1> DEFINE f == Sums(S)
           g == Sums(T)
           K == {s \in SUBSET T : f[s] = g[s]}
<1>1. Sized(T)
  BY FS_Subset DEF Sized
<1>2. \A s \in SUBSET T : f[s] = SumStep(f, s) /\ g[s] = SumStep(g, s)
  BY <1>1, SumsRecursion
<1> HIDE DEF f, g
<1>3. ASSUME NEW s \in SUBSET T, \A t \in SUBSET s : t # s => t \in K PROVE s \in K
  <2>1. CASE s = {}
    BY <1>2, <2>1 DEF SumStep
  <2>2. CASE s # {}
    <3>1. s \ {Pick(s)} \in SUBSET s /\ s \ {Pick(s)} # s
      BY <2>2 DEF Pick
    <3>2. f[s \ {Pick(s)}] = g[s \ {Pick(s)}]
      BY <1>3, <3>1
    <3> QED
      BY <1>2, <2>2, <3>2 DEF SumStep
  <2> QED
    BY <2>1, <2>2
<1>4. T \in K
  <2> HIDE DEF K
  <2> QED
    BY <1>1, <1>3, SubsetInduction DEF Sized
<1> QED
  BY <1>4 DEF f, g

\* What a file adds to the sum is its size, once.
LEMMA SizeAdded ==
    ASSUME NEW S, Sized(S), NEW x, x.file.size \in Nat
    PROVE  /\ Sized(S \cup {x})
           /\ TotalSize(S) \in Nat
           /\ TotalSize(S \cup {x}) \in Nat
           /\ TotalSize(S \cup {x}) <= TotalSize(S) + x.file.size
<1> DEFINE T == S \cup {x}
<1>1. Sized(T)
  BY FS_AddElement DEF Sized
<1>2. TotalSize(S) \in Nat
  BY TotalIsSum, AnyOrder
<1>3. CASE x \in S
  <2>1. T = S
    BY <1>3
  <2>2. TotalSize(T) = TotalSize(S)
    BY <2>1
  <2> HIDE DEF T
  <2> QED
    BY <1>1, <1>2, <2>2 DEF T
<1>4. CASE x \notin S
  <2> HIDE DEF T
  <2>1. TotalSize(T) = x.file.size + Sums(T)[T \ {x}]
    <3>1. x \in T /\ T \in SUBSET T
      BY DEF T
    <3>2. Sums(T)[T] = x.file.size + Sums(T)[T \ {x}]
      BY <1>1, <3>1, AnyOrder
    <3> QED
      BY <3>2, TotalIsSum
  <2>2. T \ {x} = S /\ S \in SUBSET T
    BY <1>4 DEF T
  <2>3. Sums(T)[S] = TotalSize(S)
    BY <1>1, <2>2, SumsAgree, TotalIsSum
  <2>4. TotalSize(T) = x.file.size + TotalSize(S)
    BY <2>1, <2>2, <2>3
  <2> QED
    BY <1>1, <1>2, <2>4 DEF T
<1> QED
  BY <1>3, <1>4

----------------------------------------------------------------------------
(* The inductive invariant *)

CallRecord ==
    [op : {"none", "create", "status", "upload", "remind"},
     pc : {"idle", "insert", "writeStatus", "put", "cleanup", "announce", "readRequest",
           "readConfig", "send", "audit", "done"},
     file : File \cup {None}, request : Request \cup {None}, channel : Channel \cup {None},
     holds : Key \cup {None}, live : BOOLEAN]

MailEvent == [call : Call, channel : Channel, month : 0 .. month]

TypeInv ==
    /\ call \in [Call -> CallRecord]
    /\ fileRow \subseteq [key : Call, file : File] /\ IsFiniteSet(fileRow)
    /\ mailed \subseteq MailEvent /\ IsFiniteSet(mailed)
    /\ request \in [Request -> {"none", "active", "closed"}]
    /\ month \in 0 .. LastMonth

\* The key that a call holds where it is, and what it is about to add to it.
Held(r) ==
    CASE r.op = "create" /\ r.pc = "insert" -> "activeRequests"
      [] r.op = "upload" /\ r.pc \in {"put", "insert", "cleanup"} -> "storageBytes"
      [] r.op = "remind" /\ r.pc \in {"readRequest", "readConfig", "send", "audit"}
            -> KeyOf(r.channel)
      [] OTHER -> None

Increment(r) ==
    CASE r.op = "upload" /\ r.pc \in {"put", "insert"} -> r.file.size
      [] r.op = "upload" /\ r.pc = "cleanup" -> 0
      [] OTHER -> 1

HoldsInv ==
    \A c \in Call :
        /\ call[c].holds = Held(call[c])
        /\ call[c].op = "upload" => call[c].file \in File
        /\ call[c].op = "create" => call[c].request \in Request
        /\ call[c].op = "remind" => call[c].channel \in Channel

\* Room is left for what the only holder of a key is about to add.
RoomFor(key) ==
    /\ Usage(key) <= Limit[key]
    /\ \A c \in Holders(key) : /\ Usage(key) + Increment(call[c]) <= Limit[key]
                               /\ \A d \in Holders(key) : d = c

RoomInv == \A key \in Key \ excused : Limit[key] # None => RoomFor(key)

\* Rows and objects by the stage of the upload that makes them.
UploadStands(c) ==
    LET r == call[c]
    IN  /\ c \in object \/ HasRow(c)
              => r.op = "upload" /\ r.pc \in {"insert", "cleanup", "announce", "done"}
        /\ c \notin troubled /\ r.op = "upload" =>
              /\ r.pc \in {"insert", "cleanup"} => c \in object /\ ~HasRow(c)
              /\ r.pc = "announce" => c \in object /\ HasRow(c)
              /\ r.pc = "done" => (c \in object <=> HasRow(c))

\* Messages and their audit events by the stage of the call that sends them.
MailStands(c) ==
    LET r == call[c]
    IN  /\ c \in sent \/ Counted(c)
              => r.op = "remind" /\ r.pc \in {"audit", "announce", "done"}
        /\ c \notin troubled /\ r.op = "remind" =>
              /\ r.pc = "audit" => ~Counted(c) /\ (r.live => c \in sent)
              /\ r.pc \in {"announce", "done"} =>
                    (Counted(c) /\ r.live => c \in sent) /\ (c \in sent => Counted(c))

StandingInv == \A c \in Call : UploadStands(c) /\ MailStands(c)

PlanInv == TypeInv /\ HoldsInv /\ RoomInv /\ StandingInv

LEMMA FilesAreSized == TypeInv => Sized(fileRow)
BY UploadAssumption DEF TypeInv, Sized

LEMMA StorageIsTotal == Usage("storageBytes") = TotalSize(fileRow)
BY Zenon DEF Usage, SumStorageBytes, TotalSize

LEMMA RequestUsage == Usage("activeRequests") = Cardinality({r \in Request : request[r] = "active"})
BY DEF Usage, CountActiveRequests

SentThisMonth(channel) == {e \in mailed : e.channel = channel /\ e.month = month}

LEMMA MailUsage ==
    /\ Usage("emailPerMonth") = Cardinality(SentThisMonth("email"))
    /\ Usage("smsPerMonth") = Cardinality(SentThisMonth("sms"))
BY DEF Usage, CountSentThisMonth, SentThisMonth

LEMMA CountedSets ==
    TypeInv => /\ IsFiniteSet({r \in Request : request[r] = "active"})
               /\ \A channel : IsFiniteSet(SentThisMonth(channel))
<1> SUFFICES ASSUME TypeInv
             PROVE  /\ IsFiniteSet({r \in Request : request[r] = "active"})
                    /\ \A channel : IsFiniteSet(SentThisMonth(channel))
  OBVIOUS
<1>1. IsFiniteSet({r \in Request : request[r] = "active"})
  BY LimitAssumption, FS_Subset
<1>2. ASSUME NEW channel PROVE IsFiniteSet(SentThisMonth(channel))
  <2>1. SentThisMonth(channel) \subseteq mailed
    BY DEF SentThisMonth
  <2> QED
    BY <2>1, FS_Subset DEF TypeInv
<1> QED
  BY <1>1, <1>2

LEMMA UsageType == TypeInv => \A k \in Key : Usage(k) \in Nat
<1> SUFFICES ASSUME TypeInv, NEW k \in Key PROVE Usage(k) \in Nat
  OBVIOUS
<1>1. Usage("storageBytes") \in Nat
  BY FilesAreSized, StorageIsTotal, TotalIsSum, AnyOrder
<1>2. Usage("activeRequests") \in Nat
  BY RequestUsage, CountedSets, FS_CardinalityType
<1>3. Usage("emailPerMonth") \in Nat /\ Usage("smsPerMonth") \in Nat
  BY MailUsage, CountedSets, FS_CardinalityType
<1> QED
  BY <1>1, <1>2, <1>3 DEF Key

LEMMA UsageTypeNext == (TypeInv => \A k \in Key : Usage(k) \in Nat)'
BY UsageType, PTL

LEMMA IncrementType ==
    TypeInv /\ HoldsInv => \A c \in Call : Increment(call[c]) \in Nat
BY UploadAssumption DEF HoldsInv, Increment

\* What a step has to show of the limits: who holds a key has held it before, and
\* either nothing is added to its usage, or what its holder had room for.
LEMMA RoomStep ==
    ASSUME TypeInv, TypeInv', HoldsInv, HoldsInv', RoomInv, excused \subseteq excused',
           \A key \in Key \ excused' : Limit[key] # None =>
               /\ Holders(key)' \subseteq Holders(key)
               /\ \/ /\ Usage(key)' <= Usage(key)
                     /\ \A c \in Holders(key)' : Increment(call[c])' <= Increment(call[c])
                  \/ /\ \E c \in Holders(key) : Usage(key)' <= Usage(key) + Increment(call[c])
                     /\ \A c \in Holders(key)' : Increment(call[c])' = 0
    PROVE  RoomInv'
<1> SUFFICES ASSUME NEW key \in Key \ excused', Limit[key] # None
             PROVE  RoomFor(key)'
  BY DEF RoomInv
<1>1. RoomFor(key)
  BY DEF RoomInv
<1>2. Limit[key] \in Nat /\ Usage(key) \in Nat /\ Usage(key)' \in Nat
  <2>1. Usage(key)' \in Nat
    BY UsageTypeNext
  <2> QED
    BY <2>1, UsageType, LimitAssumption
<1>3. \A c \in Call : Increment(call[c]) \in Nat /\ Increment(call[c])' \in Nat
  <2>1. (TypeInv /\ HoldsInv => \A c \in Call : Increment(call[c]) \in Nat)'
    BY IncrementType, PTL
  <2> QED
    BY <2>1, IncrementType
<1>4. \A c \in Holders(key) : c \in Call
  BY DEF Holders
<1>5. \A c, d \in Holders(key)' : d = c
  BY <1>1 DEF RoomFor
<1>6. CASE /\ Usage(key)' <= Usage(key)
           /\ \A c \in Holders(key)' : Increment(call[c])' <= Increment(call[c])
  <2>1. Usage(key)' <= Limit[key]
    BY <1>1, <1>2, <1>6 DEF RoomFor
  <2>2. ASSUME NEW c \in Holders(key)' PROVE Usage(key)' + Increment(call[c])' <= Limit[key]
    <3>1. c \in Holders(key) /\ c \in Call
      BY <1>4
    <3>2. Usage(key) + Increment(call[c]) <= Limit[key]
      BY <1>1, <3>1 DEF RoomFor
    <3>3. Increment(call[c])' <= Increment(call[c])
      BY <1>6
    <3> QED
      BY <1>2, <1>3, <1>6, <3>1, <3>2, <3>3
  <2> QED
    BY <1>5, <2>1, <2>2 DEF RoomFor
<1>7. ASSUME NEW c \in Holders(key), Usage(key)' <= Usage(key) + Increment(call[c]),
             \A d \in Holders(key)' : Increment(call[d])' = 0
      PROVE  RoomFor(key)'
  <2>1. Usage(key)' <= Limit[key]
    <3>1. Usage(key) + Increment(call[c]) <= Limit[key]
      BY <1>1 DEF RoomFor
    <3> QED
      BY <1>2, <1>3, <1>4, <1>7, <3>1
  <2>2. ASSUME NEW d \in Holders(key)' PROVE Usage(key)' + Increment(call[d])' <= Limit[key]
    BY <1>2, <1>7, <2>1
  <2> QED
    BY <1>5, <2>1, <2>2 DEF RoomFor
<1> QED
  BY <1>6, <1>7

\* Nothing but the call of c changes: c goes on as r.
Beside(c) ==
    \A d \in Call \ {c} :
        /\ (d \in object' <=> d \in object) /\ (HasRow(d)' <=> HasRow(d))
        /\ (d \in sent' <=> d \in sent) /\ (Counted(d)' <=> Counted(d))
        /\ d \in troubled => d \in troubled'

LEMMA StepKeeps ==
    ASSUME TypeInv, HoldsInv, StandingInv, NEW c \in Call, NEW r \in CallRecord,
           call' = [call EXCEPT ![c] = r],
           r.holds = Held(r),
           r.op = "upload" => r.file \in File,
           r.op = "create" => r.request \in Request,
           r.op = "remind" => r.channel \in Channel,
           Beside(c), UploadStands(c)', MailStands(c)'
    PROVE  /\ call' \in [Call -> CallRecord]
           /\ HoldsInv' /\ StandingInv'
<1>1. call' \in [Call -> CallRecord] /\ call'[c] = r /\ \A d \in Call \ {c} : call'[d] = call[d]
  BY DEF TypeInv
<1>2. ASSUME NEW d \in Call PROVE /\ call'[d].holds = Held(call'[d])
                                  /\ call'[d].op = "upload" => call'[d].file \in File
                                  /\ call'[d].op = "create" => call'[d].request \in Request
                                  /\ call'[d].op = "remind" => call'[d].channel \in Channel
  <2>1. CASE d = c
    BY <1>1, <2>1
  <2>2. CASE d # c
    BY <1>1, <2>2 DEF HoldsInv
  <2> QED
    BY <2>1, <2>2
<1>3. ASSUME NEW d \in Call PROVE UploadStands(d)' /\ MailStands(d)'
  <2>1. CASE d = c
    BY <2>1
  <2>2. CASE d # c
    <3>1. UploadStands(d) /\ MailStands(d) /\ call'[d] = call[d]
      BY <1>1, <2>2 DEF StandingInv
    <3>2. /\ (d \in object' <=> d \in object) /\ (HasRow(d)' <=> HasRow(d))
          /\ (d \in sent' <=> d \in sent) /\ (Counted(d)' <=> Counted(d))
          /\ d \in troubled => d \in troubled'
      BY <2>2 DEF Beside
    <3> QED
      BY <3>1, <3>2 DEF UploadStands, MailStands
  <2> QED
    BY <2>1, <2>2
<1>4. HoldsInv'
  BY <1>2 DEF HoldsInv, Held, KeyOf
<1> QED
  BY <1>1, <1>3, <1>4 DEF StandingInv

LEMMA StorageIsTotalNext == (Usage("storageBytes") = TotalSize(fileRow))'
BY StorageIsTotal, PTL

LEMMA RequestUsageNext ==
    (Usage("activeRequests") = Cardinality({r \in Request : request[r] = "active"}))'
BY RequestUsage, PTL

LEMMA MailUsageNext ==
    (/\ Usage("emailPerMonth") = Cardinality(SentThisMonth("email"))
     /\ Usage("smsPerMonth") = Cardinality(SentThisMonth("sms")))'
BY MailUsage, PTL

\* Each key's usage is read off its own table.
LEMMA SameStorage == ASSUME UNCHANGED fileRow PROVE Usage("storageBytes")' = Usage("storageBytes")
BY StorageIsTotal, StorageIsTotalNext

LEMMA SameRequests == ASSUME UNCHANGED request PROVE Usage("activeRequests")' = Usage("activeRequests")
BY RequestUsage, RequestUsageNext

LEMMA SameMail ==
    ASSUME UNCHANGED <<mailed, month>>
    PROVE  /\ Usage("emailPerMonth")' = Usage("emailPerMonth")
           /\ Usage("smsPerMonth")' = Usage("smsPerMonth")
<1>1. SentThisMonth("email")' = SentThisMonth("email") /\ SentThisMonth("sms")' = SentThisMonth("sms")
  BY DEF SentThisMonth
<1> QED
  BY <1>1, MailUsage, MailUsageNext

LEMMA SameUsage == ASSUME UNCHANGED usageVars PROVE \A k \in Key : Usage(k)' = Usage(k)
BY SameStorage, SameRequests, SameMail DEF usageVars, Key

Stages == {"idle", "insert", "writeStatus", "put", "cleanup", "announce", "readRequest",
           "readConfig", "send", "audit", "done"}

LEMMA Moved ==
    ASSUME NEW r \in CallRecord, NEW pc \in Stages
    PROVE  /\ [r EXCEPT !.pc = pc] \in CallRecord
           /\ [r EXCEPT !.pc = pc].pc = pc
           /\ [r EXCEPT !.pc = pc].op = r.op /\ [r EXCEPT !.pc = pc].file = r.file
           /\ [r EXCEPT !.pc = pc].request = r.request
           /\ [r EXCEPT !.pc = pc].channel = r.channel
           /\ [r EXCEPT !.pc = pc].holds = r.holds /\ [r EXCEPT !.pc = pc].live = r.live
BY DEF CallRecord, Stages

LEMMA Released ==
    ASSUME NEW r \in CallRecord, NEW pc \in Stages
    PROVE  /\ [r EXCEPT !.pc = pc, !.holds = None] \in CallRecord
           /\ [r EXCEPT !.pc = pc, !.holds = None].pc = pc
           /\ [r EXCEPT !.pc = pc, !.holds = None].op = r.op
           /\ [r EXCEPT !.pc = pc, !.holds = None].file = r.file
           /\ [r EXCEPT !.pc = pc, !.holds = None].request = r.request
           /\ [r EXCEPT !.pc = pc, !.holds = None].channel = r.channel
           /\ [r EXCEPT !.pc = pc, !.holds = None].holds = None
           /\ [r EXCEPT !.pc = pc, !.holds = None].live = r.live
BY DEF CallRecord, Stages

LEMMA EndIs ==
    ASSUME TypeInv, NEW c \in Call, NEW pc
    PROVE  [call EXCEPT ![c].pc = pc, ![c].holds = None]
              = [call EXCEPT ![c] = [call[c] EXCEPT !.pc = pc, !.holds = None]]
BY DEF TypeInv

\* The limits when nothing is added.
LEMMA QuietRoom ==
    ASSUME TypeInv, TypeInv', HoldsInv, HoldsInv', RoomInv, NEW c \in Call, NEW r,
           call' = [call EXCEPT ![c] = r], \A k \in Key \ excused' : Usage(k)' <= Usage(k),
           excused \subseteq excused', r.holds \in {None, call[c].holds},
           r.holds # None => Increment(r) <= Increment(call[c])
    PROVE  RoomInv'
<1>1. call'[c] = r /\ \A d \in Call \ {c} : call'[d] = call[d]
  BY DEF TypeInv
<1>2. \A d \in Call : Increment(call[d]) \in Nat
  BY IncrementType
<1>4. ASSUME NEW k \in Key
      PROVE  /\ Holders(k)' \subseteq Holders(k)
             /\ \A d \in Holders(k)' : Increment(call[d])' <= Increment(call[d])
  <2>1. None # k
    BY LimitAssumption
  <2>2. \A d \in Holders(k)' : d \in Holders(k)
    BY <1>1, <2>1 DEF Holders
  <2>3. ASSUME NEW d \in Holders(k)' PROVE Increment(call[d])' <= Increment(call[d])
    <3>1. d \in Call /\ call'[d].holds = k
      BY DEF Holders
    <3>2. CASE d = c
      <4>1. Increment(call[c])' = Increment(r)
        BY <1>1 DEF Increment
      <4> QED
        BY <1>1, <2>1, <3>1, <3>2, <4>1
    <3>3. CASE d # c
      <4>1. Increment(call[d])' = Increment(call[d])
        BY <1>1, <3>1, <3>3 DEF Increment
      <4> QED
        BY <1>2, <3>1, <4>1
    <3> QED
      BY <3>2, <3>3
  <2> QED
    BY <2>2, <2>3
<1> QED
  BY <1>4, RoomStep

\* The limits when c adds what it had room for.
LEMMA ConsumedRoom ==
    ASSUME TypeInv, TypeInv', HoldsInv, HoldsInv', RoomInv, NEW c \in Call, NEW r,
           call' = [call EXCEPT ![c] = r], excused \subseteq excused',
           NEW key \in Key, call[c].holds = key,
           \A k \in Key \ {key} : Usage(k)' = Usage(k),
           Usage(key)' <= Usage(key) + Increment(call[c]),
           r.holds \in {None, key}, r.holds # None => Increment(r) = 0
    PROVE  RoomInv'
<1>1. call'[c] = r /\ \A d \in Call \ {c} : call'[d] = call[d]
  BY DEF TypeInv
<1>2. \A d \in Call : Increment(call[d]) \in Nat
  BY IncrementType
<1>3. \A k \in Key : Usage(k) \in Nat
  BY UsageType
<1>4. ASSUME NEW k \in Key PROVE Holders(k)' \subseteq Holders(k)
  BY <1>1, LimitAssumption DEF Holders
<1>5. ASSUME NEW k \in Key \ excused', Limit[k] # None, k = key
      PROVE  /\ \E d \in Holders(k) : Usage(k)' <= Usage(k) + Increment(call[d])
             /\ \A d \in Holders(k)' : Increment(call[d])' = 0
  <2>1. c \in Holders(k)
    BY <1>5 DEF Holders
  <2>2. \A d \in Holders(k) : d = c
    BY <1>5, <2>1 DEF RoomInv, RoomFor
  <2>3. ASSUME NEW d \in Holders(k)' PROVE Increment(call[d])' = 0
    <3>1. d = c
      BY <1>4, <2>2
    <3>2. r.holds # None
      BY <1>1, <3>1, LimitAssumption DEF Holders
    <3>3. Increment(call[c])' = Increment(r)
      BY <1>1 DEF Increment
    <3> QED
      BY <3>1, <3>2, <3>3
  <2> QED
    BY <1>5, <2>1, <2>3
<1>6. ASSUME NEW k \in Key \ excused', k # key
      PROVE  /\ Usage(k)' <= Usage(k)
             /\ \A d \in Holders(k)' : Increment(call[d])' <= Increment(call[d])
  <2>1. \A d \in Holders(k)' : d \in Call /\ d # c
    BY <1>1, <1>6, LimitAssumption DEF Holders
  <2>2. \A d \in Holders(k)' : Increment(call[d])' = Increment(call[d])
    BY <1>1, <2>1 DEF Increment
  <2> QED
    BY <1>2, <1>3, <1>6, <2>1, <2>2
<1> QED
  BY <1>4, <1>5, <1>6, RoomStep

LEMMA EmptyTotal == TotalSize({}) = 0
<1>1. Sized({})
  BY FS_EmptySet DEF Sized
<1>2. Sums({})[{}] = SumStep(Sums({}), {})
  BY <1>1, SumsRecursion
<1> QED
  BY <1>2, TotalIsSum DEF SumStep

LEMMA PlanStarts == PlanInit => PlanInv
<1> SUFFICES ASSUME PlanInit PROVE PlanInv
  OBVIOUS
<1> USE DEF PlanInit, UsageInit, FileInit, ReminderInit
<1>1. NoCall \in CallRecord /\ NoCall.pc = "idle" /\ NoCall.op = "none" /\ NoCall.holds = None
  BY DEF NoCall, CallRecord
<1>2. call \in [Call -> CallRecord] /\ \A c \in Call : call[c] = NoCall
  BY <1>1
<1>3. TypeInv
  BY <1>2, LimitAssumption, FS_EmptySet DEF TypeInv
<1>4. HoldsInv
  BY <1>1, <1>2 DEF HoldsInv, Held
<1>5. StandingInv
  BY <1>1, <1>2 DEF StandingInv, UploadStands, MailStands, HasRow, Counted
<1>6. RoomInv
  <2>1. ASSUME NEW key \in Key, Limit[key] # None PROVE Usage(key) <= Limit[key]
    <3>1. Limit[key] \in Nat
      BY <2>1, LimitAssumption
    <3>2. Usage("storageBytes") = 0
      BY EmptyTotal, StorageIsTotal
    <3>3. Usage("emailPerMonth") = 0 /\ Usage("smsPerMonth") = 0
      <4>1. SentThisMonth("email") = {} /\ SentThisMonth("sms") = {}
        BY DEF SentThisMonth
      <4> QED
        BY <4>1, MailUsage, FS_EmptySet
    <3>4. Usage("activeRequests") = CountActiveRequests
      BY DEF Usage
    <3> QED
      BY <2>1, <3>1, <3>2, <3>3, <3>4 DEF Key
  <2>2. \A key \in Key : Holders(key) = {}
    BY <1>1, <1>2, LimitAssumption DEF Holders
  <2> QED
    BY <2>1, <2>2 DEF RoomInv, RoomFor
<1> QED
  BY <1>3, <1>4, <1>5, <1>6 DEF PlanInv

----------------------------------------------------------------------------
(* Steps that count nothing *)

LEMMA QuietStep ==
    ASSUME PlanInv, NEW c \in Call, NEW r \in CallRecord,
           call' = [call EXCEPT ![c] = r], UNCHANGED usageVars, excused \subseteq excused',
           r.holds = Held(r), r.holds \in {None, call[c].holds},
           r.holds # None => Increment(r) <= Increment(call[c]),
           r.op = "upload" => r.file \in File,
           r.op = "create" => r.request \in Request,
           r.op = "remind" => r.channel \in Channel,
           Beside(c), UploadStands(c)', MailStands(c)'
    PROVE  PlanInv'
<1> USE DEF PlanInv
<1>1. call' \in [Call -> CallRecord] /\ HoldsInv' /\ StandingInv'
  BY StepKeeps
<1>2. TypeInv'
  <2>1. UNCHANGED <<fileRow, mailed, request, month, MailEvent>>
    BY DEF usageVars, MailEvent
  <2> QED
    BY <1>1, <2>1 DEF TypeInv
<1>3. RoomInv'
  <2>1. \A k \in Key : Usage(k)' <= Usage(k)
    BY SameUsage, UsageType
  <2> QED
    BY <1>1, <1>2, <2>1, QuietRoom
<1> QED
  BY <1>1, <1>2, <1>3

LEMMA AssertKeeps ==
    ASSUME PlanInv, NEW c \in Call, Idle(c), NEW key \in Key \cup {None}, NEW n \in Nat,
           NEW r \in CallRecord, AssertWithinLimit(c, key, n, r),
           UNCHANGED <<usageVars, object, sent, troubled>>,
           <<r.op, r.pc>> \in {<<"create", "insert">>, <<"upload", "put">>,
                               <<"remind", "readRequest">>, <<"remind", "readConfig">>},
           r.op = "upload" => r.file \in File,
           r.op = "create" => r.request \in Request,
           r.op = "remind" => r.channel \in Channel,
           r.holds = None, Held(r) = key, key # None => Increment(r) = n
    PROVE  PlanInv'
<1>1. call[c].pc = "idle" /\ UploadStands(c) /\ MailStands(c) /\ call[c] \in CallRecord
  BY DEF Idle, PlanInv, StandingInv, TypeInv
<1>2. c \notin object /\ ~HasRow(c) /\ c \notin sent /\ ~Counted(c) /\ call[c].holds = None
  BY <1>1 DEF UploadStands, MailStands, PlanInv, HoldsInv, Held
<1>3. UNCHANGED <<fileRow, object, mailed, sent, troubled>>
  BY DEF usageVars
<1>4. Beside(c) /\ ~HasRow(c)' /\ ~Counted(c)' /\ c \notin object' /\ c \notin sent'
  BY <1>2, <1>3 DEF Beside, HasRow, Counted
<1>5. \A s : call' = [call EXCEPT ![c] = s] => call'[c] = s /\ \A d \in Call \ {c} : call'[d] = call[d]
  BY DEF PlanInv, TypeInv
<1>6. CASE ~WithinLimit(key, n)
  <2> DEFINE s == [r EXCEPT !.pc = "done"]
  <2>1. /\ s \in CallRecord /\ s.pc = "done" /\ s.op = r.op /\ s.file = r.file
        /\ s.request = r.request /\ s.channel = r.channel /\ s.holds = None
    BY Moved DEF Stages
  <2>2. call' = [call EXCEPT ![c] = s] /\ excused' = excused
    BY <1>6 DEF AssertWithinLimit, Become
  <2> HIDE DEF s
  <2>3. call'[c] = s
    BY <1>5, <2>2
  <2>4. UploadStands(c)' /\ MailStands(c)'
    BY <1>4, <2>1, <2>3 DEF UploadStands, MailStands
  <2>5. Held(s) = None
    BY <2>1 DEF Held
  <2> QED
    BY <1>4, <2>1, <2>2, <2>4, <2>5, QuietStep
<1>7. CASE WithinLimit(key, n)
  <2> DEFINE s == [r EXCEPT !.holds = key]
  <2>1. /\ s \in CallRecord /\ s.pc = r.pc /\ s.op = r.op /\ s.file = r.file
        /\ s.request = r.request /\ s.channel = r.channel /\ s.holds = key
    BY DEF CallRecord
  <2>2. /\ call' = [call EXCEPT ![c] = s]
        /\ excused' = IF key # None /\ Holders(key) # {} THEN excused \cup {key} ELSE excused
    BY <1>7 DEF AssertWithinLimit, Become
  <2> HIDE DEF s
  <2>3. call'[c] = s /\ \A d \in Call \ {c} : call'[d] = call[d]
    BY <1>5, <2>2
  <2>4. UploadStands(c)' /\ MailStands(c)'
    BY <1>4, <2>1, <2>3 DEF UploadStands, MailStands
  <2>5. Held(s) = key /\ (key # None => Increment(s) = n)
    BY <2>1 DEF Held, Increment
  <2>6. excused \subseteq excused'
    BY <2>2
  <2>7. CASE key = None
    BY <1>4, <2>1, <2>2, <2>4, <2>5, <2>6, <2>7, QuietStep
  <2>8. CASE key # None
    <3>1. call' \in [Call -> CallRecord] /\ HoldsInv' /\ StandingInv'
      BY <1>4, <2>1, <2>2, <2>4, <2>5, StepKeeps DEF PlanInv
    <3>2. TypeInv'
      <4>1. UNCHANGED <<fileRow, mailed, request, month, MailEvent>>
        BY DEF usageVars, MailEvent
      <4> QED
        BY <3>1, <4>1 DEF PlanInv, TypeInv
    <3>3. ASSUME NEW k \in Key \ excused', Limit[k] # None PROVE RoomFor(k)'
      <4>1. Usage(k)' = Usage(k)
        BY SameUsage
      <4>2. RoomFor(k)
        BY <2>6, <3>3 DEF PlanInv, RoomInv
      <4>3. CASE k # key
        <5>1. Holders(k)' = Holders(k) /\ c \notin Holders(k)
          BY <1>2, <2>1, <2>3, <4>3, LimitAssumption DEF Holders
        <5>2. \A d \in Holders(k) : Increment(call[d])' = Increment(call[d])
          BY <2>3, <5>1 DEF Increment, Holders
        <5> QED
          BY <4>1, <4>2, <5>1, <5>2 DEF RoomFor
      <4>4. CASE k = key
        <5>1. Holders(k) = {}
          BY <2>2, <2>8, <3>3, <4>4
        <5>2. Holders(k)' = {c}
          BY <2>1, <2>3, <4>4, <5>1 DEF Holders
        <5>3. Increment(call[c])' = n
          BY <2>3, <2>5, <2>8 DEF Increment
        <5>4. Usage(k) + n <= Limit[k]
          BY <1>7, <2>8, <3>3, <4>4 DEF WithinLimit
        <5> QED
          BY <4>1, <4>2, <5>2, <5>3, <5>4 DEF RoomFor
      <4> QED
        BY <4>3, <4>4
    <3> QED
      BY <3>1, <3>2, <3>3 DEF PlanInv, RoomInv
  <2> QED
    BY <2>7, <2>8
<1> QED
  BY <1>6, <1>7

LEMMA StageIs ==
    ASSUME TypeInv, NEW c \in Call, NEW pc
    PROVE  [call EXCEPT ![c].pc = pc] = [call EXCEPT ![c] = [call[c] EXCEPT !.pc = pc]]
BY DEF TypeInv

LEMMA CallIs ==
    PlanInv => \A c \in Call : /\ call[c] \in CallRecord /\ call[c].holds = Held(call[c])
                               /\ call[c].op = "upload" => call[c].file \in File
                               /\ call[c].op = "create" => call[c].request \in Request
                               /\ call[c].op = "remind" => call[c].channel \in Channel
                               /\ UploadStands(c) /\ MailStands(c)
BY DEF PlanInv, TypeInv, HoldsInv, StandingInv

LEMMA CreateKeeps ==
    ASSUME PlanInv, NEW c \in Call, NEW r \in Request, CreateRequest(c, r),
           UNCHANGED <<object, config, sent>>
    PROVE  PlanInv'
<1> DEFINE s == [NoCall EXCEPT !.op = "create", !.pc = "insert", !.request = r]
<1>1. s \in CallRecord /\ s.op = "create" /\ s.pc = "insert" /\ s.request = r /\ s.holds = None
  BY DEF NoCall, CallRecord
<1>2. Idle(c) /\ AssertWithinLimit(c, "activeRequests", 1, s) /\ UNCHANGED <<usageVars, troubled>>
  BY DEF CreateRequest
<1> HIDE DEF s
<1>3. Held(s) = "activeRequests" /\ Increment(s) = 1 /\ "activeRequests" \in Key
  BY <1>1 DEF Held, Increment, Key
<1> QED
  BY <1>1, <1>2, <1>3, AssertKeeps

LEMMA StartKeeps ==
    ASSUME PlanInv, NEW c \in Call, NEW f \in File, StartUpload(c, f), UNCHANGED <<config, sent>>
    PROVE  PlanInv'
<1> DEFINE s == [NoCall EXCEPT !.op = "upload", !.pc = "put", !.file = f]
<1>1. s \in CallRecord /\ s.op = "upload" /\ s.pc = "put" /\ s.file = f /\ s.holds = None
  BY DEF NoCall, CallRecord
<1>2. Idle(c) /\ AssertWithinLimit(c, "storageBytes", f.size, s)
      /\ UNCHANGED <<usageVars, object, troubled>>
  BY DEF StartUpload
<1> HIDE DEF s
<1>3. Held(s) = "storageBytes" /\ Increment(s) = f.size /\ "storageBytes" \in Key
  BY <1>1 DEF Held, Increment, Key
<1> QED
  BY <1>1, <1>2, <1>3, UploadAssumption, AssertKeeps

LEMMA RemindKeeps ==
    ASSUME PlanInv, NEW c \in Call, NEW channel \in Channel, NEW r \in Request,
           SendRequestReminder(c, channel, r), UNCHANGED object
    PROVE  PlanInv'
<1> DEFINE s == [NoCall EXCEPT !.op = "remind", !.pc = "readRequest", !.channel = channel,
                               !.request = r]
<1>1. s \in CallRecord /\ s.op = "remind" /\ s.pc = "readRequest" /\ s.channel = channel
      /\ s.holds = None
  BY DEF NoCall, CallRecord
<1>2. Idle(c) /\ AssertWithinLimit(c, KeyOf(channel), 1, s)
      /\ UNCHANGED <<usageVars, sent, troubled>>
  BY DEF SendRequestReminder
<1> HIDE DEF s
<1>3. Held(s) = KeyOf(channel) /\ Increment(s) = 1 /\ KeyOf(channel) \in Key \cup {None}
  BY <1>1 DEF Held, Increment, Key, KeyOf
<1> QED
  BY <1>1, <1>2, <1>3, AssertKeeps

LEMMA AccountMailKeeps ==
    ASSUME PlanInv, NEW c \in Call, SendAccountMail(c), UNCHANGED object
    PROVE  PlanInv'
<1> DEFINE s == [NoCall EXCEPT !.op = "remind", !.pc = "readConfig", !.channel = "email"]
<1>1. s \in CallRecord /\ s.op = "remind" /\ s.pc = "readConfig" /\ s.channel = "email"
      /\ s.holds = None
  BY DEF NoCall, CallRecord, Channel
<1>2. Idle(c) /\ AssertWithinLimit(c, "emailPerMonth", 1, s)
      /\ UNCHANGED <<usageVars, sent, troubled>>
  BY DEF SendAccountMail
<1> HIDE DEF s
<1>3. Held(s) = "emailPerMonth" /\ Increment(s) = 1 /\ "emailPerMonth" \in Key
      /\ s.channel \in Channel
  BY <1>1 DEF Held, Increment, Key, KeyOf, Channel
<1> QED
  BY <1>1, <1>2, <1>3, AssertKeeps

LEMMA PutKeeps ==
    ASSUME PlanInv, NEW c \in Call, PutObject(c), UNCHANGED <<config, sent>>
    PROVE  PlanInv'
<1> DEFINE s == [call[c] EXCEPT !.pc = "insert"]
<1>1. /\ s \in CallRecord /\ s.pc = "insert" /\ s.op = call[c].op /\ s.file = call[c].file
      /\ s.holds = call[c].holds
  BY CallIs, Moved DEF Stages
<1>2. call' = [call EXCEPT ![c] = s]
  BY StageIs DEF PutObject, Go, PlanInv
<1> HIDE DEF s
<1>3. /\ call[c].op = "upload" /\ call[c].pc = "put" /\ object' = object \cup {c}
      /\ UNCHANGED <<usageVars, observed, sent>>
  BY DEF PutObject, At
<1>4. call'[c] = s
  BY <1>2 DEF PlanInv, TypeInv
<1>5. ~HasRow(c) /\ c \notin sent /\ ~Counted(c) /\ call[c].holds = "storageBytes"
      /\ call[c].file \in File
  BY <1>3, CallIs DEF UploadStands, MailStands, Held
<1>6. Beside(c) /\ UploadStands(c)' /\ MailStands(c)'
  BY <1>1, <1>3, <1>4, <1>5
     DEF Beside, UploadStands, MailStands, HasRow, Counted, usageVars, observed
<1>7. Held(s) = "storageBytes" /\ Increment(s) = Increment(call[c]) /\ Increment(s) \in Nat
  BY <1>1, <1>3, <1>5, UploadAssumption DEF Held, Increment
<1>8. Increment(s) <= Increment(call[c])
  BY <1>7
<1>9. UNCHANGED usageVars /\ excused \subseteq excused'
  BY <1>3 DEF observed
<1> QED
  BY <1>1, <1>2, <1>3, <1>5, <1>6, <1>7, <1>8, <1>9, QuietStep

\* A call that ends without having added anything.
LEMMA EndKeeps ==
    ASSUME PlanInv, NEW c \in Call, End(c), UNCHANGED usageVars, excused \subseteq excused',
           Beside(c), UploadStands(c)', MailStands(c)'
    PROVE  PlanInv'
<1> DEFINE s == [call[c] EXCEPT !.pc = "done", !.holds = None]
<1>1. /\ s \in CallRecord /\ s.pc = "done" /\ s.op = call[c].op /\ s.file = call[c].file
      /\ s.request = call[c].request /\ s.channel = call[c].channel /\ s.holds = None
  BY CallIs, Released DEF Stages
<1>2. call' = [call EXCEPT ![c] = s]
  BY EndIs DEF End, PlanInv
<1> HIDE DEF s
<1>3. Held(s) = None
  BY <1>1 DEF Held
<1> QED
  BY <1>1, <1>2, <1>3, CallIs, QuietStep

\* Where the call is after its end.
LEMMA AfterEnd ==
    ASSUME PlanInv, NEW c \in Call, End(c)
    PROVE  call'[c].pc = "done" /\ call'[c].op = call[c].op /\ call'[c].live = call[c].live
<1> DEFINE s == [call[c] EXCEPT !.pc = "done", !.holds = None]
<1>1. s.pc = "done" /\ s.op = call[c].op /\ s.live = call[c].live
  BY CallIs, Released DEF Stages
<1>2. call' = [call EXCEPT ![c] = s]
  BY EndIs DEF End, PlanInv
<1> QED
  BY <1>1, <1>2 DEF PlanInv, TypeInv

LEMMA PutThrowsKeeps ==
    ASSUME PlanInv, NEW c \in Call, PutThrows(c), UNCHANGED <<config, sent>>
    PROVE  PlanInv'
<1>1. /\ call[c].op = "upload" /\ call[c].pc = "put" /\ End(c)
      /\ UNCHANGED <<usageVars, excused, sent>>
      /\ \/ UNCHANGED <<object, troubled>>
         \/ object' = object \cup {c} /\ troubled' = troubled \cup {c}
  BY DEF PutThrows, At, Trouble
<1>2. c \notin object /\ ~HasRow(c) /\ c \notin sent /\ ~Counted(c)
  BY <1>1, CallIs DEF UploadStands, MailStands
<1>3. Beside(c)
  BY <1>1 DEF Beside, HasRow, Counted, usageVars
<1>4. UploadStands(c)' /\ MailStands(c)'
  BY <1>1, <1>2, AfterEnd DEF UploadStands, MailStands, HasRow, Counted, usageVars
<1> QED
  BY <1>1, <1>3, <1>4, EndKeeps

LEMMA DeleteKeeps ==
    ASSUME PlanInv, NEW c \in Call, DeleteObject(c), UNCHANGED <<config, sent>>
    PROVE  PlanInv'
<1>1. /\ call[c].op = "upload" /\ call[c].pc = "cleanup" /\ End(c)
      /\ UNCHANGED <<usageVars, excused, sent>>
      /\ \/ object' = object \ {c} /\ UNCHANGED troubled
         \/ UNCHANGED object /\ troubled' = troubled \cup {c}
  BY DEF DeleteObject, At, Trouble
<1>2. /\ c \notin sent /\ ~Counted(c)
      /\ c \notin troubled => c \in object /\ ~HasRow(c)
  BY <1>1, CallIs DEF UploadStands, MailStands
<1>3. Beside(c)
  BY <1>1 DEF Beside, HasRow, Counted, usageVars
<1>4. UploadStands(c)' /\ MailStands(c)'
  BY <1>1, <1>2, AfterEnd DEF UploadStands, MailStands, HasRow, Counted, usageVars
<1> QED
  BY <1>1, <1>3, <1>4, EndKeeps

LEMMA AnnounceKeeps ==
    ASSUME PlanInv, NEW c \in Call, AnnounceFile(c) \/ AnnounceReminder(c),
           UNCHANGED <<object, sent>>
    PROVE  PlanInv'
<1>1. /\ call[c].op \in {"upload", "remind"} /\ call[c].pc = "announce" /\ End(c)
      /\ UNCHANGED <<usageVars, observed>>
  BY DEF AnnounceFile, AnnounceReminder, At
<1>2. UploadStands(c) /\ MailStands(c)
  BY CallIs
<1>3. Beside(c)
  BY <1>1 DEF Beside, HasRow, Counted, usageVars, observed
<1>4. UploadStands(c)' /\ MailStands(c)'
  BY <1>1, <1>2, AfterEnd DEF UploadStands, MailStands, HasRow, Counted, usageVars, observed
<1>5. UNCHANGED usageVars /\ excused \subseteq excused'
  BY <1>1 DEF observed
<1> QED
  BY <1>1, <1>3, <1>4, <1>5, EndKeeps

LEMMA SendThrowsKeeps ==
    ASSUME PlanInv, NEW c \in Call, SendThrows(c), UNCHANGED object
    PROVE  PlanInv'
<1>1. /\ call[c].op = "remind" /\ call[c].pc = "send" /\ End(c)
      /\ UNCHANGED <<usageVars, excused, object>>
      /\ \/ UNCHANGED <<sent, troubled>>
         \/ sent' = sent \cup {c} /\ troubled' = troubled \cup {c}
  BY DEF SendThrows, At, Trouble
<1>2. c \notin object /\ ~HasRow(c) /\ c \notin sent /\ ~Counted(c)
  BY <1>1, CallIs DEF UploadStands, MailStands
<1>3. Beside(c)
  BY <1>1 DEF Beside, HasRow, Counted, usageVars
<1>4. UploadStands(c)' /\ MailStands(c)'
  BY <1>1, <1>2, AfterEnd DEF UploadStands, MailStands, HasRow, Counted, usageVars
<1> QED
  BY <1>1, <1>3, <1>4, EndKeeps

\* A reminder goes on, holding what it holds.
LEMMA OnwardKeeps ==
    ASSUME PlanInv, NEW c \in Call, call[c].op = "remind",
           call[c].pc \in {"readRequest", "readConfig", "send", "audit"},
           NEW s \in CallRecord, call' = [call EXCEPT ![c] = s],
           s.pc \in {"readRequest", "readConfig", "send", "audit"}, s.op = call[c].op,
           s.channel = call[c].channel, s.holds = call[c].holds,
           UNCHANGED usageVars, excused \subseteq excused',
           Beside(c), UploadStands(c)', MailStands(c)'
    PROVE  PlanInv'
<1>1. Held(s) = Held(call[c]) /\ Increment(s) = 1 /\ Increment(call[c]) = 1
  BY DEF Held, Increment
<1>2. s.op = "remind" /\ s.channel \in Channel /\ s.holds = Held(s)
  BY <1>1, CallIs
<1>3. Increment(s) <= Increment(call[c])
  BY <1>1
<1> QED
  BY <1>2, <1>3, QuietStep

LEMMA ReadRequestKeeps ==
    ASSUME PlanInv, NEW c \in Call, ReadRequest(c), UNCHANGED object
    PROVE  PlanInv'
<1>1. /\ call[c].op = "remind" /\ call[c].pc = "readRequest"
      /\ UNCHANGED <<usageVars, excused, troubled, object, sent>>
      /\ Go(c, "readConfig") \/ End(c)
  BY DEF ReadRequest, At, observed
<1>2. c \notin object /\ ~HasRow(c) /\ c \notin sent /\ ~Counted(c)
  BY <1>1, CallIs DEF UploadStands, MailStands
<1>3. Beside(c)
  BY <1>1 DEF Beside, HasRow, Counted, usageVars
<1>4. CASE Go(c, "readConfig")
  <2> DEFINE s == [call[c] EXCEPT !.pc = "readConfig"]
  <2>1. /\ s \in CallRecord /\ s.pc = "readConfig" /\ s.op = call[c].op
        /\ s.channel = call[c].channel /\ s.holds = call[c].holds
    BY CallIs, Moved DEF Stages
  <2>2. call' = [call EXCEPT ![c] = s]
    BY <1>4, StageIs DEF Go, PlanInv
  <2> HIDE DEF s
  <2>3. call'[c] = s
    BY <2>2 DEF PlanInv, TypeInv
  <2>4. UploadStands(c)' /\ MailStands(c)'
    BY <1>1, <1>2, <2>1, <2>3 DEF UploadStands, MailStands, HasRow, Counted, usageVars
  <2> QED
    BY <1>1, <1>3, <2>1, <2>2, <2>4, OnwardKeeps
<1>5. CASE End(c)
  <2>1. UploadStands(c)' /\ MailStands(c)'
    BY <1>1, <1>2, <1>5, AfterEnd DEF UploadStands, MailStands, HasRow, Counted, usageVars
  <2> QED
    BY <1>1, <1>3, <1>5, <2>1, EndKeeps
<1> QED
  BY <1>1, <1>4, <1>5

LEMMA ReadConfigKeeps ==
    ASSUME PlanInv, NEW c \in Call, ReadConfig(c), UNCHANGED object
    PROVE  PlanInv'
<1> DEFINE s == [call[c] EXCEPT !.pc = "send", !.live = HasKeys(call[c].channel)]
<1>1. /\ call[c].op = "remind" /\ call[c].pc = "readConfig"
      /\ UNCHANGED <<usageVars, excused, troubled, object, sent>>
      /\ Become(c, s) \/ End(c)
  BY DEF ReadConfig, At, observed
<1>2. c \notin object /\ ~HasRow(c) /\ c \notin sent /\ ~Counted(c)
  BY <1>1, CallIs DEF UploadStands, MailStands
<1>3. Beside(c)
  BY <1>1 DEF Beside, HasRow, Counted, usageVars
<1>4. CASE Become(c, s)
  <2>1. /\ s \in CallRecord /\ s.pc = "send" /\ s.op = call[c].op
        /\ s.channel = call[c].channel /\ s.holds = call[c].holds
    <3>1. HasKeys(call[c].channel) \in BOOLEAN /\ call[c] \in CallRecord
      BY CallIs DEF HasKeys
    <3> QED
      BY <3>1 DEF CallRecord
  <2>2. call' = [call EXCEPT ![c] = s]
    BY <1>4 DEF Become
  <2> HIDE DEF s
  <2>3. call'[c] = s
    BY <2>2 DEF PlanInv, TypeInv
  <2>4. UploadStands(c)' /\ MailStands(c)'
    BY <1>1, <1>2, <2>1, <2>3 DEF UploadStands, MailStands, HasRow, Counted, usageVars
  <2> QED
    BY <1>1, <1>3, <2>1, <2>2, <2>4, OnwardKeeps
<1>5. CASE End(c)
  <2>1. UploadStands(c)' /\ MailStands(c)'
    BY <1>1, <1>2, <1>5, AfterEnd DEF UploadStands, MailStands, HasRow, Counted, usageVars
  <2> QED
    BY <1>1, <1>3, <1>5, <2>1, EndKeeps
<1> QED
  BY <1>1, <1>4, <1>5

LEMMA SendKeeps ==
    ASSUME PlanInv, NEW c \in Call, Send(c), UNCHANGED object
    PROVE  PlanInv'
<1> DEFINE s == [call[c] EXCEPT !.pc = "audit"]
<1>1. /\ call[c].op = "remind" /\ call[c].pc = "send"
      /\ UNCHANGED <<usageVars, excused, troubled, object>>
      /\ sent' = IF call[c].live THEN sent \cup {c} ELSE sent
      /\ Go(c, "audit")
  BY DEF Send, At, observed
<1>2. c \notin object /\ ~HasRow(c) /\ ~Counted(c)
  BY <1>1, CallIs DEF UploadStands, MailStands
<1>3. Beside(c)
  BY <1>1 DEF Beside, HasRow, Counted, usageVars
<1>4. /\ s \in CallRecord /\ s.pc = "audit" /\ s.op = call[c].op
      /\ s.channel = call[c].channel /\ s.holds = call[c].holds /\ s.live = call[c].live
  BY CallIs, Moved DEF Stages
<1>5. call' = [call EXCEPT ![c] = s]
  BY <1>1, StageIs DEF Go, PlanInv
<1> HIDE DEF s
<1>6. call'[c] = s
  BY <1>5 DEF PlanInv, TypeInv
<1>7. UploadStands(c)' /\ MailStands(c)'
  BY <1>1, <1>2, <1>4, <1>6 DEF UploadStands, MailStands, HasRow, Counted, usageVars
<1> QED
  BY <1>1, <1>3, <1>4, <1>5, <1>7, OnwardKeeps

----------------------------------------------------------------------------
(* Steps that count something *)

\* The tables keep their types.
Tables ==
    /\ fileRow' \subseteq [key : Call, file : File] /\ IsFiniteSet(fileRow')
    /\ mailed' \subseteq MailEvent' /\ IsFiniteSet(mailed')
    /\ request' \in [Request -> {"none", "active", "closed"}]
    /\ month' \in 0 .. LastMonth

LEMMA SameTables == ASSUME PlanInv, UNCHANGED usageVars PROVE Tables
<1>1. UNCHANGED <<fileRow, mailed, request, month, MailEvent>>
  BY DEF usageVars, MailEvent
<1> QED
  BY <1>1 DEF PlanInv, TypeInv, Tables

LEMMA ConsumedStep ==
    ASSUME PlanInv, NEW c \in Call, NEW r \in CallRecord, Tables,
           call' = [call EXCEPT ![c] = r], excused \subseteq excused',
           NEW key \in Key, call[c].holds = key,
           \A k \in Key \ {key} : Usage(k)' = Usage(k),
           Usage(key)' <= Usage(key) + Increment(call[c]),
           r.holds = Held(r), r.holds \in {None, key}, r.holds # None => Increment(r) = 0,
           r.op = "upload" => r.file \in File,
           r.op = "create" => r.request \in Request,
           r.op = "remind" => r.channel \in Channel,
           Beside(c), UploadStands(c)', MailStands(c)'
    PROVE  PlanInv'
<1> USE DEF PlanInv
<1>1. call' \in [Call -> CallRecord] /\ HoldsInv' /\ StandingInv'
  BY StepKeeps
<1>2. TypeInv'
  BY <1>1 DEF TypeInv, Tables
<1>3. RoomInv'
  BY <1>1, <1>2, ConsumedRoom
<1> QED
  BY <1>1, <1>2, <1>3

LEMMA InsertRequestKeeps ==
    ASSUME PlanInv, NEW c \in Call, InsertRequest(c), UNCHANGED <<object, config, sent>>
    PROVE  PlanInv'
<1> DEFINE s == [call[c] EXCEPT !.pc = "done", !.holds = None]
           q == call[c].request
           before == {r \in Request : request[r] = "active"}
           after == {r \in Request : request'[r] = "active"}
<1>1. /\ call[c].op = "create" /\ call[c].pc = "insert" /\ End(c)
      /\ request' = [request EXCEPT ![q] = "active"]
      /\ UNCHANGED <<fileRow, mailed, month, excused, troubled, object, sent>>
  BY DEF InsertRequest, At, observed
<1>2. /\ s \in CallRecord /\ s.pc = "done" /\ s.op = "create" /\ s.request = q /\ s.holds = None
  BY <1>1, CallIs, Released DEF Stages
<1>3. call' = [call EXCEPT ![c] = s]
  BY <1>1, EndIs DEF End, PlanInv
<1> HIDE DEF s
<1>4. /\ q \in Request /\ call[c].holds = "activeRequests" /\ Increment(call[c]) = 1
      /\ c \notin object /\ ~HasRow(c) /\ c \notin sent /\ ~Counted(c)
  BY <1>1, CallIs DEF Held, Increment, UploadStands, MailStands
<1>5. Beside(c) /\ UploadStands(c)' /\ MailStands(c)'
  <2>1. call'[c] = s
    BY <1>3 DEF PlanInv, TypeInv
  <2> QED
    BY <1>1, <1>2, <1>4, <2>1 DEF Beside, UploadStands, MailStands, HasRow, Counted
<1>6. \A k \in Key \ {"activeRequests"} : Usage(k)' = Usage(k)
  BY <1>1, SameStorage, SameMail DEF Key
<1>7. Usage("activeRequests")' <= Usage("activeRequests") + 1
  <2>1. after = before \cup {q}
    BY <1>1, <1>4 DEF PlanInv, TypeInv
  <2>2. IsFiniteSet(before)
    BY CountedSets DEF PlanInv
  <2>3. Cardinality(after) <= Cardinality(before) + 1
    <3> HIDE DEF after, before
    <3>1. /\ Cardinality(before) \in Nat
          /\ \/ Cardinality(before \cup {q}) = Cardinality(before)
             \/ Cardinality(before \cup {q}) = Cardinality(before) + 1
      <4> HIDE DEF q
      <4> QED
        BY <2>2, FS_AddElement, FS_CardinalityType
    <3> QED
      BY <2>1, <3>1
  <2> QED
    BY <2>3, RequestUsage, RequestUsageNext
<1>8. Held(s) = None
  BY <1>2 DEF Held
<1>9. Tables
  <2>1. UNCHANGED MailEvent /\ request' \in [Request -> {"none", "active", "closed"}]
    BY <1>1, <1>4 DEF MailEvent, PlanInv, TypeInv
  <2> QED
    BY <1>1, <2>1 DEF PlanInv, TypeInv, Tables
<1>10. "activeRequests" \in Key /\ excused \subseteq excused'
  BY <1>1 DEF Key
<1> QED
  BY <1>2, <1>3, <1>4, <1>5, <1>6, <1>7, <1>8, <1>9, <1>10, ConsumedStep

\* What the insert of a file's row adds to what is stored.
LEMMA RowAdded ==
    ASSUME PlanInv, NEW c \in Call, call[c].file \in File,
           fileRow' = fileRow \cup {[key |-> c, file |-> call[c].file]},
           UNCHANGED <<request, mailed, month>>
    PROVE  /\ Tables
           /\ \A k \in Key \ {"storageBytes"} : Usage(k)' = Usage(k)
           /\ Usage("storageBytes")' <= Usage("storageBytes") + call[c].file.size
           /\ HasRow(c)' /\ \A d \in Call \ {c} : HasRow(d)' <=> HasRow(d)
<1> DEFINE x == [key |-> c, file |-> call[c].file]
<1>1. x.file = call[c].file /\ x.key = c /\ x.file.size \in Nat
      /\ x \in [key : Call, file : File]
  BY UploadAssumption
<1>2. fileRow' = fileRow \cup {x}
  OBVIOUS
<1> HIDE DEF x
<1>3. /\ IsFiniteSet(fileRow \cup {x})
      /\ TotalSize(fileRow \cup {x}) <= TotalSize(fileRow) + x.file.size
  <2>1. Sized(fileRow)
    BY FilesAreSized DEF PlanInv
  <2>2. /\ Sized(fileRow \cup {x})
        /\ TotalSize(fileRow \cup {x}) <= TotalSize(fileRow) + x.file.size
    BY <1>1, <2>1, SizeAdded
  <2> QED
    BY <2>2 DEF Sized
<1>4. Usage("storageBytes")' <= Usage("storageBytes") + x.file.size
  <2>1. TotalSize(fileRow') = TotalSize(fileRow \cup {x})
    BY <1>2, Zenon
  <2>2. Usage("storageBytes")' = TotalSize(fileRow')
    BY StorageIsTotalNext
  <2> QED
    BY <1>3, <2>1, <2>2, StorageIsTotal
<1>5. \A k \in Key \ {"storageBytes"} : Usage(k)' = Usage(k)
  BY SameRequests, SameMail DEF Key
<1>6. Tables
  <2>1. UNCHANGED MailEvent
    BY DEF MailEvent
  <2> QED
    BY <1>1, <1>2, <1>3, <2>1 DEF PlanInv, TypeInv, Tables
<1>7. HasRow(c)' /\ \A d \in Call \ {c} : HasRow(d)' <=> HasRow(d)
  BY <1>1, <1>2 DEF HasRow
<1> QED
  BY <1>1, <1>4, <1>5, <1>6, <1>7

LEMMA InsertFileKeeps ==
    ASSUME PlanInv, NEW c \in Call, InsertFile(c), UNCHANGED <<config, sent>>
    PROVE  PlanInv'
<1> DEFINE s == [call[c] EXCEPT !.pc = "announce", !.holds = None]
<1>1. /\ call[c].op = "upload" /\ call[c].pc = "insert"
      /\ fileRow' = fileRow \cup {[key |-> c, file |-> call[c].file]}
      /\ call' = [call EXCEPT ![c].pc = "announce", ![c].holds = None]
      /\ UNCHANGED <<request, mailed, month, object, sent, excused, troubled>>
  BY DEF InsertFile, At, observed
<1>2. /\ s \in CallRecord /\ s.pc = "announce" /\ s.op = "upload" /\ s.file = call[c].file
      /\ s.holds = None
  BY <1>1, CallIs, Released DEF Stages
<1>3. call' = [call EXCEPT ![c] = s]
  BY <1>1, EndIs DEF PlanInv
<1> HIDE DEF s
<1>4. /\ call[c].holds = "storageBytes" /\ Increment(call[c]) = call[c].file.size
      /\ call[c].file \in File /\ c \notin sent /\ ~Counted(c)
      /\ c \notin troubled => c \in object
  BY <1>1, CallIs DEF Held, Increment, UploadStands, MailStands
<1>5. /\ Tables
      /\ \A k \in Key \ {"storageBytes"} : Usage(k)' = Usage(k)
      /\ Usage("storageBytes")' <= Usage("storageBytes") + Increment(call[c])
      /\ HasRow(c)' /\ \A d \in Call \ {c} : HasRow(d)' <=> HasRow(d)
  BY <1>1, <1>4, RowAdded
<1>6. Beside(c) /\ UploadStands(c)' /\ MailStands(c)'
  <2>1. call'[c] = s
    BY <1>3 DEF PlanInv, TypeInv
  <2> QED
    BY <1>1, <1>2, <1>4, <1>5, <2>1 DEF Beside, UploadStands, MailStands, Counted
<1>7. Held(s) = None
  BY <1>2 DEF Held
<1>8. "storageBytes" \in Key /\ excused \subseteq excused'
  BY <1>1 DEF Key
<1> QED
  BY <1>2, <1>3, <1>4, <1>5, <1>6, <1>7, <1>8, ConsumedStep

LEMMA InsertThrowsKeeps ==
    ASSUME PlanInv, NEW c \in Call, InsertThrows(c), UNCHANGED <<config, sent>>
    PROVE  PlanInv'
<1> DEFINE s == [call[c] EXCEPT !.pc = "cleanup"]
<1>1. /\ call[c].op = "upload" /\ call[c].pc = "insert" /\ Go(c, "cleanup")
      /\ UNCHANGED <<request, mailed, month, object, sent, excused>>
      /\ \/ UNCHANGED <<fileRow, troubled>>
         \/ /\ fileRow' = fileRow \cup {[key |-> c, file |-> call[c].file]}
            /\ troubled' = troubled \cup {c}
  BY DEF InsertThrows, At, Trouble
<1>2. /\ s \in CallRecord /\ s.pc = "cleanup" /\ s.op = "upload" /\ s.file = call[c].file
      /\ s.holds = call[c].holds
  BY <1>1, CallIs, Moved DEF Stages
<1>3. call' = [call EXCEPT ![c] = s]
  BY <1>1, StageIs DEF Go, PlanInv
<1> HIDE DEF s
<1>4. /\ call[c].holds = "storageBytes" /\ Increment(call[c]) = call[c].file.size
      /\ call[c].file \in File /\ c \notin sent /\ ~Counted(c)
      /\ c \notin troubled => c \in object /\ ~HasRow(c)
  BY <1>1, CallIs DEF Held, Increment, UploadStands, MailStands
<1>5. /\ Tables
      /\ \A k \in Key \ {"storageBytes"} : Usage(k)' = Usage(k)
      /\ Usage("storageBytes")' <= Usage("storageBytes") + Increment(call[c])
      /\ \A d \in Call \ {c} : HasRow(d)' <=> HasRow(d)
  <2>1. CASE UNCHANGED fileRow
    <3>1. UNCHANGED usageVars
      BY <1>1, <2>1 DEF usageVars
    <3>2. Usage("storageBytes") \in Nat /\ call[c].file.size \in Nat
      BY <1>4, UsageType, UploadAssumption DEF PlanInv, Key
    <3> QED
      BY <1>4, <2>1, <3>1, <3>2, SameTables, SameUsage DEF HasRow, Key
  <2>2. CASE fileRow' = fileRow \cup {[key |-> c, file |-> call[c].file]}
    BY <1>1, <1>4, <2>2, RowAdded
  <2> QED
    BY <1>1, <2>1, <2>2
<1>6. Beside(c) /\ UploadStands(c)' /\ MailStands(c)'
  <2>1. call'[c] = s
    BY <1>3 DEF PlanInv, TypeInv
  <2>2. UNCHANGED fileRow => (HasRow(c)' <=> HasRow(c))
    BY DEF HasRow
  <2> QED
    BY <1>1, <1>2, <1>4, <1>5, <2>1, <2>2 DEF Beside, UploadStands, MailStands, Counted
<1>7. Held(s) = "storageBytes" /\ Increment(s) = 0
  BY <1>2 DEF Held, Increment
<1>8. "storageBytes" \in Key /\ excused \subseteq excused'
  BY <1>1 DEF Key
<1> QED
  BY <1>2, <1>3, <1>4, <1>5, <1>6, <1>7, <1>8, ConsumedStep

\* What an audit event adds to the count of its channel.
LEMMA EventAdded ==
    ASSUME PlanInv, NEW c \in Call, NEW channel \in Channel,
           mailed' = mailed \cup {[call |-> c, channel |-> channel, month |-> month]},
           UNCHANGED <<fileRow, request, month>>
    PROVE  /\ Tables
           /\ \A k \in Key \ {KeyOf(channel)} : Usage(k)' = Usage(k)
           /\ KeyOf(channel) # None
                => Usage(KeyOf(channel))' <= Usage(KeyOf(channel)) + 1
           /\ Counted(c)' /\ \A d \in Call \ {c} : Counted(d)' <=> Counted(d)
<1> DEFINE e == [call |-> c, channel |-> channel, month |-> month]
<1>1. e.call = c /\ e.channel = channel /\ e.month = month /\ e \in MailEvent
  BY DEF MailEvent, PlanInv, TypeInv
<1>2. mailed' = mailed \cup {e}
  OBVIOUS
<1> HIDE DEF e
<1>3. Tables
  <2>1. IsFiniteSet(mailed \cup {e})
    BY FS_AddElement DEF PlanInv, TypeInv
  <2>2. UNCHANGED MailEvent
    BY DEF MailEvent
  <2> QED
    BY <1>1, <1>2, <2>1, <2>2 DEF PlanInv, TypeInv, Tables
<1>4. /\ SentThisMonth(channel)' = SentThisMonth(channel) \cup {e}
      /\ \A o \in Channel \ {channel} : SentThisMonth(o)' = SentThisMonth(o)
  BY <1>1, <1>2 DEF SentThisMonth
<1>5. Cardinality(SentThisMonth(channel)') <= Cardinality(SentThisMonth(channel)) + 1
  <2>1. IsFiniteSet(SentThisMonth(channel))
    BY CountedSets DEF PlanInv
  <2>2. /\ Cardinality(SentThisMonth(channel)) \in Nat
        /\ \/ Cardinality(SentThisMonth(channel) \cup {e}) = Cardinality(SentThisMonth(channel))
           \/ Cardinality(SentThisMonth(channel) \cup {e}) = Cardinality(SentThisMonth(channel)) + 1
    BY <2>1, FS_AddElement, FS_CardinalityType
  <2> QED
    BY <1>4, <2>2
<1>6. /\ \A k \in Key \ {KeyOf(channel)} : Usage(k)' = Usage(k)
      /\ KeyOf(channel) # None => Usage(KeyOf(channel))' <= Usage(KeyOf(channel)) + 1
  <2>1. Usage("storageBytes")' = Usage("storageBytes")
        /\ Usage("activeRequests")' = Usage("activeRequests")
    BY SameStorage, SameRequests
  <2>2. CASE channel = "email"
    <3>1. KeyOf(channel) = "emailPerMonth" /\ SentThisMonth("sms")' = SentThisMonth("sms")
      BY <1>4, <2>2 DEF KeyOf, Channel
    <3>2. /\ Usage("smsPerMonth")' = Usage("smsPerMonth")
          /\ Usage("emailPerMonth")' <= Usage("emailPerMonth") + 1
      BY <1>5, <2>2, <3>1, MailUsage, MailUsageNext
    <3> QED
      BY <2>1, <3>1, <3>2 DEF Key
  <2>3. CASE channel = "sms"
    <3>1. KeyOf(channel) = "smsPerMonth" /\ SentThisMonth("email")' = SentThisMonth("email")
      BY <1>4, <2>3 DEF KeyOf, Channel
    <3>2. /\ Usage("emailPerMonth")' = Usage("emailPerMonth")
          /\ Usage("smsPerMonth")' <= Usage("smsPerMonth") + 1
      BY <1>5, <2>3, <3>1, MailUsage, MailUsageNext
    <3> QED
      BY <2>1, <3>1, <3>2 DEF Key
  <2>4. CASE channel = "whatsapp"
    <3>1. /\ KeyOf(channel) = None /\ SentThisMonth("email")' = SentThisMonth("email")
          /\ SentThisMonth("sms")' = SentThisMonth("sms")
      BY <1>4, <2>4 DEF KeyOf, Channel
    <3>2. /\ Usage("emailPerMonth")' = Usage("emailPerMonth")
          /\ Usage("smsPerMonth")' = Usage("smsPerMonth")
      BY <3>1, MailUsage, MailUsageNext
    <3> QED
      BY <2>1, <3>1, <3>2 DEF Key
  <2> QED
    BY <2>2, <2>3, <2>4 DEF Channel
<1>7. Counted(c)' /\ \A d \in Call \ {c} : Counted(d)' <=> Counted(d)
  BY <1>1, <1>2 DEF Counted
<1> QED
  BY <1>3, <1>6, <1>7

LEMMA AuditKeeps ==
    ASSUME PlanInv, NEW c \in Call, Audit(c), UNCHANGED object
    PROVE  PlanInv'
<1> DEFINE s == [call[c] EXCEPT !.pc = "announce", !.holds = None]
<1>0. PICK channel : channel = call[c].channel
  OBVIOUS
<1> DEFINE key == KeyOf(channel)
<1>1. /\ call[c].op = "remind" /\ call[c].pc = "audit"
      /\ call' = [call EXCEPT ![c].pc = "announce", ![c].holds = None]
      /\ UNCHANGED <<fileRow, request, month, object, sent, excused>>
      /\ \/ /\ mailed' = mailed \cup {[call |-> c, channel |-> channel, month |-> month]}
            /\ UNCHANGED troubled
         \/ UNCHANGED mailed /\ troubled' = troubled \cup {c}
  BY <1>0 DEF Audit, At, Trouble
<1>2. /\ s \in CallRecord /\ s.pc = "announce" /\ s.op = "remind" /\ s.live = call[c].live
      /\ s.channel = channel /\ s.holds = None
  BY <1>0, <1>1, CallIs, Released DEF Stages
<1>3. call' = [call EXCEPT ![c] = s]
  BY <1>1, EndIs DEF PlanInv
<1> HIDE DEF s
<1>4. /\ channel \in Channel /\ call[c].holds = key /\ Increment(call[c]) = 1
      /\ c \notin object /\ ~HasRow(c)
      /\ c \notin troubled => (call[c].live => c \in sent)
  BY <1>0, <1>1, CallIs DEF Held, Increment, UploadStands, MailStands
<1>5. Held(s) = None
  BY <1>2 DEF Held
<1>6. \A d \in Call : HasRow(d)' <=> HasRow(d)
  BY <1>1 DEF HasRow
<1>7. call'[c] = s
  BY <1>3 DEF PlanInv, TypeInv
<1>8. excused \subseteq excused'
  BY <1>1
<1>9. CASE UNCHANGED mailed /\ troubled' = troubled \cup {c}
  <2>1. UNCHANGED usageVars
    BY <1>1, <1>9 DEF usageVars
  <2>2. Beside(c) /\ UploadStands(c)' /\ MailStands(c)'
    BY <1>1, <1>2, <1>4, <1>6, <1>7, <1>9 DEF Beside, UploadStands, MailStands, Counted
  <2> QED
    BY <1>2, <1>3, <1>4, <1>5, <1>8, <2>1, <2>2, QuietStep
<1>10. CASE /\ mailed' = mailed \cup {[call |-> c, channel |-> channel, month |-> month]}
            /\ UNCHANGED troubled
  <2>1. /\ Tables
        /\ \A k \in Key \ {key} : Usage(k)' = Usage(k)
        /\ key # None => Usage(key)' <= Usage(key) + 1
        /\ Counted(c)' /\ \A d \in Call \ {c} : Counted(d)' <=> Counted(d)
    BY <1>1, <1>4, <1>10, EventAdded
  <2>2. Beside(c) /\ UploadStands(c)' /\ MailStands(c)'
    BY <1>1, <1>2, <1>4, <1>6, <1>7, <1>10, <2>1 DEF Beside, UploadStands, MailStands
  <2>3. CASE key # None
    <3>1. key \in Key
      BY <2>3 DEF KeyOf, Key
    <3>2. Usage(key)' <= Usage(key) + Increment(call[c])
      BY <1>4, <2>1, <2>3
    <3> HIDE DEF key
    <3> QED
      BY <1>2, <1>3, <1>4, <1>5, <1>8, <2>1, <2>2, <3>1, <3>2, ConsumedStep
  <2>4. CASE key = None
    <3>1. call' \in [Call -> CallRecord] /\ HoldsInv' /\ StandingInv'
      BY <1>2, <1>3, <1>4, <1>5, <2>2, StepKeeps DEF PlanInv
    <3>2. TypeInv'
      BY <2>1, <3>1 DEF Tables, TypeInv
    <3>3. \A k \in Key : Usage(k)' <= Usage(k)
      BY <2>1, <2>4, UsageType, LimitAssumption DEF PlanInv
    <3>4. RoomInv'
      BY <1>2, <1>3, <1>8, <3>1, <3>2, <3>3, QuietRoom DEF PlanInv
    <3> QED
      BY <3>1, <3>2, <3>4 DEF PlanInv
  <2> QED
    BY <2>3, <2>4
<1> QED
  BY <1>1, <1>9, <1>10

----------------------------------------------------------------------------
(* Steps of no call *)

\* No call moves, and nothing is added to a key whose limit counts.
LEMMA NoCallStep ==
    ASSUME PlanInv, Tables, UNCHANGED <<call, fileRow, object, sent, troubled>>,
           \A d \in Call : Counted(d)' <=> Counted(d),
           excused \subseteq excused', \A k \in Key \ excused' : Usage(k)' <= Usage(k)
    PROVE  PlanInv'
<1> USE DEF PlanInv
<1>1. TypeInv' /\ HoldsInv'
  BY DEF TypeInv, HoldsInv, Tables, Held, KeyOf
<1>2. StandingInv'
  BY DEF StandingInv, UploadStands, MailStands, HasRow
<1>3. ASSUME NEW k \in Key
      PROVE  Holders(k)' = Holders(k) /\ \A d \in Holders(k) : Increment(call[d])' = Increment(call[d])
  BY DEF Holders, Increment
<1>4. RoomInv'
  <2>1. \A k \in Key : \A d \in Holders(k) : Increment(call[d]) \in Nat
    BY IncrementType DEF Holders
  <2>2. \A k \in Key : \A d \in Holders(k)' : Increment(call[d])' <= Increment(call[d])
    BY <1>3, <2>1
  <2> QED
    BY <1>1, <1>3, <2>2, RoomStep
<1> QED
  BY <1>1, <1>2, <1>4

LEMMA CloseKeeps ==
    ASSUME PlanInv, NEW r \in Request, CloseRequest(r), UNCHANGED <<object, config, sent>>
    PROVE  PlanInv'
<1> DEFINE before == {q \in Request : request[q] = "active"}
           after == {q \in Request : request'[q] = "active"}
<1>1. /\ request' = [request EXCEPT ![r] = "closed"]
      /\ UNCHANGED <<fileRow, mailed, month, call, excused, troubled>>
  BY DEF CloseRequest, observed
<1>2. Tables
  <2>1. UNCHANGED MailEvent /\ request' \in [Request -> {"none", "active", "closed"}]
    BY <1>1 DEF MailEvent, PlanInv, TypeInv
  <2> QED
    BY <1>1, <2>1 DEF PlanInv, TypeInv, Tables
<1>3. Usage("activeRequests")' <= Usage("activeRequests")
  <2>1. after \subseteq before
    BY <1>1 DEF PlanInv, TypeInv
  <2>2. Cardinality(after) <= Cardinality(before)
    <3>1. IsFiniteSet(before)
      BY CountedSets DEF PlanInv
    <3> HIDE DEF before, after
    <3> QED
      BY <2>1, <3>1, FS_Subset
  <2> QED
    BY <2>2, RequestUsage, RequestUsageNext
<1>4. \A k \in Key : Usage(k)' <= Usage(k)
  <2>1. \A k \in Key \ {"activeRequests"} : Usage(k)' = Usage(k)
    BY <1>1, SameStorage, SameMail DEF Key
  <2> QED
    BY <1>3, <2>1, UsageType DEF PlanInv
<1>5. \A d \in Call : Counted(d)' <=> Counted(d)
  BY <1>1 DEF Counted
<1> QED
  BY <1>1, <1>2, <1>4, <1>5, NoCallStep

LEMMA ReopenKeeps ==
    ASSUME PlanInv, NEW r \in Request, ReopenRequest(r), UNCHANGED <<object, config, sent>>
    PROVE  PlanInv'
<1>1. /\ request' = [request EXCEPT ![r] = "active"]
      /\ excused' = excused \cup {"activeRequests"}
      /\ UNCHANGED <<fileRow, mailed, month, call, troubled>>
  BY DEF ReopenRequest
<1>2. Tables
  <2>1. UNCHANGED MailEvent /\ request' \in [Request -> {"none", "active", "closed"}]
    BY <1>1 DEF MailEvent, PlanInv, TypeInv
  <2> QED
    BY <1>1, <2>1 DEF PlanInv, TypeInv, Tables
<1>3. \A k \in Key \ excused' : Usage(k)' <= Usage(k)
  <2>1. \A k \in Key \ {"activeRequests"} : Usage(k)' = Usage(k)
    BY <1>1, SameStorage, SameMail DEF Key
  <2> QED
    BY <1>1, <2>1, UsageType DEF PlanInv
<1>4. \A d \in Call : Counted(d)' <=> Counted(d)
  BY <1>1 DEF Counted
<1> QED
  BY <1>1, <1>2, <1>3, <1>4, NoCallStep

\* A call that counts nothing has read what it needs and will write it later.
LEMMA ReadStatusKeeps ==
    ASSUME PlanInv, NEW c \in Call, NEW r \in Request, ReadStatus(c, r),
           UNCHANGED <<object, config, sent>>
    PROVE  PlanInv'
<1> DEFINE s == [NoCall EXCEPT !.op = "status", !.pc = "writeStatus", !.request = r]
<1>1. s \in CallRecord /\ s.op = "status" /\ s.pc = "writeStatus" /\ s.holds = None
  BY DEF NoCall, CallRecord
<1>2. /\ call[c].pc = "idle" /\ call' = [call EXCEPT ![c] = s]
      /\ UNCHANGED <<usageVars, excused, troubled, object, sent>>
  BY DEF ReadStatus, Idle, Become, observed
<1> HIDE DEF s
<1>3. call'[c] = s
  BY <1>2 DEF PlanInv, TypeInv
<1>4. c \notin object /\ ~HasRow(c) /\ c \notin sent /\ ~Counted(c)
  BY <1>2, CallIs DEF UploadStands, MailStands
<1>5. Beside(c) /\ UploadStands(c)' /\ MailStands(c)'
  BY <1>1, <1>2, <1>3, <1>4 DEF Beside, UploadStands, MailStands, HasRow, Counted, usageVars
<1>6. Held(s) = None
  BY <1>1 DEF Held
<1> QED
  BY <1>1, <1>2, <1>5, <1>6, QuietStep

\* What it writes adds to the active requests only if it is noted.
LEMMA WriteStatusKeeps ==
    ASSUME PlanInv, NEW c \in Call, WriteStatus(c), UNCHANGED <<object, config, sent>>
    PROVE  PlanInv'
<1> USE DEF PlanInv
<1> DEFINE s == [call[c] EXCEPT !.pc = "done", !.holds = None]
           q == call[c].request
<1>1. /\ call[c].op = "status" /\ End(c)
      /\ request' = [request EXCEPT ![q] = "active"]
      /\ excused' = IF request[q] = "active" THEN excused ELSE excused \cup {"activeRequests"}
      /\ UNCHANGED <<fileRow, mailed, month, troubled, object, sent>>
  BY DEF WriteStatus, At
<1>2. /\ s \in CallRecord /\ s.pc = "done" /\ s.op = "status" /\ s.holds = None
  BY <1>1, CallIs, Released DEF Stages
<1>3. call' = [call EXCEPT ![c] = s]
  BY <1>1, EndIs DEF End
<1> HIDE DEF s
<1>4. c \notin object /\ ~HasRow(c) /\ c \notin sent /\ ~Counted(c)
  BY <1>1, CallIs DEF UploadStands, MailStands
<1>5. Beside(c) /\ UploadStands(c)' /\ MailStands(c)'
  <2>1. call'[c] = s
    BY <1>3 DEF TypeInv
  <2> QED
    BY <1>1, <1>2, <1>4, <2>1 DEF Beside, UploadStands, MailStands, HasRow, Counted
<1>6. Held(s) = None
  BY <1>2 DEF Held
<1>7. Tables
  <2>1. UNCHANGED MailEvent /\ request' \in [Request -> {"none", "active", "closed"}]
    BY <1>1 DEF MailEvent, TypeInv
  <2> QED
    BY <1>1, <2>1 DEF TypeInv, Tables
<1>8. call' \in [Call -> CallRecord] /\ HoldsInv' /\ StandingInv'
  BY <1>2, <1>3, <1>5, <1>6, StepKeeps
<1>9. TypeInv'
  BY <1>7, <1>8 DEF TypeInv, Tables
<1>10. \A k \in Key \ excused' : Usage(k)' <= Usage(k)
  <2>1. \A k \in Key \ {"activeRequests"} : Usage(k)' = Usage(k)
    BY <1>1, SameStorage, SameMail DEF Key
  <2>2. request[q] = "active" => Usage("activeRequests")' = Usage("activeRequests")
    <3>1. request[q] = "active" => request' = request
      BY <1>1 DEF TypeInv
    <3> QED
      BY <3>1, SameRequests
  <2> QED
    BY <1>1, <2>1, <2>2, UsageType
<1>11. RoomInv'
  BY <1>1, <1>2, <1>3, <1>8, <1>9, <1>10, QuietRoom
<1> QED
  BY <1>8, <1>9, <1>11

\* Nothing has been sent in a month that has not begun.
LEMMA MonthKeeps ==
    ASSUME PlanInv, NextMonth, UNCHANGED <<object, config, sent>>
    PROVE  PlanInv'
<1>1. /\ month' = month + 1 /\ month < LastMonth
      /\ UNCHANGED <<fileRow, request, mailed, call, excused, troubled>>
  BY DEF NextMonth, observed
<1>2. month \in Nat /\ LastMonth \in Nat /\ month <= LastMonth
  BY LimitAssumption DEF PlanInv, TypeInv
<1>3. Tables
  <2>1. month' \in 0 .. LastMonth
    BY <1>1, <1>2
  <2>2. MailEvent \subseteq MailEvent'
    BY <1>1, <1>2 DEF MailEvent
  <2> QED
    BY <1>1, <2>1, <2>2 DEF PlanInv, TypeInv, Tables
<1>4. \A k \in Key : Usage(k)' <= Usage(k)
  <2>1. \A channel : SentThisMonth(channel)' = {}
    <3>1. \A e \in mailed : e.month <= month /\ e.month \in Nat
      BY <1>2 DEF PlanInv, TypeInv, MailEvent
    <3> QED
      BY <1>1, <1>2, <3>1 DEF SentThisMonth
  <2>2. Usage("emailPerMonth")' = 0 /\ Usage("smsPerMonth")' = 0
    BY <2>1, MailUsageNext, FS_EmptySet
  <2>3. Usage("storageBytes")' = Usage("storageBytes")
        /\ Usage("activeRequests")' = Usage("activeRequests")
    BY <1>1, SameStorage, SameRequests
  <2>4. \A k \in Key : Usage(k) \in Nat
    BY UsageType DEF PlanInv
  <2> QED
    BY <2>2, <2>3, <2>4 DEF Key
<1>5. \A d \in Call : Counted(d)' <=> Counted(d)
  BY <1>1 DEF Counted
<1> QED
  BY <1>1, <1>3, <1>4, <1>5, NoCallStep

LEMMA ConfigKeeps ==
    ASSUME PlanInv, NEW channel, NEW usable, UpsertProviderConfig(channel, usable), UNCHANGED object
    PROVE  PlanInv'
<1>1. UNCHANGED <<usageVars, call, excused, troubled, sent>>
  BY DEF UpsertProviderConfig, observed
<1>2. UNCHANGED fileRow /\ \A d \in Call : Counted(d)' <=> Counted(d)
  BY <1>1 DEF usageVars, Counted
<1>3. \A k \in Key : Usage(k)' <= Usage(k)
  BY <1>1, SameUsage, UsageType DEF PlanInv
<1>4. Tables
  BY <1>1, SameTables
<1> QED
  BY <1>1, <1>2, <1>3, <1>4, NoCallStep

\* The calls that are cut off release what they hold, and are troubled.
LEMMA CrashKeeps == ASSUME PlanInv, Crash PROVE PlanInv'
<1> USE DEF PlanInv
<1>1. /\ call' = [c \in Call |-> IF c \in InProgress
                                THEN [call[c] EXCEPT !.pc = "done", !.holds = None]
                                ELSE call[c]]
      /\ troubled' = troubled \cup InProgress
      /\ UNCHANGED <<usageVars, excused, object, sent>>
  BY DEF Crash
<1>2. UNCHANGED <<fileRow, mailed>>
  BY <1>1 DEF usageVars
<1>3. ASSUME NEW c \in InProgress
      PROVE  /\ call'[c] \in CallRecord /\ call'[c].pc = "done" /\ call'[c].op = call[c].op
             /\ call'[c].file = call[c].file /\ call'[c].request = call[c].request
             /\ call'[c].channel = call[c].channel /\ call'[c].holds = None
             /\ c \in troubled' /\ call[c].pc \notin {"idle", "done"} /\ c \in Call
  <2> DEFINE s == [call[c] EXCEPT !.pc = "done", !.holds = None]
  <2>1. c \in Call /\ call[c].pc \notin {"idle", "done"}
    BY DEF InProgress
  <2>2. /\ s \in CallRecord /\ s.pc = "done" /\ s.op = call[c].op /\ s.file = call[c].file
        /\ s.request = call[c].request /\ s.channel = call[c].channel /\ s.holds = None
    BY <2>1, CallIs, Released DEF Stages
  <2>3. call'[c] = s
    BY <1>1, <2>1
  <2> QED
    BY <1>1, <2>1, <2>2, <2>3
<1>4. \A c \in Call \ InProgress : call'[c] = call[c]
  BY <1>1
<1>5. TypeInv'
  <2>1. call' \in [Call -> CallRecord]
    <3>1. \A c \in Call : call'[c] \in CallRecord
      BY <1>3, <1>4, CallIs
    <3>2. call' = [c \in Call |-> call'[c]]
      BY <1>1
    <3> QED
      BY <3>1, <3>2
  <2> QED
    BY <1>1, <2>1, SameTables DEF TypeInv, Tables
<1>6. HoldsInv'
  <2>1. ASSUME NEW c \in Call PROVE /\ call'[c].holds = Held(call'[c])
                                    /\ call'[c].op = "upload" => call'[c].file \in File
                                    /\ call'[c].op = "create" => call'[c].request \in Request
                                    /\ call'[c].op = "remind" => call'[c].channel \in Channel
    <3>1. CASE c \in InProgress
      BY <1>3, <3>1, CallIs DEF Held
    <3>2. CASE c \notin InProgress
      BY <1>4, <3>2, CallIs
    <3> QED
      BY <3>1, <3>2
  <2> QED
    BY <2>1 DEF HoldsInv, Held, KeyOf
<1>7. StandingInv'
  <2>1. ASSUME NEW c \in Call PROVE UploadStands(c)' /\ MailStands(c)'
    <3>1. UploadStands(c) /\ MailStands(c) /\ (HasRow(c)' <=> HasRow(c))
          /\ (Counted(c)' <=> Counted(c))
      BY <1>2, CallIs DEF HasRow, Counted
    <3>2. CASE c \in InProgress
      BY <1>1, <1>3, <3>1, <3>2 DEF UploadStands, MailStands
    <3>3. CASE c \notin InProgress
      BY <1>1, <1>4, <3>1, <3>3 DEF UploadStands, MailStands
    <3> QED
      BY <3>2, <3>3
  <2> QED
    BY <2>1 DEF StandingInv
<1>8. RoomInv'
  <2>1. ASSUME NEW k \in Key
        PROVE  /\ Holders(k)' \subseteq Holders(k)
               /\ \A c \in Holders(k)' : Increment(call[c])' <= Increment(call[c])
    <3>1. \A c \in Holders(k)' : c \in Call \ InProgress
      BY <1>3, LimitAssumption DEF Holders
    <3>2. Holders(k)' \subseteq Holders(k)
      BY <1>4, <3>1 DEF Holders
    <3>3. \A c \in Holders(k)' : Increment(call[c])' = Increment(call[c])
      BY <1>4, <3>1 DEF Increment
    <3>4. \A c \in Holders(k)' : Increment(call[c]) \in Nat
      BY <3>1, IncrementType
    <3> QED
      BY <3>2, <3>3, <3>4
  <2>2. \A k \in Key : Usage(k)' <= Usage(k)
    <3>1. UNCHANGED usageVars
      BY <1>1
    <3>2. \A k \in Key : Usage(k)' = Usage(k)
      BY <3>1, SameUsage
    <3> QED
      BY <3>2, UsageType
  <2> QED
    BY <1>1, <1>5, <1>6, <2>1, <2>2, RoomStep
<1> QED
  BY <1>5, <1>6, <1>7, <1>8

LEMMA PlanKept == ASSUME PlanInv, [PlanNext]_planVars PROVE PlanInv'
<1>1. CASE UsageNext /\ UNCHANGED <<object, config, sent>>
  BY <1>1, CreateKeeps, InsertRequestKeeps, CloseKeeps, ReopenKeeps, ReadStatusKeeps,
     WriteStatusKeeps, MonthKeeps DEF UsageNext
<1>2. CASE FileNext /\ UNCHANGED <<config, sent>>
  <2>1. UNCHANGED <<config, sent>>
    BY <1>2
  <2>2. CASE \E c \in Call, f \in File : StartUpload(c, f)
    BY <2>1, <2>2, StartKeeps
  <2>3. CASE \E c \in Call : PutObject(c) \/ PutThrows(c)
    BY <2>1, <2>3, PutKeeps, PutThrowsKeeps
  <2>4. CASE \E c \in Call : InsertFile(c) \/ InsertThrows(c)
    BY <2>1, <2>4, InsertFileKeeps, InsertThrowsKeeps
  <2>5. CASE \E c \in Call : DeleteObject(c)
    BY <2>1, <2>5, DeleteKeeps
  <2>6. CASE \E c \in Call : AnnounceFile(c)
    BY <2>1, <2>6, AnnounceKeeps DEF AnnounceFile
  <2> QED
    BY <1>2, <2>2, <2>3, <2>4, <2>5, <2>6 DEF FileNext
<1>3. CASE ReminderNext /\ UNCHANGED object
  <2>1. UNCHANGED object
    BY <1>3
  <2>2. CASE \E channel \in Channel, usable \in BOOLEAN : UpsertProviderConfig(channel, usable)
    BY <2>1, <2>2, ConfigKeeps
  <2>3. CASE \E c \in Call, channel \in Channel, r \in Request : SendRequestReminder(c, channel, r)
    BY <2>1, <2>3, RemindKeeps
  <2>4. CASE \E c \in Call : SendAccountMail(c)
    BY <2>1, <2>4, AccountMailKeeps
  <2>5. CASE \E c \in Call : ReadRequest(c) \/ ReadConfig(c)
    BY <2>1, <2>5, ReadRequestKeeps, ReadConfigKeeps
  <2>6. CASE \E c \in Call : Send(c) \/ SendThrows(c)
    BY <2>1, <2>6, SendKeeps, SendThrowsKeeps
  <2>7. CASE \E c \in Call : Audit(c)
    BY <2>1, <2>7, AuditKeeps
  <2>8. CASE \E c \in Call : AnnounceReminder(c)
    BY <2>1, <2>8, AnnounceKeeps DEF AnnounceReminder
  <2> QED
    BY <1>3, <2>2, <2>3, <2>4, <2>5, <2>6, <2>7, <2>8 DEF ReminderNext
<1>4. CASE Crash
  BY <1>4, CrashKeeps
<1>5. CASE UNCHANGED planVars
  <2>1. UNCHANGED <<usageVars, call, observed, object, config, sent>>
    BY <1>5 DEF planVars
  <2>2. UNCHANGED <<call, fileRow, object, sent, troubled, excused>>
        /\ \A d \in Call : Counted(d)' <=> Counted(d)
    BY <2>1 DEF usageVars, observed, Counted
  <2>3. \A k \in Key : Usage(k)' <= Usage(k)
    BY <2>1, SameUsage, UsageType DEF PlanInv
  <2> QED
    BY <2>1, <2>2, <2>3, SameTables, NoCallStep
<1> QED
  BY <1>1, <1>2, <1>3, <1>4, <1>5 DEF PlanNext

LEMMA PlanInvariant == PlanSpec => []PlanInv
<1>1. PlanInit => PlanInv
  BY PlanStarts
<1>2. PlanInv /\ [PlanNext]_planVars => PlanInv'
  BY PlanKept
<1> QED
  BY <1>1, <1>2, PTL DEF PlanSpec

\* An organization stays within its plan's limits, whatever they are and however
\* many calls are made: a key is passed only after two calls that add to it have
\* overlapped between assertWithinLimit and the insert it counts, or after a
\* closed request became active again, by a reopening or by a send or a
\* recalculation that had read it before it was closed.
THEOREM PlanLimitsHold == PlanSpec => []LimitsHold
<1>1. PlanInv => LimitsHold
  BY DEF PlanInv, RoomInv, RoomFor, LimitsHold
<1> QED
  BY <1>1, PlanInvariant, PTL

\* file_assets and the storage provider agree about every upload that no answer,
\* deletion or process was lost of, for any number of uploads.
THEOREM StoredFilesAgree == PlanSpec => []FilesAndObjectsAgree
<1>1. PlanInv => FilesAndObjectsAgree
  BY DEF PlanInv, StandingInv, UploadStands, FilesAndObjectsAgree
<1> QED
  BY <1>1, PlanInvariant, PTL

\* The audit events that the plan counts are the messages that went out.
THEOREM MailIsAudited == PlanSpec => []MailIsCounted
<1>1. PlanInv => MailIsCounted
  BY DEF PlanInv, StandingInv, MailStands, MailIsCounted
<1> QED
  BY <1>1, PlanInvariant, PTL

----------------------------------------------------------------------------
(* Exports: the inductive invariant *)

DeliveryResult == [connectionId : Conns, status : Outcome]

\* Results in the order of the targets.
Aligned(results) ==
    /\ results \in Seq(DeliveryResult) /\ Len(results) <= Len(ConnOf)
    /\ \A n \in DOMAIN results : results[n].connectionId = ConnOf[n]

Full(results) == Aligned(results) /\ Len(results) = Len(ConnOf)

\* What is recorded as delivered was delivered, to that connection.
Truthful(results, took) ==
    \A n \in DOMAIN results : results[n].status = "delivered" => results[n].connectionId \in took

ShapeInv ==
    /\ row \in [status : {"absent", "queued", "processing", "completed", "failed"},
                results : Seq(DeliveryResult)]
    /\ Aligned(row.results) /\ (row.status = "completed" => Full(row.results))
    /\ worker \in [stage : {"enqueue", "waiting", "generate", "deliver", "catch", "resolve", "throw"},
                   results : Seq(DeliveryResult)]
    /\ Aligned(worker.results)
    /\ replay \in [Replays -> [stage : {"idle", "load", "deliver", "done"}, failedOnly : BOOLEAN,
                               seen : Seq(DeliveryResult), todo : Seq(Targets),
                               results : Seq(DeliveryResult)]]
    /\ \A r \in Replays : Busy(r) => Full(replay[r].seen)
    /\ accepted \subseteq Conns
    /\ outcome \in [Conns -> Outcome \cup {"none"}]
    /\ overlapped \in BOOLEAN /\ faulted \in BOOLEAN

\* The only job is never in the list while another stretch of code runs: it is
\* taken as soon as it is put there.
JobInv ==
    /\ pendingJobs = <<>> /\ isProcessing = (running # {})
    /\ \A a, b \in running : a = b
    /\ trail \in [{Export} -> Queue!Trail]
    /\ running # {} => trail[Export] # "absent"

\* Completed is final: no handler runs after it, and replays only run after it.
StageInv ==
    /\ row.status = "completed" =>
          worker.stage = "resolve" \/ (worker.stage = "waiting" /\ running = {})
    /\ \A r \in Replays : Busy(r) => row.status = "completed"

TruthInv ==
    /\ Truthful(row.results, accepted) /\ Truthful(worker.results, accepted)
    /\ \A r \in Replays : /\ Truthful(replay[r].seen, accepted)
                          /\ Truthful(replay[r].results, accepted)

\* The last result of each connection that has any is the outcome of its last delivery.
LastAre(results, out) ==
    \A n \in DOMAIN results :
        (\A m \in n + 1 .. Len(results) : results[m].connectionId # results[n].connectionId)
        => results[n].status = out[results[n].connectionId]

AtRest == \A r \in Replays : ~Busy(r)

LastInv ==
    ~overlapped /\ ~faulted =>
        /\ worker.stage \in {"generate", "deliver"} => LastAre(worker.results, outcome)
        /\ row.status = "completed" /\ AtRest => LastAre(row.results, outcome)
        /\ \A r \in Replays : Busy(r) =>
              /\ LastAre(replay[r].seen \o replay[r].results, outcome)
              /\ \A q \in Replays : Busy(q) => q = r

ExportInv == ShapeInv /\ JobInv /\ StageInv /\ TruthInv /\ LastInv

----------------------------------------------------------------------------
(* Targets in order, and the last result of each *)

LEMMA TargetsAre == Targets = 1..Len(ConnOf) /\ Len(ConnOf) \in Nat \ {0}
BY ExportAssumption DEF Targets

\* One step of TargetsIn.
KeptStep(f, K, n) == IF n = 0 THEN <<>> ELSE IF n \in K THEN Append(f[n - 1], n) ELSE f[n - 1]
Kept(K) == CHOOSE f : f = [n \in 0 .. Len(ConnOf) |-> KeptStep(f, K, n)]

LEMMA KeptExists == ASSUME NEW K PROVE \E f : f = [n \in 0 .. Len(ConnOf) |-> KeptStep(f, K, n)]
<1> DEFINE Upto(m, f) == f = [n \in 0 .. m |-> KeptStep(f, K, n)]
           Solved == {m \in Nat : \E f : Upto(m, f)}
<1>1. 0 \in Solved
  <2> DEFINE f == [n \in 0 .. 0 |-> <<>>]
  <2>1. \A n \in 0 .. 0 : n = 0
    OBVIOUS
  <2>2. Upto(0, f)
    BY <2>1 DEF KeptStep
  <2> QED
    BY <2>2
<1>2. ASSUME NEW m \in Nat, m \in Solved PROVE m + 1 \in Solved
  <2>1. PICK f : Upto(m, f)
    BY <1>2
  <2> DEFINE g == [n \in 0 .. m + 1 |-> IF n <= m THEN f[n] ELSE KeptStep(f, K, n)]
  <2>2. \A n \in 0 .. m : f[n] = KeptStep(f, K, n)
    BY <2>1
  <2>3. \A n \in 0 .. m : g[n] = f[n]
    OBVIOUS
  <2>4. ASSUME NEW n \in 0 .. m + 1 PROVE g[n] = KeptStep(g, K, n)
    <3>1. n = 0 \/ n - 1 \in 0 .. m
      OBVIOUS
    <3>2. KeptStep(g, K, n) = KeptStep(f, K, n)
      BY <2>3, <3>1 DEF KeptStep
    <3>3. g[n] = KeptStep(f, K, n)
      <4>1. CASE n <= m
        BY <2>2, <4>1
      <4>2. CASE ~(n <= m)
        BY <4>2
      <4> QED
        BY <4>1, <4>2
    <3> QED
      BY <3>2, <3>3
  <2>5. Upto(m + 1, g)
    <3>1. g = [n \in 0 .. m + 1 |-> g[n]]
      OBVIOUS
    <3> HIDE DEF g
    <3> QED
      BY <2>4, <3>1
  <2> HIDE DEF g
  <2> QED
    BY <2>5
<1>3. Len(ConnOf) \in Solved
  <2> HIDE DEF Solved
  <2> QED
    BY <1>1, <1>2, TargetsAre, CountingInduction
<1> QED
  BY <1>3

\* targets.filter yields targets, and all of them if none is dropped.
LEMMA FilterTargets ==
    ASSUME NEW K
    PROVE  /\ TargetsIn(K) \in Seq(Targets)
           /\ Targets \subseteq K => TargetsIn(K) = AllTargets
<1> DEFINE f == Kept(K)
           N == Len(ConnOf)
           Good == {n \in Nat : n <= N =>
                       f[n] \in Seq(Targets) /\ (Targets \subseteq K => f[n] = [i \in 1 .. n |-> i])}
<1>1. TargetsIn(K) = f[N]
  BY DEF TargetsIn, Kept, KeptStep
<1>2. \A n \in 0 .. N : f[n] = KeptStep(f, K, n)
  <2>1. Kept(K) = [n \in 0 .. Len(ConnOf) |-> KeptStep(Kept(K), K, n)]
    BY KeptExists DEF Kept
  <2> QED
    BY <2>1
<1>3. N \in Nat /\ Targets = 1 .. N
  BY TargetsAre
<1> HIDE DEF f, N
<1>4. 0 \in Good
  <2>1. f[0] = <<>>
    BY <1>2, <1>3 DEF KeptStep
  <2>2. <<>> = [i \in 1 .. 0 |-> i]
    OBVIOUS
  <2>3. <<>> \in Seq(Targets)
    OBVIOUS
  <2>4. f[0] \in Seq(Targets) /\ f[0] = [i \in 1 .. 0 |-> i]
    BY <2>1, <2>2, <2>3
  <2> QED
    BY <2>4
<1>5. ASSUME NEW n \in Nat, n \in Good PROVE n + 1 \in Good
  <2> SUFFICES ASSUME n + 1 <= N
               PROVE  /\ f[n + 1] \in Seq(Targets)
                      /\ Targets \subseteq K => f[n + 1] = [i \in 1 .. n + 1 |-> i]
    BY DEF Good
  <2>1. f[n] \in Seq(Targets) /\ (Targets \subseteq K => f[n] = [i \in 1 .. n |-> i])
    BY <1>3, <1>5
  <2>2. f[n + 1] = IF n + 1 \in K THEN Append(f[n], n + 1) ELSE f[n]
    <3>1. n + 1 \in 0 .. N /\ n + 1 # 0 /\ (n + 1) - 1 = n
      BY <1>3
    <3> QED
      BY <1>2, <3>1 DEF KeptStep
  <2>3. n + 1 \in Targets
    BY <1>3
  <2>4. Targets \subseteq K => Append(f[n], n + 1) = [i \in 1 .. n + 1 |-> i]
    <3> SUFFICES ASSUME Targets \subseteq K PROVE Append(f[n], n + 1) = [i \in 1 .. n + 1 |-> i]
      OBVIOUS
    <3>1. f[n] = [i \in 1 .. n |-> i]
      BY <2>1
    <3>2. Len(f[n]) = n
      BY <2>1, <3>1
    <3> QED
      BY <2>1, <3>1, <3>2
  <2> QED
    BY <2>1, <2>2, <2>3, <2>4
<1>6. N \in Good
  <2> HIDE DEF Good
  <2> QED
    BY <1>3, <1>4, <1>5, CountingInduction
<1> QED
  BY <1>1, <1>3, <1>6 DEF AllTargets

\* A set of positions has a last one.
LEMMA LastPosition ==
    ASSUME NEW N \in Nat, NEW S, S \subseteq 1 .. N, S # {}
    PROVE  \E n \in S : \A m \in S : m <= n
<1> DEFINE D == {N - n : n \in S}
<1>1. D \subseteq Nat /\ D # {}
  <2>1. \A n \in S : n \in Nat /\ N - n \in Nat
    OBVIOUS
  <2>2. PICK n \in S : TRUE
    OBVIOUS
  <2>3. N - n \in D
    OBVIOUS
  <2>4. D \subseteq Nat
    BY <2>1
  <2> HIDE DEF D
  <2> QED
    BY <2>3, <2>4
<1>2. \E d \in D : \A e \in D : <<e, d>> \notin OpToRel(<, Nat)
  <2> HIDE DEF D
  <2> QED
    BY <1>1, NatLessThanWellFounded, WFMin
<1>3. PICK d \in D : \A e \in D : <<e, d>> \notin OpToRel(<, Nat)
  BY <1>2
<1>4. \A e \in D : ~(e < d)
  BY <1>1, <1>3 DEF OpToRel
<1>5. PICK n \in S : d = N - n
  OBVIOUS
<1>6. ASSUME NEW m \in S PROVE m <= n
  <2>1. ~(N - m < N - n)
    BY <1>4, <1>5
  <2> QED
    BY <2>1
<1> QED
  BY <1>6

\* LastFor is the last of the results with that connection.
LEMMA LastIsLast ==
    ASSUME NEW all \in Seq(DeliveryResult), NEW c, RecordedFor(all, c) # {}
    PROVE  \E n \in DOMAIN all :
              /\ LastFor(all, c) = all[n] /\ all[n].connectionId = c
              /\ \A m \in n + 1 .. Len(all) : all[m].connectionId # c
<1> DEFINE S == {n \in DOMAIN all : all[n].connectionId = c}
<1>1. DOMAIN all = 1 .. Len(all) /\ Len(all) \in Nat
  OBVIOUS
<1>2. S \subseteq 1 .. Len(all) /\ S # {}
  BY <1>1 DEF RecordedFor
<1>3. PICK n \in S : \A m \in S : m <= n
  <2> HIDE DEF S
  <2> QED
    BY <1>1, <1>2, LastPosition
<1>4. /\ all[n].connectionId = c
      /\ \A m \in n + 1 .. Len(all) : all[m].connectionId # c
  <2>1. ASSUME NEW m \in n + 1 .. Len(all), all[m].connectionId = c PROVE FALSE
    <3>1. m \in S
      BY <1>1, <1>3, <2>1
    <3>2. m <= n
      BY <1>3, <3>1
    <3> QED
      BY <1>1, <3>2
  <2> QED
    BY <1>3, <2>1
<1> DEFINE P(k) == all[k].connectionId = c /\ \A m \in k + 1 .. Len(all) : all[m].connectionId # c
           w == CHOOSE k \in DOMAIN all : P(k)
<1>5. w \in DOMAIN all /\ P(w)
  BY <1>3, <1>4
<1>6. LastFor(all, c) = all[w]
  BY DEF LastFor
<1> QED
  BY <1>5, <1>6

\* A delivery's result is the last one of its connection, and of no other.
LEMMA LastAppends ==
    ASSUME NEW old \in Seq(DeliveryResult), NEW x \in DeliveryResult,
           NEW out \in [Conns -> Outcome \cup {"none"}], LastAre(old, out)
    PROVE  LastAre(Append(old, x), [out EXCEPT ![x.connectionId] = x.status])
<1> DEFINE new == Append(old, x)
<1>1. /\ new \in Seq(DeliveryResult) /\ Len(new) = Len(old) + 1 /\ DOMAIN new = 1 .. Len(old) + 1
      /\ DOMAIN old = 1 .. Len(old) /\ Len(old) \in Nat
      /\ new[Len(old) + 1] = x /\ \A n \in 1 .. Len(old) : new[n] = old[n]
  OBVIOUS
<1>2. x.connectionId \in Conns /\ \A n \in DOMAIN old : old[n].connectionId \in Conns
  <2>1. \A y \in DeliveryResult : y.connectionId \in Conns
    BY DEF DeliveryResult
  <2>2. \A n \in DOMAIN old : old[n] \in DeliveryResult
    OBVIOUS
  <2> QED
    BY <2>1, <2>2
<1> HIDE DEF new
<1>3. ASSUME NEW n \in DOMAIN new,
             \A m \in n + 1 .. Len(new) : new[m].connectionId # new[n].connectionId
      PROVE  new[n].status = [out EXCEPT ![x.connectionId] = x.status][new[n].connectionId]
  <2>1. CASE n = Len(old) + 1
    BY <1>1, <1>2, <2>1
  <2>2. CASE n # Len(old) + 1
    <3>1. n \in DOMAIN old /\ new[n] = old[n] /\ Len(old) + 1 \in n + 1 .. Len(new)
      BY <1>1, <2>2
    <3>2. old[n].connectionId # x.connectionId
      BY <1>1, <1>3, <3>1
    <3>3. \A m \in n + 1 .. Len(old) : old[m].connectionId # old[n].connectionId
      BY <1>1, <1>3, <3>1
    <3>4. old[n].status = out[old[n].connectionId]
      BY <3>1, <3>3 DEF LastAre
    <3> QED
      BY <1>2, <3>1, <3>2, <3>4
  <2> QED
    BY <2>1, <2>2
<1> QED
  BY <1>3 DEF LastAre, new

\* What a replay writes: for each target, in order, the last result of its connection.
LEMMA MergeIs ==
    ASSUME NEW seen \in Seq(DeliveryResult), Full(seen), NEW results \in Seq(DeliveryResult)
    PROVE  /\ Full(mergeDeliveryResults(seen, results)) /\ seen \o results \in Seq(DeliveryResult)
           /\ \A i \in Targets : \E n \in DOMAIN (seen \o results) :
                 /\ mergeDeliveryResults(seen, results)[i] = (seen \o results)[n]
                 /\ (seen \o results)[n].connectionId = ConnOf[i]
                 /\ \A m \in n + 1 .. Len(seen \o results) :
                       (seen \o results)[m].connectionId # ConnOf[i]
<1> DEFINE all == seen \o results
           merged == mergeDeliveryResults(seen, results)
<1>1. /\ all \in Seq(DeliveryResult) /\ Len(seen) = Len(ConnOf) /\ DOMAIN seen = Targets
      /\ \A i \in Targets : i \in DOMAIN all /\ all[i] = seen[i] /\ seen[i].connectionId = ConnOf[i]
  BY TargetsAre DEF Full, Aligned
<1> HIDE DEF all
<1>2. \A i \in Targets : RecordedFor(all, ConnOf[i]) # {}
  BY <1>1 DEF RecordedFor
<1>3. merged = [n \in Targets |-> LastFor(all, ConnOf[n])]
  <2> DEFINE known == TargetsIn({i \in Targets : RecordedFor(all, ConnOf[i]) # {}})
  <2>1. known = AllTargets
    BY <1>2, FilterTargets
  <2>2. merged = [n \in DOMAIN known |-> LastFor(all, ConnOf[known[n]])]
    BY DEF mergeDeliveryResults, all
  <2> HIDE DEF known
  <2> QED
    BY <2>1, <2>2 DEF AllTargets
<1> HIDE DEF merged
<1>4. ASSUME NEW i \in Targets
      PROVE  \E n \in DOMAIN all :
                     /\ merged[i] = all[n] /\ all[n].connectionId = ConnOf[i]
                     /\ \A m \in n + 1 .. Len(all) : all[m].connectionId # ConnOf[i]
  <2>1. merged[i] = LastFor(all, ConnOf[i])
    BY <1>3
  <2>2. PICK n \in DOMAIN all :
           /\ LastFor(all, ConnOf[i]) = all[n] /\ all[n].connectionId = ConnOf[i]
           /\ \A m \in n + 1 .. Len(all) : all[m].connectionId # ConnOf[i]
    BY <1>1, <1>2, LastIsLast
  <2> QED
    BY <2>1, <2>2
<1>5. Full(merged)
  <2>1. \A i \in Targets : merged[i] \in DeliveryResult /\ merged[i].connectionId = ConnOf[i]
    BY <1>1, <1>4
  <2> QED
    BY <1>3, <2>1, TargetsAre DEF Full, Aligned
<1> QED
  BY <1>1, <1>4, <1>5 DEF all, merged

----------------------------------------------------------------------------
(* The queue of one job *)

LEMMA JobQueued == ASSUME JobInv, Queue!Enqueue(Export) PROVE JobInv'
<1> DEFINE x == [id |-> Export, attempt |-> 0, enqueuedAt |-> Queue!Now]
<1>1. trail[Export] = "absent" /\ running = {} /\ pendingJobs = <<>> /\ ~isProcessing
  BY DEF JobInv, Queue!Enqueue
<1>2. Queue!TakeNext(Append(pendingJobs, x), running) /\ trail' = [trail EXCEPT ![Export] = "enqueued"]
  BY <1>1 DEF Queue!Enqueue
<1> HIDE DEF x
<1>3. Append(<<>>, x) # <<>> /\ Tail(Append(<<>>, x)) = <<>> /\ Head(Append(<<>>, x)) = x
  OBVIOUS
<1>4. pendingJobs' = <<>> /\ running' = {x} /\ isProcessing' = TRUE
  BY <1>1, <1>2, <1>3 DEF Queue!TakeNext
<1> QED
  BY <1>2, <1>4 DEF JobInv, Queue!Trail

LEMMA JobEnds ==
    ASSUME JobInv, NEW job \in running, Queue!Succeed(job) \/ Queue!FailAttempt(job)
    PROVE  JobInv' /\ (Queue!Succeed(job) => running' = {})
<1> DEFINE again == [job EXCEPT !.attempt = job.attempt + 1]
<1>1. running \ {job} = {} /\ pendingJobs = <<>> /\ job.id = Export
  BY DEF JobInv, Queue!Succeed, Queue!FailAttempt
<1>3. ASSUME Queue!TakeNext(pendingJobs, running \ {job}),
             NEW result \in {"succeeded", "failed"}, trail' = [trail EXCEPT ![job.id] = result]
      PROVE  JobInv' /\ running' = {}
  <2>1. pendingJobs' = <<>> /\ running' = {} /\ isProcessing' = FALSE
    BY <1>1, <1>3 DEF Queue!TakeNext
  <2> QED
    BY <1>1, <1>3, <2>1 DEF JobInv, Queue!Trail
<1>4. ASSUME Queue!TakeNext(Append(pendingJobs, again), running \ {job}), trail' = trail
      PROVE  JobInv'
  <2> HIDE DEF again
  <2>1. Append(<<>>, again) # <<>> /\ Tail(Append(<<>>, again)) = <<>>
    OBVIOUS
  <2>2. /\ pendingJobs' = <<>> /\ running' = {Head(Append(<<>>, again))} /\ isProcessing' = TRUE
    BY <1>1, <1>4, <2>1 DEF Queue!TakeNext
  <2> QED
    BY <1>4, <2>2 DEF JobInv, Queue!Trail
<1>5. CASE Queue!Succeed(job)
  <2>1. Queue!TakeNext(pendingJobs, running \ {job}) /\ trail' = [trail EXCEPT ![job.id] = "succeeded"]
    BY <1>5 DEF Queue!Succeed
  <2> QED
    BY <1>3, <2>1
<1>6. CASE Queue!FailAttempt(job) /\ ~Queue!Succeed(job)
  <2>1. \/ Queue!TakeNext(Append(pendingJobs, again), running \ {job}) /\ trail' = trail
        \/ /\ Queue!TakeNext(pendingJobs, running \ {job})
           /\ trail' = [trail EXCEPT ![job.id] = "failed"]
    BY <1>6 DEF Queue!FailAttempt
  <2> QED
    BY <1>3, <1>4, <1>6, <2>1
<1> QED
  BY <1>5, <1>6

LEMMA JobLost == ASSUME JobInv, Queue!Restart PROVE JobInv' /\ running' = {}
BY DEF JobInv, Queue!Restart, Queue!Trail

LEMMA JobStays == ASSUME JobInv, UNCHANGED queueVars PROVE JobInv' /\ running' = running
BY DEF JobInv, queueVars, Queue!Trail

----------------------------------------------------------------------------
(* The handler of the job *)

LEMMA ExportStarts == Init => ExportInv
<1> SUFFICES ASSUME Init PROVE ExportInv
  OBVIOUS
<1> USE DEF Init, NoReplay
<1>1. <<>> \in Seq(DeliveryResult) /\ <<>> \in Seq(Targets) /\ Aligned(<<>>)
  BY TargetsAre DEF Aligned
<1>2. \A r \in Replays : ~Busy(r)
  BY DEF Busy
<1>3. ShapeInv
  BY <1>1, <1>2 DEF ShapeInv
<1>4. JobInv
  BY DEF JobInv, Queue!Init, Queue!Trail
<1>5. StageInv
  BY <1>2 DEF StageInv
<1>6. TruthInv
  BY DEF TruthInv, Truthful
<1>7. LastInv
  BY <1>2 DEF LastInv
<1> QED
  BY <1>3, <1>4, <1>5, <1>6, <1>7 DEF ExportInv

\* While the handler is before its last statement, no replay is in progress.
LEMMA NotYetCompleted ==
    ASSUME ExportInv,
           \/ worker.stage \in {"enqueue", "generate", "deliver", "catch", "throw"}
           \/ worker.stage = "waiting" /\ running # {}
           \/ row.status = "absent"
    PROVE  row.status # "completed" /\ AtRest
BY DEF ExportInv, StageInv, AtRest

\* Steps of the handler that write neither results nor outcomes, before the row
\* is completed.
LEMMA HandlerStep ==
    ASSUME ExportInv, row.status # "completed", AtRest,
           JobInv', UNCHANGED <<replay, accepted, outcome, overlapped>>,
           faulted' \in BOOLEAN, ~faulted' => ~faulted,
           row' \in [status : {"absent", "queued", "processing", "failed"},
                     results : Seq(DeliveryResult)],
           row'.results = row.results,
           worker' \in [stage : {"enqueue", "waiting", "generate", "deliver", "catch", "resolve", "throw"},
                        results : Seq(DeliveryResult)],
           \/ worker'.results = <<>>
           \/ /\ worker'.results = worker.results
              /\ worker'.stage \in {"generate", "deliver"} => worker.stage \in {"generate", "deliver"}
    PROVE  ExportInv'
<1> USE DEF ExportInv
<1>1. row'.status # "completed" /\ \A r \in Replays : ~Busy(r)'
  BY DEF AtRest, Busy
<1>2. Aligned(worker.results)' /\ Aligned(row.results)'
  BY TargetsAre DEF ShapeInv, Aligned
<1>3. ShapeInv'
  BY <1>1, <1>2 DEF ShapeInv
<1>4. StageInv'
  BY <1>1 DEF StageInv
<1>5. TruthInv'
  BY DEF TruthInv, Truthful
<1>6. LastInv'
  <2> SUFFICES ASSUME ~overlapped, ~faulted, worker'.stage \in {"generate", "deliver"}
               PROVE  LastAre(worker'.results, outcome)
    BY <1>1 DEF LastInv
  <2>1. CASE worker'.results = <<>>
    BY <2>1 DEF LastAre
  <2>2. CASE worker'.results = worker.results /\ worker.stage \in {"generate", "deliver"}
    BY <2>2 DEF LastInv
  <2> QED
    BY <2>1, <2>2
<1> QED
  BY <1>3, <1>4, <1>5, <1>6

LEMMA InsertExportKeeps == ASSUME ExportInv, InsertExport PROVE ExportInv'
<1>1. /\ row.status = "absent" /\ row' = [row EXCEPT !.status = "queued"]
      /\ worker' = [worker EXCEPT !.stage = "enqueue"]
      /\ UNCHANGED <<replay, accepted, outcome, overlapped, faulted, queueVars>>
  BY DEF InsertExport, ghosts
<1>2. row.status # "completed" /\ AtRest
  BY <1>1, NotYetCompleted
<1>3. JobInv'
  BY <1>1, JobStays DEF ExportInv
<1>4. /\ row' \in [status : {"absent", "queued", "processing", "failed"}, results : Seq(DeliveryResult)]
      /\ row'.results = row.results /\ worker'.results = worker.results /\ worker'.stage = "enqueue"
      /\ worker' \in [stage : {"enqueue", "waiting", "generate", "deliver", "catch", "resolve", "throw"},
                      results : Seq(DeliveryResult)]
      /\ faulted' \in BOOLEAN
  BY <1>1 DEF ExportInv, ShapeInv
<1> QED
  BY <1>1, <1>2, <1>3, <1>4, HandlerStep

\* Nothing is written to the row.
LEMMA HandlerMoves ==
    ASSUME ExportInv, row.status # "completed", AtRest,
           JobInv', UNCHANGED <<row, replay, accepted, outcome, overlapped>>,
           faulted' \in BOOLEAN, ~faulted' => ~faulted,
           NEW s \in {"waiting", "generate", "deliver", "catch", "throw"},
           \/ worker' = [stage |-> s, results |-> <<>>]
           \/ /\ worker' = [worker EXCEPT !.stage = s]
              /\ s \in {"generate", "deliver"} => worker.stage \in {"generate", "deliver"}
    PROVE  ExportInv'
<1>1. row' \in [status : {"absent", "queued", "processing", "failed"}, results : Seq(DeliveryResult)]
  BY DEF ExportInv, ShapeInv
<1>2. worker' \in [stage : {"enqueue", "waiting", "generate", "deliver", "catch", "resolve", "throw"},
                   results : Seq(DeliveryResult)]
  <2>1. <<>> \in Seq(DeliveryResult)
    OBVIOUS
  <2>2. CASE worker' = [stage |-> s, results |-> <<>>]
    BY <2>1, <2>2
  <2>3. CASE worker' = [worker EXCEPT !.stage = s]
    BY <2>3 DEF ExportInv, ShapeInv
  <2> QED
    BY <2>2, <2>3
<1>3. worker'.stage = s /\ (worker'.results = <<>> \/ worker'.results = worker.results)
  BY DEF ExportInv, ShapeInv
<1>4. \/ worker'.results = <<>>
      \/ /\ worker'.results = worker.results
         /\ worker'.stage \in {"generate", "deliver"} => worker.stage \in {"generate", "deliver"}
  BY DEF ExportInv, ShapeInv
<1> QED
  BY <1>1, <1>2, <1>4, HandlerStep

LEMMA EnqueueExportKeeps == ASSUME ExportInv, EnqueueExport PROVE ExportInv'
<1>1. /\ worker.stage = "enqueue" /\ Queue!Enqueue(Export)
      /\ worker' = [worker EXCEPT !.stage = "waiting"]
      /\ UNCHANGED <<row, replay, accepted, outcome, overlapped, faulted>>
  BY DEF EnqueueExport, ghosts
<1>2. row.status # "completed" /\ AtRest /\ JobInv' /\ faulted' \in BOOLEAN
  BY <1>1, NotYetCompleted, JobQueued DEF ExportInv, ShapeInv
<1> QED
  BY <1>1, <1>2, HandlerMoves

LEMMA StartProcessingKeeps ==
    ASSUME ExportInv, NEW job \in running, StartProcessing(job) PROVE ExportInv'
<1>1. /\ worker.stage = "waiting" /\ row' = [row EXCEPT !.status = "processing"]
      /\ worker' = [stage |-> "generate", results |-> <<>>]
      /\ UNCHANGED <<replay, accepted, outcome, overlapped, faulted, queueVars>>
  BY DEF StartProcessing, ghosts
<1>2. row.status # "completed" /\ AtRest
  BY <1>1, NotYetCompleted
<1>3. JobInv'
  BY <1>1, JobStays DEF ExportInv
<1>4. /\ row' \in [status : {"absent", "queued", "processing", "failed"}, results : Seq(DeliveryResult)]
      /\ row'.results = row.results /\ worker'.results = <<>>
      /\ worker' \in [stage : {"enqueue", "waiting", "generate", "deliver", "catch", "resolve", "throw"},
                      results : Seq(DeliveryResult)]
      /\ faulted' \in BOOLEAN
  BY <1>1 DEF ExportInv, ShapeInv
<1> QED
  BY <1>1, <1>2, <1>3, <1>4, HandlerStep

LEMMA GenerateKeeps ==
    ASSUME ExportInv, NEW throws \in BOOLEAN, GenerateArtifact(throws) PROVE ExportInv'
<1>1. /\ worker.stage = "generate"
      /\ worker' = [worker EXCEPT !.stage = IF throws THEN "catch" ELSE "deliver"]
      /\ UNCHANGED <<row, replay, accepted, outcome, overlapped, faulted, queueVars>>
  BY DEF GenerateArtifact, ghosts
<1>2. row.status # "completed" /\ AtRest /\ JobInv' /\ faulted' \in BOOLEAN
  BY <1>1, NotYetCompleted, JobStays DEF ExportInv, ShapeInv
<1>3. CASE worker' = [worker EXCEPT !.stage = "catch"]
  BY <1>1, <1>2, <1>3, HandlerMoves
<1>4. CASE worker' = [worker EXCEPT !.stage = "deliver"]
  BY <1>1, <1>2, <1>4, HandlerMoves
<1> QED
  BY <1>1, <1>3, <1>4

LEMMA DeliverNextKeeps ==
    ASSUME ExportInv, NEW status \in Outcome, DeliverNext(status)
    PROVE  ExportInv'
<1>0. PICK i : i = Len(worker.results) + 1
  OBVIOUS
<1> DEFINE old == worker.results
           new == Append(old, Result(i, status))
<1>1. /\ worker.stage = "deliver" /\ i \in Targets
      /\ accepted' = (IF status = "delivered" THEN accepted \cup {ConnOf[i]} ELSE accepted)
      /\ outcome' = [outcome EXCEPT ![ConnOf[i]] = status]
      /\ worker' = [worker EXCEPT !.results = Append(@, Result(i, status))]
      /\ UNCHANGED <<row, replay, overlapped, faulted, queueVars>>
  BY <1>0 DEF DeliverNext, Deliver
<1>2. row.status # "completed" /\ AtRest
  BY <1>1, NotYetCompleted
<1>3. JobInv'
  BY <1>1, JobStays DEF ExportInv
<1>4. /\ old \in Seq(DeliveryResult) /\ Result(i, status) \in DeliveryResult
      /\ Result(i, status).connectionId = ConnOf[i] /\ Result(i, status).status = status
      /\ Len(old) + 1 = i /\ i <= Len(ConnOf) /\ \A n \in DOMAIN old : old[n].connectionId = ConnOf[n]
  <2>1. ConnOf[i] \in Conns
    BY <1>1 DEF Conns
  <2>2. /\ Result(i, status) \in DeliveryResult /\ Result(i, status).connectionId = ConnOf[i]
        /\ Result(i, status).status = status
    BY <2>1 DEF DeliveryResult, Result
  <2>3. old \in Seq(DeliveryResult) /\ \A n \in DOMAIN old : old[n].connectionId = ConnOf[n]
    BY DEF ExportInv, ShapeInv, Aligned
  <2>4. Len(old) + 1 = i /\ i <= Len(ConnOf)
    BY <1>0, <1>1, TargetsAre
  <2> QED
    BY <2>2, <2>3, <2>4
<1>5. /\ worker' \in [stage : {"enqueue", "waiting", "generate", "deliver", "catch", "resolve", "throw"},
                      results : Seq(DeliveryResult)]
      /\ worker'.stage = "deliver" /\ worker'.results = new
  <2>1. new \in Seq(DeliveryResult)
    BY <1>4
  <2>2. worker' = [worker EXCEPT !.results = new]
    BY <1>1
  <2> HIDE DEF new
  <2> QED
    BY <1>1, <2>1, <2>2 DEF ExportInv, ShapeInv
<1>6. /\ new \in Seq(DeliveryResult) /\ Len(new) = i /\ DOMAIN new = 1 .. i
      /\ new[i] = Result(i, status) /\ \A n \in 1 .. i : n # i => n \in DOMAIN old /\ new[n] = old[n]
  BY <1>4
<1> HIDE DEF new
<1>7. Aligned(worker.results)'
  BY <1>4, <1>5, <1>6 DEF Aligned
<1>8. ShapeInv'
  <2>1. accepted' \subseteq Conns /\ outcome' \in [Conns -> Outcome \cup {"none"}]
    BY <1>1 DEF ExportInv, ShapeInv, Conns
  <2> QED
    BY <1>1, <1>2, <1>5, <1>7, <2>1 DEF ExportInv, ShapeInv, AtRest, Busy, Full, Aligned
<1>9. StageInv'
  BY <1>1, <1>2 DEF StageInv, AtRest, Busy
<1>10. TruthInv'
  <2>1. ASSUME NEW n \in DOMAIN new, new[n].status = "delivered"
        PROVE  new[n].connectionId \in accepted'
    <3>1. CASE n = i
      BY <1>1, <1>4, <1>6, <2>1, <3>1
    <3>2. CASE n # i
      BY <1>1, <1>6, <2>1, <3>2 DEF ExportInv, TruthInv, Truthful
    <3> QED
      BY <3>1, <3>2
  <2> QED
    BY <1>1, <1>5, <2>1 DEF ExportInv, TruthInv, Truthful
<1>11. LastInv'
  <2> SUFFICES ASSUME ~overlapped, ~faulted PROVE LastAre(new, outcome')
    BY <1>1, <1>2, <1>5 DEF LastInv, AtRest, Busy
  <2>1. LastAre(old, outcome) /\ outcome \in [Conns -> Outcome \cup {"none"}]
    BY <1>1 DEF ExportInv, LastInv, ShapeInv
  <2>2. PICK x : x = Result(i, status)
    OBVIOUS
  <2>3. x \in DeliveryResult /\ outcome' = [outcome EXCEPT ![x.connectionId] = x.status]
    BY <1>1, <1>4, <2>2
  <2>4. LastAre(Append(old, x), outcome')
    BY <1>4, <2>1, <2>3, LastAppends
  <2> QED
    BY <2>2, <2>4 DEF new
<1> QED
  BY <1>3, <1>8, <1>9, <1>10, <1>11 DEF ExportInv

LEMMA WriteCompletedKeeps == ASSUME ExportInv, WriteCompleted PROVE ExportInv'
<1>1. /\ worker.stage = "deliver" /\ Len(worker.results) = Len(ConnOf)
      /\ row' = [status |-> "completed", results |-> worker.results]
      /\ worker' = [worker EXCEPT !.stage = "resolve"]
      /\ UNCHANGED <<replay, accepted, outcome, overlapped, faulted, queueVars>>
  BY DEF WriteCompleted, ghosts
<1>2. row.status # "completed" /\ AtRest
  BY <1>1, NotYetCompleted
<1>3. JobInv'
  BY <1>1, JobStays DEF ExportInv
<1>4. /\ worker' \in [stage : {"enqueue", "waiting", "generate", "deliver", "catch", "resolve", "throw"},
                      results : Seq(DeliveryResult)]
      /\ worker'.stage = "resolve" /\ worker'.results = worker.results
      /\ row'.status = "completed" /\ row'.results = worker.results
      /\ row' \in [status : {"absent", "queued", "processing", "completed", "failed"},
                   results : Seq(DeliveryResult)]
  BY <1>1 DEF ExportInv, ShapeInv
<1>5. Aligned(worker.results)' /\ Aligned(row.results)' /\ Full(row.results)'
  BY <1>1, <1>4 DEF ExportInv, ShapeInv, Aligned, Full
<1>6. ShapeInv'
  BY <1>1, <1>2, <1>4, <1>5 DEF ExportInv, ShapeInv, AtRest, Busy
<1>7. StageInv'
  BY <1>1, <1>2, <1>4 DEF StageInv, AtRest, Busy
<1>8. TruthInv'
  BY <1>1, <1>4 DEF ExportInv, TruthInv, Truthful
<1>9. LastInv'
  BY <1>1, <1>2, <1>4 DEF ExportInv, LastInv, AtRest, Busy
<1> QED
  BY <1>3, <1>6, <1>7, <1>8, <1>9 DEF ExportInv

LEMMA WriteFailedKeeps == ASSUME ExportInv, WriteFailed PROVE ExportInv'
<1>1. /\ worker.stage = "catch" /\ row' = [row EXCEPT !.status = "failed"]
      /\ worker' = [worker EXCEPT !.stage = "throw"]
      /\ UNCHANGED <<replay, accepted, outcome, overlapped, faulted, queueVars>>
  BY DEF WriteFailed, ghosts
<1>2. row.status # "completed" /\ AtRest
  BY <1>1, NotYetCompleted
<1>3. JobInv'
  BY <1>1, JobStays DEF ExportInv
<1>4. /\ row' \in [status : {"absent", "queued", "processing", "failed"}, results : Seq(DeliveryResult)]
      /\ row'.results = row.results /\ worker'.results = worker.results /\ worker'.stage = "throw"
      /\ worker' \in [stage : {"enqueue", "waiting", "generate", "deliver", "catch", "resolve", "throw"},
                      results : Seq(DeliveryResult)]
      /\ faulted' \in BOOLEAN
  BY <1>1 DEF ExportInv, ShapeInv
<1> QED
  BY <1>1, <1>2, <1>3, <1>4, HandlerStep

LEMMA ThrowKeeps == ASSUME ExportInv, NEW job \in running, Throw(job) PROVE ExportInv'
<1>1. /\ worker.stage = "throw" /\ Queue!FailAttempt(job)
      /\ worker' = [stage |-> "waiting", results |-> <<>>]
      /\ UNCHANGED <<row, replay, accepted, outcome, overlapped, faulted>>
  BY DEF Throw, ghosts
<1>2. row.status # "completed" /\ AtRest /\ JobInv' /\ faulted' \in BOOLEAN
  BY <1>1, NotYetCompleted, JobEnds DEF ExportInv, ShapeInv
<1> QED
  BY <1>1, <1>2, HandlerMoves

\* The handler is done, or dies with the process; the row stays as it is.
LEMMA HandlerGone ==
    ASSUME ExportInv, JobInv', running' = {}, worker' = [stage |-> "waiting", results |-> <<>>],
           UNCHANGED <<row, accepted, outcome, overlapped>>,
           \/ UNCHANGED <<replay, faulted>>
           \/ /\ faulted' = TRUE
              /\ replay' = [r \in Replays |->
                    IF replay[r].stage = "idle" THEN NoReplay("idle") ELSE NoReplay("done")]
    PROVE  ExportInv'
<1> USE DEF ExportInv
<1>1. worker'.stage = "waiting" /\ worker'.results = <<>> /\ <<>> \in Seq(DeliveryResult)
      /\ <<>> \in Seq(Targets)
  OBVIOUS
<1>2. Aligned(worker.results)' /\ Aligned(row.results)' /\ (Full(row.results)' <=> Full(row.results))
  BY <1>1, TargetsAre DEF ShapeInv, Aligned, Full
<1>3. CASE UNCHANGED <<replay, faulted>>
  <2>1. ShapeInv'
    BY <1>1, <1>2, <1>3 DEF ShapeInv, Busy, Full, Aligned
  <2>2. StageInv'
    BY <1>1, <1>3 DEF StageInv, Busy
  <2>3. TruthInv'
    BY <1>1, <1>3 DEF TruthInv, Truthful
  <2>4. LastInv'
    <3>1. \A r \in Replays : Busy(r)' <=> Busy(r)
      BY <1>3 DEF Busy
    <3>2. AtRest' <=> AtRest
      BY <3>1 DEF AtRest
    <3> QED
      BY <1>1, <1>3, <3>1, <3>2 DEF LastInv
  <2> QED
    BY <2>1, <2>2, <2>3, <2>4
<1>4. CASE /\ faulted' = TRUE
           /\ replay' = [r \in Replays |->
                    IF replay[r].stage = "idle" THEN NoReplay("idle") ELSE NoReplay("done")]
  <2>1. \A r \in Replays : /\ ~Busy(r)' /\ replay'[r].seen = <<>> /\ replay'[r].results = <<>>
    BY <1>4 DEF Busy, NoReplay
  <2>2. ShapeInv'
    <3>1. replay' \in [Replays -> [stage : {"idle", "load", "deliver", "done"}, failedOnly : BOOLEAN,
                                   seen : Seq(DeliveryResult), todo : Seq(Targets),
                                   results : Seq(DeliveryResult)]]
      BY <1>1, <1>4 DEF NoReplay
    <3> QED
      BY <1>1, <1>2, <1>4, <2>1, <3>1 DEF ShapeInv
  <2>3. StageInv'
    BY <1>1, <2>1 DEF StageInv
  <2>4. TruthInv'
    BY <1>1, <2>1 DEF TruthInv, Truthful
  <2>5. LastInv'
    BY <1>4 DEF LastInv
  <2> QED
    BY <2>2, <2>3, <2>4, <2>5
<1> QED
  BY <1>3, <1>4

LEMMA ResolveKeeps == ASSUME ExportInv, NEW job \in running, Resolve(job) PROVE ExportInv'
<1>1. /\ Queue!Succeed(job) /\ worker' = [stage |-> "waiting", results |-> <<>>]
      /\ UNCHANGED <<row, replay, accepted, outcome, overlapped, faulted>>
  BY DEF Resolve, ghosts
<1>2. JobInv' /\ running' = {}
  BY <1>1, JobEnds DEF ExportInv
<1> QED
  BY <1>1, <1>2, HandlerGone

LEMMA RestartKeeps == ASSUME ExportInv, Restart PROVE ExportInv'
BY JobLost, HandlerGone DEF Restart, ExportInv

----------------------------------------------------------------------------
(* Replays *)

ReplayRecord == [stage : {"idle", "load", "deliver", "done"}, failedOnly : BOOLEAN,
                 seen : Seq(DeliveryResult), todo : Seq(Targets), results : Seq(DeliveryResult)]

LEMMA ReplayIs == ExportInv => replay \in [Replays -> ReplayRecord]
BY DEF ExportInv, ShapeInv, ReplayRecord

\* A replay moves on beside the handler and the other replays, the row staying as it is.
LEMMA ReplayStep ==
    ASSUME ExportInv, NEW r \in Replays, NEW s \in ReplayRecord,
           replay' = [replay EXCEPT ![r] = s],
           UNCHANGED <<row, worker, queueVars>>, row.status = "completed",
           s.stage \in {"load", "deliver"} => Full(s.seen),
           accepted' \subseteq Conns, accepted \subseteq accepted',
           outcome' \in [Conns -> Outcome \cup {"none"}],
           overlapped' \in BOOLEAN, faulted' \in BOOLEAN,
           Truthful(s.seen, accepted'), Truthful(s.results, accepted'), LastInv'
    PROVE  ExportInv'
<1> USE DEF ExportInv
<1>1. replay'[r] = s /\ \A q \in Replays \ {r} : replay'[q] = replay[q]
  BY ReplayIs
<1>2. JobInv' /\ running' = running
  BY JobStays
<1>3. ShapeInv'
  <2>1. replay' \in [Replays -> ReplayRecord]
    BY ReplayIs
  <2>2. ASSUME NEW q \in Replays, Busy(q)' PROVE Full(replay'[q].seen)
    <3>1. CASE q = r
      BY <1>1, <2>2, <3>1 DEF Busy
    <3>2. CASE q # r
      BY <1>1, <2>2, <3>2 DEF Busy, ShapeInv
    <3> QED
      BY <3>1, <3>2
  <2> QED
    BY <2>1, <2>2 DEF ShapeInv, Aligned, Full, ReplayRecord
<1>4. StageInv'
  BY <1>2 DEF StageInv
<1>5. TruthInv'
  <2>1. \A q \in Replays : Truthful(replay'[q].seen, accepted') /\ Truthful(replay'[q].results, accepted')
    <3> SUFFICES ASSUME NEW q \in Replays
                 PROVE  Truthful(replay'[q].seen, accepted') /\ Truthful(replay'[q].results, accepted')
      OBVIOUS
    <3>1. CASE q = r
      BY <1>1, <3>1 DEF Truthful
    <3>2. CASE q # r
      BY <1>1, <3>2 DEF TruthInv, Truthful
    <3> QED
      BY <3>1, <3>2
  <2> QED
    BY <2>1 DEF TruthInv, Truthful
<1> QED
  BY <1>2, <1>3, <1>4, <1>5

LEMMA StartReplayKeeps ==
    ASSUME ExportInv, NEW r \in Replays, NEW connectionIds \in SUBSET Conns,
           NEW failedOnly \in BOOLEAN, StartReplay(r, connectionIds, failedOnly)
    PROVE  ExportInv'
<1> DEFINE todo == selectReplayTargets(row.results, connectionIds, failedOnly)
           s == [stage |-> "load", failedOnly |-> connectionIds = {} /\ failedOnly,
                 seen |-> row.results, todo |-> todo, results |-> <<>>]
<1>1. /\ replay[r].stage = "idle" /\ row.status = "completed"
      /\ replay' = [replay EXCEPT ![r] = s]
      /\ overlapped' = (overlapped \/ \E q \in Replays : Busy(q))
      /\ UNCHANGED <<row, worker, accepted, outcome, faulted, queueVars>>
  BY DEF StartReplay
<1>2. todo \in Seq(Targets)
  BY FilterTargets, TargetsAre DEF selectReplayTargets, AllTargets
<1>3. row.results \in Seq(DeliveryResult) /\ Full(row.results) /\ <<>> \in Seq(DeliveryResult)
  BY <1>1 DEF ExportInv, ShapeInv
<1>4. /\ s \in ReplayRecord /\ s.stage = "load" /\ s.seen = row.results /\ s.results = <<>>
  <2> HIDE DEF todo
  <2> QED
    BY <1>2, <1>3 DEF ReplayRecord
<1> HIDE DEF s
<1>5. replay'[r] = s /\ \A q \in Replays \ {r} : replay'[q] = replay[q]
  BY <1>1, ReplayIs
<1>6. LastInv'
  <2> SUFFICES ASSUME ~overlapped', ~faulted PROVE LastInv'
    BY <1>1 DEF LastInv
  <2>1. ~overlapped /\ AtRest /\ \A q \in Replays : ~Busy(q)
    BY <1>1 DEF AtRest
  <2>2. worker.stage \notin {"generate", "deliver"}
    BY <1>1 DEF ExportInv, StageInv
  <2>3. Busy(r)' /\ \A q \in Replays : Busy(q)' => q = r
    BY <1>4, <1>5, <2>1 DEF Busy
  <2>4. row.results \o <<>> = row.results /\ LastAre(row.results, outcome)
    BY <1>1, <1>3, <2>1 DEF ExportInv, LastInv
  <2>5. LastAre(replay'[r].seen \o replay'[r].results, outcome')
    BY <1>1, <1>4, <1>5, <2>4
  <2>6. ~AtRest'
    BY <2>3 DEF AtRest
  <2> QED
    BY <1>1, <2>2, <2>3, <2>5, <2>6 DEF LastInv
<1>7. Truthful(s.seen, accepted') /\ Truthful(s.results, accepted')
  BY <1>1, <1>4 DEF ExportInv, TruthInv, Truthful
<1>8. /\ accepted' \subseteq Conns /\ outcome' \in [Conns -> Outcome \cup {"none"}]
      /\ overlapped' \in BOOLEAN /\ faulted' \in BOOLEAN
  BY <1>1 DEF ExportInv, ShapeInv
<1> QED
  BY <1>1, <1>3, <1>4, <1>6, <1>7, <1>8, ReplayStep

LEMMA LoadKeeps == ASSUME ExportInv, NEW r \in Replays, LoadArtifact(r) PROVE ExportInv'
<1> DEFINE s == [replay[r] EXCEPT !.stage = "deliver"]
<1>1. /\ replay[r].stage = "load" /\ replay' = [replay EXCEPT ![r] = s]
      /\ UNCHANGED <<row, worker, accepted, outcome, overlapped, faulted, queueVars>>
  BY ReplayIs DEF LoadArtifact, ghosts
<1>2. /\ s \in ReplayRecord /\ s.stage = "deliver" /\ s.seen = replay[r].seen
      /\ s.results = replay[r].results
  BY ReplayIs DEF ReplayRecord
<1> HIDE DEF s
<1>3. replay'[r] = s /\ \A q \in Replays \ {r} : replay'[q] = replay[q]
  BY <1>1, ReplayIs
<1>4. Busy(r) /\ row.status = "completed" /\ Full(s.seen)
  BY <1>1, <1>2 DEF Busy, ExportInv, StageInv, ShapeInv
<1>5. \A q \in Replays : /\ Busy(q)' <=> Busy(q)
                         /\ replay'[q].seen = replay[q].seen /\ replay'[q].results = replay[q].results
  BY <1>1, <1>2, <1>3 DEF Busy
<1>6. LastInv'
  <2>1. AtRest' <=> AtRest
    BY <1>5 DEF AtRest
  <2>2. \A q \in Replays :
           LastAre(replay'[q].seen \o replay'[q].results, outcome')
           <=> LastAre(replay[q].seen \o replay[q].results, outcome)
    BY <1>1, <1>5
  <2> QED
    BY <1>1, <1>5, <2>1, <2>2 DEF ExportInv, LastInv
<1>7. Truthful(s.seen, accepted') /\ Truthful(s.results, accepted')
  BY <1>1, <1>2 DEF ExportInv, TruthInv, Truthful
<1>8. /\ accepted' \subseteq Conns /\ outcome' \in [Conns -> Outcome \cup {"none"}]
      /\ overlapped' \in BOOLEAN /\ faulted' \in BOOLEAN
  BY <1>1 DEF ExportInv, ShapeInv
<1> QED
  BY <1>1, <1>2, <1>4, <1>6, <1>7, <1>8, ReplayStep

LEMMA AppendMoves ==
    ASSUME NEW a \in Seq(DeliveryResult), NEW b \in Seq(DeliveryResult), NEW x \in DeliveryResult
    PROVE  a \o b \in Seq(DeliveryResult) /\ a \o Append(b, x) = Append(a \o b, x)
<1> DEFINE left == a \o Append(b, x)
           right == Append(a \o b, x)
<1>1. a \o b \in Seq(DeliveryResult) /\ Append(b, x) \in Seq(DeliveryResult)
  OBVIOUS
<1>2. left \in Seq(DeliveryResult) /\ right \in Seq(DeliveryResult)
  BY <1>1
<1>3. Len(left) = Len(a) + Len(b) + 1 /\ Len(right) = Len(a) + Len(b) + 1
  BY <1>1
<1>4. ASSUME NEW n \in 1 .. Len(a) + Len(b) + 1 PROVE left[n] = right[n]
  <2>1. CASE n <= Len(a)
    BY <1>1, <2>1
  <2>2. CASE Len(a) < n /\ n <= Len(a) + Len(b)
    BY <1>1, <2>2
  <2>3. CASE n = Len(a) + Len(b) + 1
    BY <1>1, <2>3
  <2> QED
    BY <2>1, <2>2, <2>3
<1> HIDE DEF left, right
<1>5. left = right
  BY <1>2, <1>3, <1>4
<1> QED
  BY <1>1, <1>5 DEF left, right

LEMMA RedeliverKeeps ==
    ASSUME ExportInv, NEW r \in Replays, NEW status \in Outcome, Redeliver(r, status)
    PROVE  ExportInv'
<1>0. PICK h : h = Head(replay[r].todo)
  OBVIOUS
<1> DEFINE x == Result(h, status)
           old == replay[r].results
           s == [replay[r] EXCEPT !.todo = Tail(replay[r].todo), !.results = Append(old, x)]
<1>1. /\ replay[r].stage = "deliver" /\ replay[r].todo # <<>>
      /\ accepted' = (IF status = "delivered" THEN accepted \cup {ConnOf[h]} ELSE accepted)
      /\ outcome' = [outcome EXCEPT ![ConnOf[h]] = status]
      /\ UNCHANGED <<row, worker, overlapped, faulted, queueVars>>
  BY <1>0 DEF Redeliver, Deliver
<1>2. replay' = [replay EXCEPT ![r] = s]
  BY <1>0, ReplayIs DEF Redeliver
<1>3. /\ replay[r] \in ReplayRecord /\ h \in Targets /\ Tail(replay[r].todo) \in Seq(Targets)
      /\ old \in Seq(DeliveryResult) /\ replay[r].seen \in Seq(DeliveryResult)
  <2>1. replay[r] \in ReplayRecord
    BY ReplayIs
  <2>2. replay[r].todo \in Seq(Targets) /\ old \in Seq(DeliveryResult)
        /\ replay[r].seen \in Seq(DeliveryResult)
    BY <2>1 DEF ReplayRecord
  <2> QED
    BY <1>0, <1>1, <2>1, <2>2
<1>4. x \in DeliveryResult /\ x.connectionId = ConnOf[h] /\ x.status = status
  <2>1. ConnOf[h] \in Conns
    BY <1>3 DEF Conns
  <2> QED
    BY <2>1 DEF DeliveryResult, Result
<1> HIDE DEF x
<1>5. Append(old, x) \in Seq(DeliveryResult)
  BY <1>3, <1>4
<1>6. /\ s \in ReplayRecord /\ s.stage = "deliver" /\ s.seen = replay[r].seen
      /\ s.results = Append(old, x)
  BY <1>1, <1>3, <1>5 DEF ReplayRecord
<1> HIDE DEF s
<1>7. replay'[r] = s /\ \A q \in Replays \ {r} : replay'[q] = replay[q]
  BY <1>2, ReplayIs
<1>8. Busy(r) /\ Busy(r)' /\ row.status = "completed" /\ Full(s.seen)
  BY <1>1, <1>6, <1>7 DEF Busy, ExportInv, StageInv, ShapeInv
<1>9. accepted \subseteq accepted' /\ (status = "delivered" => ConnOf[h] \in accepted')
  BY <1>1
<1>10. LastInv'
  <2> SUFFICES ASSUME ~overlapped, ~faulted PROVE LastInv'
    BY <1>1 DEF LastInv
  <2> DEFINE all == replay[r].seen \o old
  <2>1. worker.stage \notin {"generate", "deliver"}
    BY <1>8 DEF ExportInv, StageInv
  <2>2. LastAre(all, outcome) /\ outcome \in [Conns -> Outcome \cup {"none"}]
    BY <1>8 DEF ExportInv, LastInv, ShapeInv
  <2>3. ASSUME NEW q \in Replays, replay'[q].stage \in {"load", "deliver"} PROVE q = r
    <3>1. \A a, b \in Replays : Busy(a) /\ Busy(b) => b = a
      BY DEF ExportInv, LastInv
    <3>2. q # r => Busy(q)
      BY <1>7, <2>3 DEF Busy
    <3> QED
      BY <1>8, <3>1, <3>2
  <2>4. all \in Seq(DeliveryResult) /\ replay[r].seen \o Append(old, x) = Append(all, x)
    BY <1>3, <1>4, AppendMoves
  <2> HIDE DEF all
  <2>5. LastAre(replay'[r].seen \o replay'[r].results, outcome')
    <3>1. LastAre(Append(all, x), [outcome EXCEPT ![x.connectionId] = x.status])
      BY <1>4, <2>2, <2>4, LastAppends
    <3>2. outcome' = [outcome EXCEPT ![x.connectionId] = x.status]
      BY <1>1, <1>4
    <3>3. replay'[r].seen \o replay'[r].results = Append(all, x)
      BY <1>6, <1>7, <2>4
    <3> QED
      BY <3>1, <3>2, <3>3
  <2>6. ~AtRest'
    BY <1>8 DEF AtRest
  <2> QED
    BY <1>1, <2>1, <2>3, <2>5, <2>6 DEF LastInv, Busy
<1>11. Truthful(s.seen, accepted') /\ Truthful(s.results, accepted')
  <2>1. ASSUME NEW n \in DOMAIN Append(old, x), Append(old, x)[n].status = "delivered"
        PROVE  Append(old, x)[n].connectionId \in accepted'
    <3>1. CASE n = Len(old) + 1
      BY <1>3, <1>4, <1>9, <2>1, <3>1
    <3>2. CASE n # Len(old) + 1
      <4>1. n \in DOMAIN old /\ Append(old, x)[n] = old[n]
        BY <1>3, <1>4, <2>1, <3>2
      <4> QED
        BY <1>9, <2>1, <4>1 DEF ExportInv, TruthInv, Truthful
    <3> QED
      BY <3>1, <3>2
  <2>2. Truthful(s.results, accepted')
    BY <1>6, <2>1 DEF Truthful
  <2>3. Truthful(s.seen, accepted')
    BY <1>6, <1>9 DEF ExportInv, TruthInv, Truthful
  <2> QED
    BY <2>2, <2>3
<1>12. /\ accepted' \subseteq Conns /\ outcome' \in [Conns -> Outcome \cup {"none"}]
       /\ overlapped' \in BOOLEAN /\ faulted' \in BOOLEAN
  BY <1>1, <1>3 DEF ExportInv, ShapeInv, Conns
<1> QED
  BY <1>1, <1>2, <1>6, <1>8, <1>9, <1>10, <1>11, <1>12, ReplayStep

LEMMA WriteReplayKeeps == ASSUME ExportInv, NEW r \in Replays, WriteReplay(r) PROVE ExportInv'
<1>0. PICK merged : merged = mergeDeliveryResults(replay[r].seen, replay[r].results)
  OBVIOUS
<1>a. PICK seen, results : seen = replay[r].seen /\ results = replay[r].results
  OBVIOUS
<1> DEFINE all == seen \o results
<1>1. /\ replay[r].stage = "deliver" /\ replay[r].todo = <<>>
      /\ row' = [row EXCEPT !.results = merged]
      /\ replay' = [replay EXCEPT ![r] = NoReplay("done")]
      /\ UNCHANGED <<worker, accepted, outcome, overlapped, faulted, queueVars>>
  BY <1>0 DEF WriteReplay, ghosts
<1>2. Busy(r) /\ row.status = "completed"
  BY <1>1 DEF Busy, ExportInv, StageInv
<1>3. Full(seen) /\ seen \in Seq(DeliveryResult) /\ results \in Seq(DeliveryResult)
  BY <1>a, <1>2, ReplayIs DEF ReplayRecord, ExportInv, ShapeInv
<1>4. /\ Full(merged) /\ all \in Seq(DeliveryResult)
      /\ \A i \in Targets : \E n \in DOMAIN all :
            /\ merged[i] = all[n] /\ all[n].connectionId = ConnOf[i]
            /\ \A m \in n + 1 .. Len(all) : all[m].connectionId # ConnOf[i]
  <2>1. merged = mergeDeliveryResults(seen, results)
    BY <1>0, <1>a
  <2>2. Full(mergeDeliveryResults(seen, results)) /\ all \in Seq(DeliveryResult)
    BY <1>3, MergeIs
  <2>3. \A i \in Targets : \E n \in DOMAIN all :
            /\ mergeDeliveryResults(seen, results)[i] = all[n] /\ all[n].connectionId = ConnOf[i]
            /\ \A m \in n + 1 .. Len(all) : all[m].connectionId # ConnOf[i]
    BY <1>3, MergeIs
  <2> QED
    BY <2>1, <2>2, <2>3
<1>5. merged \in Seq(DeliveryResult) /\ DOMAIN merged = Targets
  BY <1>4, TargetsAre DEF Full, Aligned
<1>6. row'.status = "completed" /\ row'.results = merged
      /\ row' \in [status : {"absent", "queued", "processing", "completed", "failed"},
                   results : Seq(DeliveryResult)]
  BY <1>1, <1>2, <1>5 DEF ExportInv, ShapeInv
<1>7. /\ NoReplay("done") \in ReplayRecord /\ NoReplay("done").stage = "done"
      /\ NoReplay("done").seen = <<>> /\ NoReplay("done").results = <<>>
  <2>1. <<>> \in Seq(DeliveryResult) /\ <<>> \in Seq(Targets)
    OBVIOUS
  <2> QED
    BY <2>1 DEF NoReplay, ReplayRecord
<1>8. /\ replay' \in [Replays -> ReplayRecord] /\ replay'[r] = NoReplay("done")
      /\ \A q \in Replays \ {r} : replay'[q] = replay[q]
  BY <1>1, <1>7, ReplayIs
<1>9. \A q \in Replays : Busy(q)' => q # r /\ Busy(q) /\ replay'[q] = replay[q]
  BY <1>7, <1>8 DEF Busy
<1>10. JobInv' /\ running' = running
  BY <1>1, JobStays DEF ExportInv
<1>11. ShapeInv'
  <2>1. Aligned(row'.results) /\ Full(row'.results) /\ Aligned(worker'.results)
    BY <1>1, <1>4, <1>6 DEF Full, ExportInv, ShapeInv
  <2>2. \A q \in Replays : Busy(q)' => Full(replay'[q].seen)
    BY <1>9 DEF ExportInv, ShapeInv
  <2> QED
    BY <1>1, <1>6, <1>8, <2>1, <2>2 DEF ExportInv, ShapeInv, ReplayRecord
<1>12. StageInv'
  BY <1>1, <1>2, <1>6, <1>10 DEF ExportInv, StageInv
<1>13. TruthInv'
  <2>1. Truthful(merged, accepted)
    <3> SUFFICES ASSUME NEW i \in Targets, merged[i].status = "delivered"
                 PROVE  merged[i].connectionId \in accepted
      BY <1>5 DEF Truthful
    <3>1. PICK n \in DOMAIN all : merged[i] = all[n]
      BY <1>4
    <3>2. \/ n \in DOMAIN seen /\ all[n] = seen[n]
          \/ n - Len(seen) \in DOMAIN results /\ all[n] = results[n - Len(seen)]
      BY <1>3
    <3>3. Truthful(seen, accepted) /\ Truthful(results, accepted)
      BY <1>a DEF ExportInv, TruthInv
    <3> HIDE DEF all
    <3> QED
      BY <3>1, <3>2, <3>3 DEF Truthful
  <2>2. \A q \in Replays : Truthful(replay'[q].seen, accepted) /\ Truthful(replay'[q].results, accepted)
    <3> SUFFICES ASSUME NEW q \in Replays
                 PROVE  Truthful(replay'[q].seen, accepted) /\ Truthful(replay'[q].results, accepted)
      OBVIOUS
    <3>1. CASE q = r
      BY <1>7, <1>8, <3>1 DEF Truthful
    <3>2. CASE q # r
      BY <1>8, <3>2 DEF ExportInv, TruthInv
    <3> QED
      BY <3>1, <3>2
  <2> QED
    BY <1>1, <1>6, <2>1, <2>2 DEF ExportInv, TruthInv
<1>14. LastInv'
  <2> SUFFICES ASSUME ~overlapped, ~faulted PROVE LastInv'
    BY <1>1 DEF LastInv
  <2>1. worker.stage \notin {"generate", "deliver"}
    BY <1>2 DEF ExportInv, StageInv
  <2>2. \A a, b \in Replays : Busy(a) /\ Busy(b) => b = a
    BY DEF ExportInv, LastInv
  <2>3. \A q \in Replays : ~Busy(q)'
    BY <1>2, <1>9, <2>2
  <2>4. LastAre(all, outcome)
    BY <1>a, <1>2 DEF ExportInv, LastInv
  <2>5. LastAre(merged, outcome)
    <3> SUFFICES ASSUME NEW i \in Targets
                 PROVE  merged[i].status = outcome[merged[i].connectionId]
      BY <1>5 DEF LastAre
    <3>1. PICK n \in DOMAIN all :
             /\ merged[i] = all[n] /\ all[n].connectionId = ConnOf[i]
             /\ \A m \in n + 1 .. Len(all) : all[m].connectionId # ConnOf[i]
      BY <1>4
    <3> QED
      BY <2>4, <3>1 DEF LastAre
  <2> QED
    BY <1>1, <1>6, <2>1, <2>3, <2>5 DEF LastInv
<1> QED
  BY <1>10, <1>11, <1>12, <1>13, <1>14 DEF ExportInv

\* A replay whose statement threw writes nothing; the row stays as it is.
LEMMA ReplayGone ==
    ASSUME ExportInv, NEW r \in Replays, Busy(r),
           replay' = [replay EXCEPT ![r] = NoReplay("done")], faulted' = TRUE,
           UNCHANGED <<row, worker, accepted, outcome, overlapped, queueVars>>
    PROVE  ExportInv'
<1>1. /\ NoReplay("done") \in ReplayRecord /\ NoReplay("done").stage = "done"
      /\ NoReplay("done").seen = <<>> /\ NoReplay("done").results = <<>>
  <2>1. <<>> \in Seq(DeliveryResult) /\ <<>> \in Seq(Targets)
    OBVIOUS
  <2> QED
    BY <2>1 DEF NoReplay, ReplayRecord
<1>2. /\ row.status = "completed" /\ overlapped \in BOOLEAN /\ accepted \subseteq Conns
      /\ outcome \in [Conns -> Outcome \cup {"none"}]
  BY DEF ExportInv, StageInv, ShapeInv
<1>3. Truthful(<<>>, accepted')
  BY DEF Truthful
<1>4. LastInv'
  BY DEF LastInv
<1> QED
  BY <1>1, <1>2, <1>3, <1>4, ReplayStep

LEMMA StatementThrowsKeeps == ASSUME ExportInv, StatementThrows PROVE ExportInv'
<1>1. faulted' = TRUE /\ UNCHANGED <<row, accepted, outcome, overlapped, queueVars>>
  BY DEF StatementThrows
<1>2. CASE /\ \/ worker.stage = "deliver" /\ Len(worker.results) = Len(ConnOf)
              \/ worker.stage = "catch"
              \/ worker.stage = "waiting" /\ running # {}
           /\ worker' = [worker EXCEPT !.stage = IF @ = "deliver" THEN "catch" ELSE "throw"]
           /\ UNCHANGED replay
  <2>1. row.status # "completed" /\ AtRest
    BY <1>2, NotYetCompleted
  <2>2. JobInv'
    BY <1>1, JobStays DEF ExportInv
  <2>3. \/ worker' = [worker EXCEPT !.stage = "catch"]
        \/ worker' = [worker EXCEPT !.stage = "throw"]
    BY <1>2
  <2>4. CASE worker' = [worker EXCEPT !.stage = "catch"]
    BY <1>1, <1>2, <2>1, <2>2, <2>4, HandlerMoves
  <2>5. CASE worker' = [worker EXCEPT !.stage = "throw"]
    BY <1>1, <1>2, <2>1, <2>2, <2>5, HandlerMoves
  <2> QED
    BY <2>3, <2>4, <2>5
<1>3. CASE /\ \E r \in Replays :
                 /\ Busy(r)
                 /\ replay[r].stage = "deliver" => replay[r].todo = <<>>
                 /\ replay' = [replay EXCEPT ![r] = NoReplay("done")]
           /\ UNCHANGED worker
  <2>1. PICK r \in Replays :
           /\ Busy(r) /\ replay' = [replay EXCEPT ![r] = NoReplay("done")]
    BY <1>3
  <2> QED
    BY <1>1, <1>3, <2>1, ReplayGone
<1> QED
  BY <1>2, <1>3 DEF StatementThrows

LEMMA ExportStutters == ASSUME ExportInv, UNCHANGED vars PROVE ExportInv'
<1>1. UNCHANGED <<row, worker, replay, accepted, outcome, overlapped, faulted, queueVars>>
  BY DEF vars, ghosts
<1>2. JobInv' /\ running' = running
  BY <1>1, JobStays DEF ExportInv
<1>3. ShapeInv'
  BY <1>1 DEF ExportInv, ShapeInv, Aligned, Full, Busy
<1>4. StageInv'
  BY <1>1, <1>2 DEF ExportInv, StageInv, Busy
<1>5. TruthInv'
  BY <1>1 DEF ExportInv, TruthInv
<1>6. LastInv'
  BY <1>1 DEF ExportInv, LastInv, AtRest, Busy
<1> QED
  BY <1>2, <1>3, <1>4, <1>5, <1>6 DEF ExportInv

LEMMA ProcessKeeps == ASSUME ExportInv, Process PROVE ExportInv'
<1>1. CASE EnqueueExport
  BY <1>1, EnqueueExportKeeps
<1>2. CASE \E throws \in BOOLEAN : GenerateArtifact(throws)
  BY <1>2, GenerateKeeps
<1>3. CASE \E status \in Outcome : DeliverNext(status)
  BY <1>3, DeliverNextKeeps
<1>4. CASE WriteCompleted
  BY <1>4, WriteCompletedKeeps
<1>5. CASE WriteFailed
  BY <1>5, WriteFailedKeeps
<1>6. ASSUME NEW job \in running, StartProcessing(job) PROVE ExportInv'
  BY <1>6, StartProcessingKeeps
<1>7. ASSUME NEW job \in running, Resolve(job) PROVE ExportInv'
  BY <1>7, ResolveKeeps
<1>8. ASSUME NEW job \in running, Throw(job) PROVE ExportInv'
  BY <1>8, ThrowKeeps
<1> QED
  BY <1>1, <1>2, <1>3, <1>4, <1>5, <1>6, <1>7, <1>8 DEF Process

LEMMA ReplayKeeps == ASSUME ExportInv, NEW r \in Replays, Replay(r) PROVE ExportInv'
<1>1. CASE LoadArtifact(r)
  BY <1>1, LoadKeeps
<1>2. CASE \E status \in Outcome : Redeliver(r, status)
  BY <1>2, RedeliverKeeps
<1>3. CASE WriteReplay(r)
  BY <1>3, WriteReplayKeeps
<1> QED
  BY <1>1, <1>2, <1>3 DEF Replay

LEMMA ExportKept == ExportInv /\ [Next]_vars => ExportInv'
<1> SUFFICES ASSUME ExportInv, [Next]_vars PROVE ExportInv'
  OBVIOUS
<1>1. CASE InsertExport
  BY <1>1, InsertExportKeeps
<1>2. CASE Process
  BY <1>2, ProcessKeeps
<1>3. ASSUME NEW r \in Replays, NEW connectionIds \in SUBSET Conns, NEW failedOnly \in BOOLEAN,
             StartReplay(r, connectionIds, failedOnly)
      PROVE  ExportInv'
  BY <1>3, StartReplayKeeps
<1>4. ASSUME NEW r \in Replays, Replay(r) PROVE ExportInv'
  BY <1>4, ReplayKeeps
<1>5. CASE StatementThrows
  BY <1>5, StatementThrowsKeeps
<1>6. CASE Restart
  BY <1>6, RestartKeeps
<1>7. CASE UNCHANGED vars
  BY <1>7, ExportStutters
<1> QED
  BY <1>1, <1>2, <1>3, <1>4, <1>5, <1>6, <1>7 DEF Next

LEMMA ExportInvariant == Spec => []ExportInv
BY ExportStarts, ExportKept, PTL DEF Spec

----------------------------------------------------------------------------
(* Theorems about exports *)

\* Whatever the targets, however many replays run, overlap, fail or lose each
\* other's results, and wherever the process dies: a result says delivered, and
\* the export is reported as delivered, only if a delivery to that connection, or
\* to each, did resolve (exports.service.ts L211-241, L331-352, L913-940,
\* L1067-1088).
THEOREM DeliveriesAreTrue == Spec => []RecordedDeliveriesHappened
<1>1. ExportInv => RecordedDeliveriesHappened
  <2> SUFFICES ASSUME ExportInv, row.status = "completed"
               PROVE  /\ \A c \in Conns :
                            "delivered" \in RecordedFor(row.results, c) => c \in accepted
                      /\ resolveDeliveryStatus(row.results) = "delivered" => accepted = Conns
    BY DEF RecordedDeliveriesHappened
  <2>1. Full(row.results) /\ Truthful(row.results, accepted) /\ accepted \subseteq Conns
    BY DEF ExportInv, ShapeInv, TruthInv
  <2>2. /\ DOMAIN row.results = Targets
        /\ \A n \in Targets : row.results[n].connectionId = ConnOf[n]
    BY <2>1, TargetsAre DEF Full, Aligned
  <2>3. ASSUME NEW c \in Conns, "delivered" \in RecordedFor(row.results, c) PROVE c \in accepted
    BY <2>1, <2>3 DEF RecordedFor, Truthful
  <2>4. ASSUME resolveDeliveryStatus(row.results) = "delivered" PROVE accepted = Conns
    <3>1. \A n \in Targets : row.results[n].status = "delivered"
      BY <2>2, <2>4 DEF resolveDeliveryStatus
    <3>2. \A n \in Targets : ConnOf[n] \in accepted
      BY <2>1, <2>2, <3>1 DEF Truthful
    <3> QED
      BY <2>1, <3>2 DEF Conns
  <2> QED
    BY <2>3, <2>4
<1> QED
  BY <1>1, ExportInvariant, PTL

\* As long as no two replays overlap and no statement throws, an export at rest
\* has for every connection, as its last result, the outcome of the last delivery
\* to it, whatever subset each of the replays was asked to repeat and however many
\* targets share a connection: mergeDeliveryResults loses nothing and resurrects
\* nothing (exports.service.ts L158-241, L913-940).
THEOREM LastOutcomesAreKept == Spec => []RecordedIsLastOutcome
<1>1. ExportInv => RecordedIsLastOutcome
  <2> SUFFICES ASSUME ExportInv, ~overlapped, ~faulted,
                      row.status = "completed", \A r \in Replays : ~Busy(r), NEW c \in Conns
               PROVE  /\ RecordedFor(row.results, c) # {}
                      /\ LastFor(row.results, c).status = outcome[c]
    BY DEF RecordedIsLastOutcome
  <2>1. Full(row.results) /\ row.results \in Seq(DeliveryResult)
    BY DEF ExportInv, ShapeInv
  <2>2. /\ DOMAIN row.results = Targets
        /\ \A n \in Targets : row.results[n].connectionId = ConnOf[n]
    BY <2>1, TargetsAre DEF Full, Aligned
  <2>3. RecordedFor(row.results, c) # {}
    BY <2>2 DEF RecordedFor, Conns
  <2>4. LastAre(row.results, outcome)
    BY DEF ExportInv, LastInv, AtRest
  <2>5. PICK n \in DOMAIN row.results :
           /\ LastFor(row.results, c) = row.results[n] /\ row.results[n].connectionId = c
           /\ \A m \in n + 1 .. Len(row.results) : row.results[m].connectionId # c
    BY <2>1, <2>3, LastIsLast
  <2> QED
    BY <2>3, <2>4, <2>5 DEF LastAre
<1> QED
  BY <1>1, ExportInvariant, PTL

=============================================================================
