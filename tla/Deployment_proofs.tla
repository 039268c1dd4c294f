-------------------------- MODULE Deployment_proofs --------------------------
(***************************************************************************)
(* Proofs about the inventory, the maintenance window and the DNS registry.*)
(*                                                                         *)
(* The window, for every expression and every instant: the loop over one   *)
(* week of minutes is long enough, and what it finds is, for an expression *)
(* with a minute, an hour and at most a weekday, when cron fires next; so  *)
(* every look an agent takes satisfies NextOpenIsNext.                     *)
(*                                                                         *)
(* The inventory, for every set of files: a spec at work has its map and   *)
(* its lists to itself, so that laying a layer on it writes neither to a   *)
(* profile nor to a node that is finished, and it amounts to the layers so *)
(* far (IInv).                                                             *)
(*                                                                         *)
(* The registry, for every number of nodes and passes: a record is held by *)
(* a node that will delete it, about to be saved, or lost (DnsInv).        *)
(***************************************************************************)
EXTENDS Deployment, DnsRegistry, FiniteSetTheorems, WellFoundedInduction, TLAPS

\* t consists of q times b and a rest r.  Without its definition a step can cite a fact
\* about t, b, q and r; with it the fact is arithmetic.
Parts(t, b, q, r) == t \in Int /\ q \in Int /\ r \in 0 .. b - 1 /\ t = b * q + r

LEMMA By60 ==
  \A t, q, r : Parts(t, 60, q, r) => t \div 60 = q /\ t % 60 = r
  BY SMTT(20) DEF Parts

LEMMA By24 ==
  \A t, q, r : Parts(t, 24, q, r) => t % 24 = r
  BY SMTT(20) DEF Parts

LEMMA By1440 ==
  \A t, q, r : Parts(t, 1440, q, r) => t \div 1440 = q
  BY SMTT(20) DEF Parts

LEMMA By7 ==
  \A t, q, r : Parts(t, 7, q, r) => t % 7 = r
  BY SMTT(20) DEF Parts

LEMMA ByWeek ==
  \A t \in Int : \E q, r : Parts(t, 10080, q, r)
<1>1. \A t \in Int : Parts(t, 10080, t \div 10080, t % 10080)
  BY SMTT(20) DEF Parts
<1> QED BY <1>1

\* Day q, hour h, minute m.
Falls(t, q, h, m) ==
  /\ t \in Int /\ q \in Int /\ h \in 0 .. 23 /\ m \in 0 .. 59
  /\ t = 1440 * q + 60 * h + m

\* Every instant is some day's some hour's some minute.
LEMMA Instant ==
  ASSUME NEW t \in Int
  PROVE  \E q, h, m : Falls(t, q, h, m)
<1>1. Parts(t, 60, t \div 60, t % 60)
  BY SMTT(20) DEF Parts
<1>2. PICK u, m : Parts(t, 60, u, m)
  BY <1>1
<1>3. u \in Int
  BY <1>2 DEF Parts
<1>4. Parts(u, 24, u \div 24, u % 24)
  BY <1>3, SMTT(20) DEF Parts
<1>5. PICK q, h : Parts(u, 24, q, h)
  BY <1>4
<1>6. Falls(t, q, h, m)
  BY <1>2, <1>5 DEF Parts, Falls
<1> QED BY <1>6

\* What the fields of an instant are.
LEMMA FieldsMeet ==
  \A t, q, h, m : Falls(t, q, h, m) => Minute(t) = m /\ Hour(t) = h /\ Weekday(t) = q % 7
<1>1. SUFFICES ASSUME NEW t, NEW q, NEW h, NEW m, Falls(t, q, h, m)
               PROVE  Minute(t) = m /\ Hour(t) = h /\ Weekday(t) = q % 7
  OBVIOUS
<1>2. Parts(t, 60, 24 * q + h, m)
  BY <1>1 DEF Falls, Parts
<1>3. t % 60 = m /\ t \div 60 = 24 * q + h
  BY <1>2, By60
<1>4. Parts(24 * q + h, 24, q, h)
  BY <1>1 DEF Falls, Parts
<1>5. (24 * q + h) % 24 = h
  BY <1>4, By24
<1>6. Parts(t, 1440, q, 60 * h + m)
  BY <1>1 DEF Falls, Parts
<1>7. t \div 1440 = q
  BY <1>6, By1440
<1> QED
  BY <1>3, <1>5, <1>7 DEF Minute, Hour, Weekday, HourLength, DayLength

\* Once a week every window is open: at the minute its fields name.
LEMMA OpensWeekly ==
  ASSUME NEW win \in Windows, NEW from \in Nat
  PROVE  \E i \in 1 .. Week : IsOpen(win, from + i)
<1>1. PICK d \in 0 .. 6 : d = IF win.weekday = AnyDay THEN 0 ELSE win.weekday
  BY DEF Windows, AnyDay
<1>2. PICK h \in 0 .. 23, m \in 0 .. 59 : h = win.hour /\ m = win.minute
  BY DEF Windows
<1>3. from - (1440 * d + 60 * h + m) \in Int
  OBVIOUS
<1>4. PICK k, r : Parts(from - (1440 * d + 60 * h + m), 10080, k, r)
  BY <1>3, ByWeek
<1>5. 10080 - r \in 1 .. Week /\ k \in Int /\ r \in Int
  BY <1>4 DEF Parts, Week
<1>6. Falls(from + (10080 - r), 7 * (k + 1) + d, h, m)
  BY <1>4 DEF Parts, Falls
<1>7. /\ Minute(from + (10080 - r)) = m
      /\ Hour(from + (10080 - r)) = h
      /\ Weekday(from + (10080 - r)) = (7 * (k + 1) + d) % 7
  BY <1>6, FieldsMeet
<1>8. Parts(7 * (k + 1) + d, 7, k + 1, d)
  BY <1>5 DEF Parts
<1>9. (7 * (k + 1) + d) % 7 = d
  BY <1>8, By7
<1>10. IsOpen(win, from + (10080 - r))
  BY <1>1, <1>2, <1>7, <1>9 DEF IsOpen
<1> QED
  BY <1>5, <1>10

\* Of a set of naturals that is not empty one is the smallest.
LEMMA SmallestOf ==
  ASSUME NEW S \in SUBSET Nat, S # {}
  PROVE  \E x \in S : \A y \in S : x <= y
<1>1. PICK x \in S : \A y \in S : ~(<<y, x>> \in OpToRel(<, Nat))
  BY NatLessThanWellFounded, WFMin, Zenon
<1>2. \A y \in S : ~(y < x)
  BY <1>1 DEF OpToRel
<1> QED BY <1>2

LEMMA ParsedIsWindow ==
  ASSUME NEW expr, Parses(expr)
  PROVE  Parsed(expr) \in Windows
  BY DEF Parses, Accepts, Parsed, FieldValue, Windows, AnyDay, Star

\* A window that was closed opens at its minute: a minute later it would have been open by then.
LEMMA OpensOnTheMinute ==
  ASSUME NEW win \in Windows, NEW t \in Int, IsOpen(win, t), ~IsOpen(win, t - 1)
  PROVE  Minute(t) = win.minute
<1>1. PICK q, h, m : Falls(t, q, h, m)
  BY Instant
<1>2. Minute(t) = m /\ Hour(t) = h /\ Weekday(t) = q % 7
  BY <1>1, FieldsMeet
<1>3. m \in 0 .. 59 /\ win.minute \in 0 .. 59 /\ m >= win.minute
  BY <1>1, <1>2 DEF Windows, IsOpen, Falls
<1>4. SUFFICES ASSUME m > win.minute PROVE FALSE
  BY <1>2, <1>3
<1>5. Falls(t - 1, q, h, m - 1)
  BY <1>1, <1>3, <1>4 DEF Falls
<1>6. Minute(t - 1) = m - 1 /\ Hour(t - 1) = h /\ Weekday(t - 1) = q % 7
  BY <1>5, FieldsMeet
<1> QED
  BY <1>2, <1>3, <1>4, <1>6 DEF IsOpen

\* For an expression with a minute, an hour and at most a weekday, the minutes at which cron
\* fires are those at which the window opens.
LEMMA FiresAtOpening ==
  ASSUME NEW expr, Parses(expr), NamesAnHour(expr), NEW t
  PROVE  CronFires(expr, t) <=> /\ Minute(t) = Parsed(expr).minute
                                /\ IsOpen(Parsed(expr), t)
<1> DEFINE win == Parsed(expr)
<1>1. win.minute = expr[1] /\ win.hour = expr[2] /\ win.minute \in 0 .. 59
  BY DEF Parsed, FieldValue, NamesAnHour, Parses, Accepts
<1>2. IF expr[5] = Star THEN win.weekday = AnyDay
      ELSE win.weekday = expr[5] % 7 /\ win.weekday # AnyDay
  BY DEF Parsed, AnyDay, Star, Parses, Accepts
<1>3. CronFires(expr, t) <=> /\ Minute(t) = expr[1] /\ Hour(t) = expr[2]
                             /\ expr[5] = Star \/ Weekday(t) = expr[5] % 7
  BY DEF CronFires, Matches, DayMatches, NamesAnHour
<1> HIDE DEF win
<1>4. CronFires(expr, t) <=> Minute(t) = win.minute /\ IsOpen(win, t)
  BY <1>1, <1>2, <1>3 DEF IsOpen
<1> QED BY <1>4 DEF win

\* Whatever expression parses and whenever it is asked, NextOpen finds the first minute at
\* which the window is open, within a week; asked while the window is closed, of an
\* expression with a minute, an hour and at most a weekday, it finds when cron fires next.
THEOREM NextOpenFindsTheNext ==
  ASSUME NEW expr, Parses(expr), NEW from \in Nat
  PROVE  LET win == Parsed(expr)
             next == NextOpen(win, from)
         IN /\ next \in from + 1 .. from + Week
            /\ IsOpen(win, next)
            /\ \A t \in from + 1 .. next - 1 : ~IsOpen(win, t)
            /\ ~IsOpen(win, from) /\ NamesAnHour(expr) => FiresNext(expr, from, next)
<1> DEFINE win == Parsed(expr)
           next == NextOpen(win, from)
           S == {i \in 1 .. Week : IsOpen(win, from + i)}
<1>1. win \in Windows
  BY ParsedIsWindow
<1>2. Week \in Nat
  BY DEF Week
<1>3. S # {} /\ S \in SUBSET Nat
  <2>1. \E i \in 1 .. Week : IsOpen(win, from + i)
    BY <1>1, OpensWeekly
  <2>2. S # {}
    BY <2>1
  <2>3. \A j \in 1 .. Week : j \in Nat
    BY <1>2
  <2>4. S \in SUBSET Nat
    BY <2>3
  <2> QED BY <2>2, <2>4
<1>4. PICK x \in S : \A y \in S : x <= y
  BY <1>3, SmallestOf
<1>5. \E i \in 1 .. Week : FirstOpen(win, from, i)
  <2>1. ASSUME NEW j \in 1 .. x - 1 PROVE ~IsOpen(win, from + j)
    <3>1. j \in 1 .. Week /\ ~(x <= j)
      BY <1>2
    <3> QED BY <1>4, <3>1
  <2>2. FirstOpen(win, from, x)
    BY <2>1 DEF FirstOpen
  <2> QED BY <2>2
<1> DEFINE i == CHOOSE j \in 1 .. Week : FirstOpen(win, from, j)
<1>6. i \in 1 .. Week /\ FirstOpen(win, from, i)
  BY <1>5
<1>7. next = from + i
  BY <1>5 DEF NextOpen, FirstOpen
<1> HIDE DEF i, win, next
<1>8. next \in from + 1 .. from + Week /\ IsOpen(win, next)
  BY <1>2, <1>6, <1>7 DEF FirstOpen
<1>9. ASSUME NEW t \in from + 1 .. next - 1
      PROVE  ~IsOpen(win, t)
  <2>1. t - from \in 1 .. i - 1 /\ from + (t - from) = t
    BY <1>2, <1>6, <1>7, <1>9
  <2> QED BY <2>1, <1>6 DEF FirstOpen
<1>10. ASSUME ~IsOpen(win, from), NamesAnHour(expr)
       PROVE  FiresNext(expr, from, next)
  <2>1. next \in Int /\ next > from /\ (next - 1 = from \/ next - 1 \in from + 1 .. next - 1)
    BY <1>2, <1>8
  <2>2. ~IsOpen(win, next - 1)
    BY <2>1, <1>9, <1>10
  <2>3. Minute(next) = win.minute
    BY <1>1, <1>8, <2>1, <2>2, OpensOnTheMinute
  <2>4. CronFires(expr, next)
    BY <1>8, <1>10, <2>3, FiresAtOpening DEF win
  <2>5. ASSUME NEW u \in from + 1 .. next - 1 PROVE ~CronFires(expr, u)
    BY <1>9, <1>10, FiresAtOpening DEF win
  <2> QED
    BY <2>1, <2>4, <2>5 DEF FiresNext
<1> QED
  BY <1>8, <1>9, <1>10 DEF win, next
-----------------------------------------------------------------------------
\* What the agent has seen was computed from the schedule that is there: it is deployed
\* once, before the first look.
SeenInv ==
  /\ seen # NotLooked => pc = "gone"
  /\ seen.verdict \in {"open", "closed"} =>
       /\ Parses(schedule)
       /\ seen.at \in Instants
       /\ seen.next = NextOpen(Parsed(schedule), seen.at)
       /\ seen.verdict = "closed" => ~IsOpen(Parsed(schedule), seen.at)

LEMMA SeenInvStep ==
  SeenInv /\ [DeploymentNext]_deploymentVars => SeenInv'
<1> SUFFICES ASSUME SeenInv, [DeploymentNext]_deploymentVars
             PROVE  SeenInv'
  OBVIOUS
<1>1. CASE Expand
  <2>1. UNCHANGED <<schedule, seen>> /\ pc # "gone"
    BY <1>1 DEF Expand, Next, LoadProfiles, KeepNode, SkipDisabled, StartNode, MergeProfile,
                   UnknownProfile, FinishNode, Return
  <2> QED
    BY <2>1 DEF SeenInv, NotLooked
<1>2. CASE Deploy
  BY <1>2 DEF Deploy, SeenInv, NotLooked
<1>3. CASE Look
  <2>1. PICK t \in Instants :
          seen' = IF ~Parses(schedule) THEN [NotLooked EXCEPT !.at = t, !.verdict = "invalid"]
                  ELSE [at |-> t,
                        verdict |-> IF IsOpen(Parsed(schedule), t) THEN "open" ELSE "closed",
                        next |-> NextOpen(Parsed(schedule), t)]
    BY <1>3 DEF Look
  <2>2. pc' = "gone" /\ schedule' = schedule
    BY <1>3 DEF Look, vars
  <2>3. CASE Parses(schedule)
    BY <2>1, <2>2, <2>3 DEF SeenInv
  <2>4. CASE ~Parses(schedule)
    BY <2>1, <2>2, <2>4 DEF SeenInv, NotLooked
  <2> QED
    BY <2>3, <2>4
<1>4. CASE UNCHANGED deploymentVars
  BY <1>4 DEF deploymentVars, vars, SeenInv
<1> QED
  BY <1>1, <1>2, <1>3, <1>4 DEF DeploymentNext

LEMMA SeenInvImplies ==
  SeenInv => NextOpenIsNext
<1> SUFFICES ASSUME SeenInv, seen.verdict \in {"open", "closed"}
             PROVE  /\ seen.next \in seen.at + 1 .. seen.at + Week
                    /\ IsOpen(Parsed(schedule), seen.next)
                    /\ \A t \in seen.at + 1 .. seen.next - 1 : ~IsOpen(Parsed(schedule), t)
                    /\ seen.verdict = "closed" /\ NamesAnHour(schedule)
                         => FiresNext(schedule, seen.at, seen.next)
  BY DEF NextOpenIsNext
<1>1. /\ Parses(schedule)
      /\ seen.at \in Nat
      /\ seen.next = NextOpen(Parsed(schedule), seen.at)
      /\ seen.verdict = "closed" => ~IsOpen(Parsed(schedule), seen.at)
  BY InstantsAssumption DEF SeenInv
<1> QED
  BY <1>1, NextOpenFindsTheNext

\* Every look an agent takes at its maintenance window, with whatever schedule the inventory
\* gave its host, finds the next opening.
THEOREM NextOpenTheorem == DeploymentSpec => []NextOpenIsNext
<1>1. DeploymentInit => SeenInv
  BY DEF DeploymentInit, SeenInv, NotLooked
<1> QED
  BY <1>1, SeenInvStep, SeenInvImplies, PTL DEF DeploymentSpec

-----------------------------------------------------------------------------
(* Lists and maps.                                                         *)

IsList(x) == x \in Seq(ToSet(x))
IsMap(x) == x = [k \in DOMAIN x |-> x[k]]

LEMMA ListIs ==
  ASSUME NEW x, IsList(x)
  PROVE  Len(x) \in Nat /\ DOMAIN x = 1 .. Len(x) /\ x = [k \in 1 .. Len(x) |-> x[k]]
BY DEF IsList

LEMMA ListOf ==
  ASSUME NEW n \in Nat, NEW x, x = [k \in 1 .. n |-> x[k]]
  PROVE  IsList(x) /\ Len(x) = n
BY DEF IsList, ToSet

LEMMA EmptyList ==
  ASSUME NEW x, IsList(x)
  PROVE  Len(x) = 0 <=> x = <<>>
BY DEF IsList

LEMMA ListsAgree ==
  ASSUME NEW x, NEW y, IsList(x), IsList(y), Len(x) = Len(y), \A k \in 1 .. Len(x) : x[k] = y[k]
  PROVE  x = y
<1>1. x = [k \in 1 .. Len(x) |-> x[k]] /\ y = [k \in 1 .. Len(y) |-> y[k]]
  BY ListIs
<1>2. [k \in 1 .. Len(x) |-> x[k]] = [k \in 1 .. Len(y) |-> y[k]]
  OBVIOUS
<1> QED BY <1>1, <1>2, Zenon

\* The first n elements.
FirstOf(x, n) == [k \in 1 .. n |-> x[k]]

LEMMA FirstOfIs ==
  ASSUME NEW n \in Nat, NEW x
  PROVE  IsList(FirstOf(x, n)) /\ Len(FirstOf(x, n)) = n /\ \A k \in 1 .. n : FirstOf(x, n)[k] = x[k]
<1>1. PICK z : z = FirstOf(x, n)
  OBVIOUS
<1>2. z = [k \in 1 .. n |-> z[k]] /\ \A k \in 1 .. n : z[k] = x[k]
  BY <1>1 DEF FirstOf
<1> QED BY <1>1, <1>2, ListOf

IsJoin(z, x, y) == z = x \o y

LEMMA JoinIs ==
  ASSUME NEW x, NEW y, IsList(x), IsList(y), NEW z, IsJoin(z, x, y)
  PROVE  /\ IsList(z) /\ Len(z) = Len(x) + Len(y)
         /\ \A k \in 1 .. Len(x) : z[k] = x[k]
         /\ \A k \in 1 .. Len(y) : z[Len(x) + k] = y[k]
<1> DEFINE S == ToSet(x) \cup ToSet(y)
<1>1. x \in Seq(S) /\ y \in Seq(S)
  BY DEF IsList, ToSet
<1> HIDE DEF S
<1>2. z \in Seq(S) /\ Len(z) = Len(x) + Len(y) /\ Len(x) \in Nat /\ Len(y) \in Nat
  BY <1>1 DEF IsJoin
<1>3. IsList(z)
  <2>1. PICK j \in Seq(S) : j = z
    BY <1>2
  <2>2. Len(j) \in Nat /\ j = [k \in 1 .. Len(j) |-> j[k]]
    OBVIOUS
  <2> QED BY <2>1, <2>2, ListOf
<1>4. \A k \in 1 .. Len(x) : z[k] = x[k]
  BY <1>1, <1>2 DEF IsJoin
<1>5. ASSUME NEW k \in 1 .. Len(y) PROVE z[Len(x) + k] = y[k]
  BY <1>1, <1>2 DEF IsJoin
<1> QED BY <1>2, <1>3, <1>4, <1>5

LEMMA JoinOf ==
  ASSUME NEW x, NEW y, NEW z, IsList(x), IsList(y), IsList(z), Len(z) = Len(x) + Len(y),
         \A k \in 1 .. Len(x) : z[k] = x[k], \A k \in 1 .. Len(y) : z[Len(x) + k] = y[k]
  PROVE  z = x \o y
<1>1. PICK j : IsJoin(j, x, y)
  BY DEF IsJoin
<1>2. /\ IsList(j) /\ Len(j) = Len(z) /\ Len(x) \in Nat /\ Len(y) \in Nat
      /\ \A k \in 1 .. Len(x) : j[k] = x[k]
      /\ \A k \in 1 .. Len(y) : j[Len(x) + k] = y[k]
  BY <1>1, JoinIs, ListIs
<1>3. ASSUME NEW k \in 1 .. Len(z) PROVE z[k] = j[k]
  <2>1. CASE k \in 1 .. Len(x)
    BY <1>2, <2>1
  <2>2. CASE k \notin 1 .. Len(x)
    <3>1. PICK i \in 1 .. Len(y) : k = Len(x) + i
      <4>1. k - Len(x) \in 1 .. Len(y) /\ k = Len(x) + (k - Len(x))
        BY <1>2, <2>2
      <4> QED BY <4>1
    <3> QED BY <1>2, <3>1
  <2> QED BY <2>1, <2>2
<1>4. z = j
  BY <1>2, <1>3, ListsAgree
<1> QED BY <1>1, <1>4 DEF IsJoin

\* Of a bounded set of numbers one is the largest.
LEMMA LargestOf ==
  ASSUME NEW n \in Nat, NEW S \in SUBSET (0 .. n), S # {}
  PROVE  LastOf(S) \in S /\ \A j \in S : j <= LastOf(S)
<1> DEFINE T == {n - j : j \in S}
<1>0. \A j \in S : j \in 0 .. n /\ n - j \in Nat
  OBVIOUS
<1>1. T \in SUBSET Nat /\ T # {}
  BY <1>0
<1>2. PICK t \in T : \A u \in T : t <= u
  BY <1>1, SmallestOf
<1>3. PICK j \in S : t = n - j
  BY <1>2
<1>4. \A k \in S : k <= j
  BY <1>2, <1>3
<1> QED BY <1>4 DEF LastOf

-----------------------------------------------------------------------------
(* Memory.                                                                 *)

\* The memory of a call: what was decoded from its files, and objects made since, each at an
\* address that was not in use.
IsMemory(m) ==
  /\ IsMap(m)
  /\ IsFiniteSet(DOMAIN m)
  /\ DOMAIN Decoded(job) \subseteq DOMAIN m
  /\ \A a \in DOMAIN m \ DOMAIN Decoded(job) :
       \E i \in 0 .. Cardinality(DOMAIN m) - 1 : a = <<"new", i, "new">>

LEMMA DecodedAddresses ==
  \A a \in DOMAIN Decoded(job) : a[1] \in {"cluster", "file", "node"} /\ a # Nil /\ a[1] # "new"
BY DEF Decoded, Fields, ListAddr, Nil

LEMMA FreshIsFree ==
  ASSUME NEW m, IsMemory(m)
  PROVE  Fresh(m) \notin DOMAIN m /\ Fresh(m) # Nil /\ Nil \notin DOMAIN m
<1>1. Fresh(m)[1] = "new" /\ Fresh(m)[2] = Cardinality(DOMAIN m) /\ Cardinality(DOMAIN m) \in Nat
  BY FS_CardinalityType DEF Fresh, IsMemory
<1>2. \A i \in 0 .. Cardinality(DOMAIN m) - 1 :
        <<"new", i, "new">> # Fresh(m) /\ <<"new", i, "new">> # Nil
  BY <1>1 DEF Fresh, Nil
<1>3. Fresh(m) # Nil
  BY <1>1 DEF Nil, Fresh
<1> QED BY <1>1, <1>2, <1>3, DecodedAddresses DEF IsMemory

LEMMA StoreIs ==
  ASSUME NEW m, IsMemory(m), NEW a \in DOMAIN m \cup {Fresh(m)}, NEW object
  PROVE  /\ IsMemory(Store(m, a, object))
         /\ \A b : b \in DOMAIN Store(m, a, object) <=> b \in DOMAIN m \/ b = a
         /\ Store(m, a, object)[a] = object
         /\ \A b \in DOMAIN m : b # a => Store(m, a, object)[b] = m[b]
<1> DEFINE s == Store(m, a, object)
<1>1. /\ DOMAIN s = DOMAIN m \cup {a}
      /\ s[a] = object
      /\ \A b \in DOMAIN m \ {a} : s[b] = m[b]
      /\ IsMap(s)
  BY DEF Store, IsMap
<1>2. IsFiniteSet(DOMAIN m) /\ Cardinality(DOMAIN m) \in Nat
  BY FS_CardinalityType DEF IsMemory
<1>3. IsFiniteSet(DOMAIN s)
  BY <1>1, <1>2, FS_AddElement
<1>4. ASSUME NEW b \in DOMAIN s \ DOMAIN Decoded(job)
      PROVE  \E i \in 0 .. Cardinality(DOMAIN s) - 1 : b = <<"new", i, "new">>
  <2>1. CASE a \in DOMAIN m
    <3>1. DOMAIN s = DOMAIN m
      BY <1>1, <2>1
    <3> QED BY <3>1 DEF IsMemory
  <2>2. CASE a = Fresh(m) /\ a \notin DOMAIN m
    <3>1. Cardinality(DOMAIN s) = Cardinality(DOMAIN m) + 1
      BY <1>1, <1>2, <2>2, FS_AddElement
    <3>2. CASE b = a
      BY <1>2, <2>2, <3>1, <3>2 DEF Fresh
    <3>3. CASE b # a
      <4>1. PICK i \in 0 .. Cardinality(DOMAIN m) - 1 : b = <<"new", i, "new">>
        BY <1>1, <3>3 DEF IsMemory
      <4>2. i \in 0 .. Cardinality(DOMAIN s) - 1
        BY <1>2, <3>1
      <4> QED BY <4>1, <4>2
    <3> QED BY <3>2, <3>3
  <2> QED BY <2>1, <2>2
<1>5. DOMAIN Decoded(job) \subseteq DOMAIN s
  BY <1>1 DEF IsMemory
<1> QED BY <1>1, <1>3, <1>4, <1>5 DEF IsMemory

\* A slice of m: an array that is there, with so many elements.
IsSlice(m, s) ==
  /\ s = [array |-> s.array, len |-> s.len]
  /\ s.array \in DOMAIN m \cup {Nil}
  /\ s.array # Nil => IsList(m[s.array])
  /\ s.len \in 0 .. Cap(m, s)

LEMMA SliceIs ==
  ASSUME NEW m, NEW s, IsSlice(m, s)
  PROVE  /\ Cap(m, s) \in Nat /\ s.len \in Nat
         /\ IsList(Elems(m, s)) /\ Len(Elems(m, s)) = s.len
         /\ \A k \in 1 .. s.len : Elems(m, s)[k] = m[s.array][k]
<1>1. Cap(m, s) \in Nat /\ s.len \in Nat
  BY ListIs DEF IsSlice, Cap
<1> QED BY <1>1, ListOf DEF Elems

LEMMA NilSliceIs ==
  ASSUME NEW m
  PROVE  IsSlice(m, NilSlice) /\ NilSlice.array = Nil /\ NilSlice.len = 0 /\ Elems(m, NilSlice) = <<>>
<1>1. IsSlice(m, NilSlice) /\ NilSlice.array = Nil /\ NilSlice.len = 0
  BY DEF IsSlice, NilSlice, Cap
<1> QED BY <1>1, SliceIs, EmptyList

\* What m keeps of old: every object, but for that at an address a.
KeepsBut(a, m, old) == DOMAIN old \subseteq DOMAIN m /\ \A b \in DOMAIN old : b # a => m[b] = old[b]
Keeps(m, old) == DOMAIN old \subseteq DOMAIN m /\ \A b \in DOMAIN old : m[b] = old[b]

IsSliceOf(s, addr, n) == s = [array |-> addr, len |-> n]

LEMMA WrittenIs ==
  ASSUME NEW m, IsMemory(m), NEW addr \in DOMAIN m \cup {Fresh(m)},
         NEW cells, IsList(cells), NEW n \in 0 .. Len(cells),
         NEW s, IsSliceOf(s, addr, n)
  PROVE  /\ IsMemory(Store(m, addr, cells)) /\ IsSlice(Store(m, addr, cells), s)
         /\ s.len = n /\ s.array = addr
         /\ Elems(Store(m, addr, cells), s) = FirstOf(cells, n)
         /\ Cap(Store(m, addr, cells), s) = Len(cells)
         /\ KeepsBut(addr, Store(m, addr, cells), m) /\ (addr = Fresh(m) => Keeps(Store(m, addr, cells), m))
<1> DEFINE new == Store(m, addr, cells)
<1>1. s = [array |-> addr, len |-> n]
  BY DEF IsSliceOf
<1>2. /\ IsMemory(new) /\ \A b : b \in DOMAIN new <=> b \in DOMAIN m \/ b = addr
      /\ new[addr] = cells /\ \A b \in DOMAIN m : b # addr => new[b] = m[b]
  BY StoreIs
<1>4. addr # Nil /\ Fresh(m) \notin DOMAIN m
  BY FreshIsFree
<1> HIDE DEF new
<1>5. IsSlice(new, s) /\ Cap(new, s) = Len(cells)
  BY <1>1, <1>2, <1>4 DEF IsSlice, Cap
<1>6. Elems(new, s) = FirstOf(cells, n)
  BY <1>1, <1>2 DEF Elems, FirstOf
<1>7. KeepsBut(addr, new, m) /\ (addr = Fresh(m) => Keeps(new, m))
  BY <1>2, <1>4 DEF Keeps, KeepsBut
<1> QED BY <1>1, <1>2, <1>5, <1>6, <1>7 DEF new

\* What an append leaves: the values are behind the elements, in the same array or in a new one.
Appended(r, m, s, values) ==
  /\ IsMemory(r.mem) /\ IsSlice(r.mem, r.slice)
  /\ r.slice.len = s.len + Len(values)
  /\ Elems(r.mem, r.slice) = Elems(m, s) \o values
  /\ \/ r.slice.array = s.array /\ KeepsBut(s.array, r.mem, m) /\ Cap(r.mem, r.slice) = Cap(m, s)
     \/ r.slice.array = Fresh(m) /\ Keeps(r.mem, m)
  /\ values = <<>> => r.mem = m /\ r.slice = s

LEMMA AppendToIs ==
  ASSUME NEW m, IsMemory(m), NEW s, IsSlice(m, s), NEW values, IsList(values),
         NEW r, r = AppendTo(m, s, values)
  PROVE  Appended(r, m, s, values)
<1> DEFINE n == s.len + Len(values)
           Filled(size) == [k \in 1 .. size |-> IF k \in s.len + 1 .. n THEN values[k - s.len]
                                                ELSE IF k <= Cap(m, s) THEN m[s.array][k] ELSE Blank]
           Written(cells) == /\ IsList(cells) /\ n <= Len(cells)
                             /\ FirstOf(cells, n) = Elems(m, s) \o values
<1>1. Len(values) \in Nat /\ s.len \in Nat /\ Cap(m, s) \in Nat /\ s.len <= Cap(m, s) /\ n \in Nat
  BY ListIs, SliceIs DEF IsSlice
<1>2. ASSUME NEW size \in Nat, n <= size
      PROVE  \E cells : cells = Filled(size) /\ Written(cells) /\ Len(cells) = size
  <2>1. PICK cells : cells = Filled(size)
    OBVIOUS
  <2>2. cells = [k \in 1 .. size |-> cells[k]]
    BY <2>1
  <2>3. IsList(cells) /\ Len(cells) = size
    BY <2>2, ListOf
  <2>4. ASSUME NEW k \in 1 .. s.len PROVE cells[k] = m[s.array][k]
    <3>1. k \in 1 .. size /\ k \notin s.len + 1 .. n /\ k <= Cap(m, s)
      BY <1>1, <1>2
    <3> QED BY <2>1, <3>1
  <2>5. ASSUME NEW k \in 1 .. Len(values) PROVE cells[s.len + k] = values[k]
    <3>1. s.len + k \in 1 .. size /\ s.len + k \in s.len + 1 .. n /\ (s.len + k) - s.len = k
      BY <1>1, <1>2
    <3> QED BY <2>1, <3>1
  <2>6. PICK z : z = FirstOf(cells, n)
    OBVIOUS
  <2>7. IsList(z) /\ Len(z) = n /\ \A k \in 1 .. n : z[k] = cells[k]
    BY <1>1, <2>6, FirstOfIs
  <2>9. PICK x : x = Elems(m, s)
    OBVIOUS
  <2>10. IsList(x) /\ Len(x) = s.len /\ \A k \in 1 .. s.len : x[k] = m[s.array][k]
    BY <2>9, SliceIs
  <2>11. ASSUME NEW k \in 1 .. Len(x) PROVE z[k] = x[k]
    BY <1>1, <2>4, <2>7, <2>10
  <2>12. ASSUME NEW k \in 1 .. Len(values) PROVE z[Len(x) + k] = values[k]
    <3>1. Len(x) + k \in 1 .. n
      BY <1>1, <2>10
    <3> QED BY <2>5, <2>7, <2>10, <3>1
  <2>13. z = x \o values
    BY <2>7, <2>10, <2>11, <2>12, JoinOf
  <2>14. Written(cells)
    BY <1>2, <2>3, <2>6, <2>9, <2>13
  <2> QED BY <2>1, <2>3, <2>14
<1>3. ASSUME NEW addr \in DOMAIN m \cup {Fresh(m)}, NEW cells, Written(cells),
             r = [mem |-> Store(m, addr, cells), slice |-> [array |-> addr, len |-> n]]
      PROVE  /\ IsMemory(r.mem) /\ IsSlice(r.mem, r.slice)
             /\ r.slice.len = n /\ r.slice.array = addr
             /\ Elems(r.mem, r.slice) = Elems(m, s) \o values
             /\ Cap(r.mem, r.slice) = Len(cells)
             /\ KeepsBut(addr, r.mem, m) /\ (addr = Fresh(m) => Keeps(r.mem, m))
  <2>1. n \in 0 .. Len(cells) /\ IsList(cells)
    BY <1>1, <1>3, ListIs
  <2>2. r.mem = Store(m, addr, cells) /\ IsSliceOf(r.slice, addr, n)
    BY <1>3 DEF IsSliceOf
  <2> HIDE DEF n
  <2>3. /\ IsMemory(r.mem) /\ IsSlice(r.mem, r.slice)
        /\ r.slice.len = n /\ r.slice.array = addr
        /\ Elems(r.mem, r.slice) = FirstOf(cells, n) /\ Cap(r.mem, r.slice) = Len(cells)
        /\ KeepsBut(addr, r.mem, m) /\ (addr = Fresh(m) => Keeps(r.mem, m))
    BY <2>1, <2>2, WrittenIs
  <2> QED BY <1>3, <2>3
<1>4. CASE values = <<>>
  <2>1. r.mem = m /\ r.slice = s /\ Len(values) = 0
    BY <1>4, EmptyList DEF AppendTo
  <2>2. PICK x : x = Elems(m, s)
    OBVIOUS
  <2>3. IsList(x)
    BY <2>2, SliceIs
  <2>4. x = x \o values
    BY <1>4, <2>3 DEF IsList
  <2> QED BY <1>1, <2>1, <2>2, <2>4 DEF Keeps, KeepsBut, Appended
<1>5. CASE values # <<>> /\ n <= Cap(m, s)
  <2>1. s.array \in DOMAIN m
    BY <1>1, <1>5, EmptyList DEF IsSlice, Cap
  <2>2. PICK cells : cells = Filled(Cap(m, s)) /\ Written(cells) /\ Len(cells) = Cap(m, s)
    BY <1>1, <1>2, <1>5
  <2>3. r = [mem |-> Store(m, s.array, cells), slice |-> [array |-> s.array, len |-> n]]
    BY <1>5, <2>2 DEF AppendTo
  <2> HIDE DEF Written, Filled
  <2> HIDE DEF n
  <2>4. /\ IsMemory(r.mem) /\ IsSlice(r.mem, r.slice) /\ KeepsBut(s.array, r.mem, m)
        /\ r.slice.array = s.array /\ r.slice.len = n /\ Cap(r.mem, r.slice) = Len(cells)
        /\ Elems(r.mem, r.slice) = Elems(m, s) \o values
    BY <1>3, <2>1, <2>2, <2>3
  <2> QED BY <1>5, <2>2, <2>4 DEF Appended, n
<1>6. CASE values # <<>> /\ ~(n <= Cap(m, s))
  <2>1. PICK size \in Nat : size = Larger(n, 2 * Cap(m, s)) /\ n <= size
    BY <1>1 DEF Larger
  <2>2. PICK cells : cells = Filled(size) /\ Written(cells)
    BY <1>2, <2>1
  <2>3. r = [mem |-> Store(m, Fresh(m), cells), slice |-> [array |-> Fresh(m), len |-> n]]
    BY <1>6, <2>1, <2>2 DEF AppendTo
  <2> HIDE DEF Written, Filled
  <2> HIDE DEF n
  <2>4. /\ IsMemory(r.mem) /\ IsSlice(r.mem, r.slice) /\ Keeps(r.mem, m)
        /\ r.slice.array = Fresh(m) /\ r.slice.len = n
        /\ Elems(r.mem, r.slice) = Elems(m, s) \o values
    BY <1>3, <2>2, <2>3
  <2> QED BY <1>6, <2>4 DEF Appended, n
<1> QED BY <1>4, <1>5, <1>6

-----------------------------------------------------------------------------
(* Maps into maps.                                                         *)

\* An address of a map, or none.
IsTable(m, addr) == addr \in DOMAIN m \cup {Nil} /\ (addr # Nil => IsMap(m[addr]))

LEMMA TableIs ==
  ASSUME NEW m, IsMemory(m), NEW addr, IsTable(m, addr)
  PROVE  IsMap(Table(m, addr))
<1>1. CASE addr = Nil
  BY <1>1 DEF Table, IsMap
<1>2. CASE addr # Nil
  BY <1>2 DEF Table, IsTable
<1> QED BY <1>1, <1>2

LEMMA OverlayIs ==
  ASSUME NEW top, NEW base, IsMap(base), IsMap(top)
  PROVE  /\ IsMap(Overlay(top, base))
         /\ top = <<>> => Overlay(top, base) = base
         /\ base = <<>> => Overlay(top, base) = top
<1>1. IsMap(Overlay(top, base))
  BY DEF Overlay, IsMap
<1>2. ASSUME top = <<>> PROVE Overlay(top, base) = base
  BY <1>2 DEF Overlay, IsMap
<1>3. ASSUME base = <<>> PROVE Overlay(top, base) = top
  BY <1>3 DEF Overlay, IsMap
<1> QED BY <1>1, <1>2, <1>3

\* What PutAll leaves: the map of dst, or a new one, overlaid with that of src.
Put(r, m, dst, src) ==
  /\ IsMemory(r.mem) /\ IsTable(r.mem, r.addr)
  /\ Table(r.mem, r.addr) = Overlay(Table(m, src), Table(m, dst))
  /\ \/ r.addr = dst /\ KeepsBut(dst, r.mem, m)
     \/ r.addr = Fresh(m) /\ Keeps(r.mem, m)

LEMMA PutAllIs ==
  ASSUME NEW m, IsMemory(m), NEW dst, IsTable(m, dst), NEW src, IsTable(m, src),
         NEW r, r = PutAll(m, dst, src)
  PROVE  Put(r, m, dst, src)
<1>1. IsMap(Table(m, src)) /\ IsMap(Table(m, dst))
  BY TableIs
<1>2. Fresh(m) \notin DOMAIN m /\ Fresh(m) # Nil /\ Nil \notin DOMAIN m
  BY FreshIsFree
<1>3. CASE Table(m, src) = <<>>
  <2>1. r.mem = m /\ r.addr = dst
    BY <1>3 DEF PutAll
  <2> QED BY <1>1, <1>3, <2>1, OverlayIs DEF KeepsBut, Put
<1>4. CASE Table(m, src) # <<>> /\ dst = Nil
  <2>1. src # Nil /\ Table(m, src) = m[src]
    BY <1>4 DEF Table
  <2>2. r.mem = Store(m, Fresh(m), m[src]) /\ r.addr = Fresh(m)
    BY <1>4 DEF PutAll
  <2>3. /\ IsMemory(r.mem) /\ r.addr \in DOMAIN r.mem /\ r.mem[r.addr] = m[src]
        /\ Keeps(r.mem, m)
    BY <1>2, <2>2, StoreIs DEF Keeps
  <2>4. Table(m, dst) = <<>> /\ Table(r.mem, r.addr) = m[src]
    BY <1>2, <1>4, <2>2, <2>3 DEF Table
  <2> QED BY <1>1, <2>1, <2>2, <2>3, <2>4, OverlayIs DEF IsTable, Put
<1>5. CASE Table(m, src) # <<>> /\ dst # Nil
  <2>1. src # Nil /\ Table(m, src) = m[src] /\ Table(m, dst) = m[dst] /\ dst \in DOMAIN m
    BY <1>5 DEF Table, IsTable
  <2>2. r.mem = Store(m, dst, Overlay(m[src], m[dst])) /\ r.addr = dst
    BY <1>5 DEF PutAll
  <2>3. /\ IsMemory(r.mem) /\ r.addr \in DOMAIN r.mem /\ r.mem[r.addr] = Overlay(m[src], m[dst])
        /\ KeepsBut(dst, r.mem, m)
    BY <2>1, <2>2, StoreIs DEF KeepsBut
  <2>4. Table(r.mem, r.addr) = Overlay(m[src], m[dst])
    BY <1>5, <2>2, <2>3 DEF Table
  <2> QED BY <1>1, <2>1, <2>2, <2>3, <2>4, OverlayIs DEF IsTable, Put
<1> QED BY <1>3, <1>4, <1>5

-----------------------------------------------------------------------------
(* Lists with keys.                                                        *)

\* The indices in K are numbered from 1 on.
LEMMA RankIs ==
  ASSUME NEW n \in Nat, NEW K \in SUBSET (1 .. n)
  PROVE  /\ Cardinality(K) \in Nat
         /\ \A k \in K : Rank(K, k) \in 1 .. Cardinality(K)
         /\ \A j, k \in K : Rank(K, j) = Rank(K, k) => j = k
         /\ \A i \in 1 .. Cardinality(K) : \E k \in K : Rank(K, k) = i
<1> DEFINE Upto(k) == {j \in K : j <= k}
<1>1. IsFiniteSet(K) /\ Cardinality(K) \in Nat
  <2>1. 1 \in Int /\ n \in Int
    OBVIOUS
  <2>2. IsFiniteSet(1 .. n)
    BY <2>1, FS_Interval
  <2>3. IsFiniteSet(K)
    BY <2>2, FS_Subset
  <2> QED BY <2>3, FS_CardinalityType
<1>0. \A k \in K : k \in Int
  OBVIOUS
<1>2. ASSUME NEW k \in K
      PROVE  /\ IsFiniteSet(Upto(k)) /\ Rank(K, k) = Cardinality(Upto(k))
             /\ Rank(K, k) \in 1 .. Cardinality(K)
  <2>1. IsFiniteSet(Upto(k)) /\ Cardinality(Upto(k)) <= Cardinality(K)
    BY <1>1, FS_Subset
  <2>2. k \in Upto(k)
    OBVIOUS
  <2>3. Cardinality(Upto(k)) \in Nat /\ Cardinality(Upto(k)) # 0
    BY <2>1, <2>2, FS_EmptySet, FS_CardinalityType
  <2>4. Rank(K, k) = Cardinality(Upto(k))
    BY DEF Rank
  <2> HIDE DEF Upto
  <2> QED BY <1>1, <2>1, <2>3, <2>4
<1>3. ASSUME NEW j \in K, NEW k \in K, j < k PROVE Rank(K, j) < Rank(K, k)
  <2>1. Upto(j) \in SUBSET Upto(k) /\ k \in Upto(k) /\ k \notin Upto(j)
    <3>1. j \in Int /\ k \in Int
      BY <1>0
    <3>2. \A i \in K : i <= j => i <= k
      BY <1>0, <1>3, <3>1
    <3>3. k \in Upto(k) /\ k \notin Upto(j)
      BY <1>3, <3>1
    <3> QED BY <3>2, <3>3
  <2>2. Upto(j) # Upto(k)
    BY <2>1
  <2>3. Cardinality(Upto(j)) <= Cardinality(Upto(k)) /\ Cardinality(Upto(j)) # Cardinality(Upto(k))
    BY <1>2, <2>1, <2>2, FS_Subset
  <2> HIDE DEF Upto
  <2> QED BY <1>1, <1>2, <2>3
<1> HIDE DEF Upto
<1>4. \A j, k \in K : Rank(K, j) = Rank(K, k) => j = k
  <2>1. \A j, k \in K : j \in Int /\ k \in Int /\ Rank(K, j) \in Int /\ Rank(K, k) \in Int
    BY <1>0, <1>1, <1>2
  <2> QED BY <1>3, <2>1
<1>5. ASSUME NEW i \in 1 .. Cardinality(K) PROVE \E k \in K : Rank(K, k) = i
  <2>1. PICK f : f = [k \in K |-> Rank(K, k)]
    OBVIOUS
  <2>2. f \in [K -> 1 .. Cardinality(K)] /\ \A k \in K : f[k] = Rank(K, k)
    BY <1>2, <2>1
  <2>3. f \in Injection(K, 1 .. Cardinality(K))
    BY <1>4, <2>2 DEF Injection, IsInjective
  <2>4. IsFiniteSet(1 .. Cardinality(K)) /\ Cardinality(1 .. Cardinality(K)) = Cardinality(K)
    BY <1>1, FS_Interval
  <2>5. f \in Surjection(K, 1 .. Cardinality(K))
    BY <2>3, <2>4, FS_Injection
  <2> QED BY <2>2, <2>5 DEF Surjection
<1> QED BY <1>1, <1>2, <1>4, <1>5

LEMMA ChosenIs ==
  ASSUME NEW list, IsList(list), NEW K \in SUBSET (1 .. Len(list))
  PROVE  /\ IsList(Chosen(list, K))
         /\ \A i \in 1 .. Len(Chosen(list, K)) : \E k \in K : Rank(K, k) = i /\ Chosen(list, K)[i] = list[k]
         /\ \A k \in K : Rank(K, k) \in 1 .. Len(Chosen(list, K)) /\ Chosen(list, K)[Rank(K, k)] = list[k]
         /\ \A j, k \in K : Rank(K, j) = Rank(K, k) => j = k
<1>0. Len(list) \in Nat
  BY ListIs
<1>1. /\ Cardinality(K) \in Nat
      /\ \A k \in K : Rank(K, k) \in 1 .. Cardinality(K)
      /\ \A j, k \in K : Rank(K, j) = Rank(K, k) => j = k
      /\ \A i \in 1 .. Cardinality(K) : \E k \in K : Rank(K, k) = i
  BY <1>0, RankIs
<1>2. PICK c : c = Chosen(list, K)
  OBVIOUS
<1>3. /\ c = [i \in 1 .. Cardinality(K) |-> c[i]]
      /\ \A i \in 1 .. Cardinality(K) : c[i] = list[CHOOSE k \in K : Rank(K, k) = i]
  BY <1>2 DEF Chosen
<1>4. IsList(c) /\ Len(c) = Cardinality(K)
  BY <1>1, <1>3, ListOf
<1>5. ASSUME NEW i \in 1 .. Cardinality(K) PROVE \E k \in K : Rank(K, k) = i /\ c[i] = list[k]
  <2>1. PICK k \in K : k = CHOOSE j \in K : Rank(K, j) = i
    BY <1>1
  <2>2. Rank(K, k) = i
    BY <1>1, <2>1
  <2> QED BY <1>3, <2>1, <2>2
<1>6. ASSUME NEW k \in K PROVE c[Rank(K, k)] = list[k]
  BY <1>1, <1>5
<1> QED BY <1>1, <1>2, <1>4, <1>5, <1>6

LEMMA UpdatedIs ==
  ASSUME NEW rules, IsList(rules), NEW src, IsList(src)
  PROVE  /\ IsList(Updated(rules, src)) /\ Len(Updated(rules, src)) = Len(rules)
         /\ \A k \in 1 .. Len(rules) :
              IF Hits(rules, src, k) = {} THEN Updated(rules, src)[k] = rules[k]
              ELSE \E j \in Hits(rules, src, k) : Updated(rules, src)[k] = src[j]
<1>1. /\ Len(rules) \in Nat /\ DOMAIN rules = 1 .. Len(rules)
      /\ Len(src) \in Nat /\ DOMAIN src = 1 .. Len(src)
  BY ListIs
<1>2. PICK u : u = Updated(rules, src)
  OBVIOUS
<1>3. /\ u = [k \in 1 .. Len(rules) |-> u[k]]
      /\ \A k \in 1 .. Len(rules) :
           u[k] = IF Hits(rules, src, k) = {} THEN rules[k] ELSE src[LastOf(Hits(rules, src, k))]
  BY <1>1, <1>2 DEF Updated
<1>4. IsList(u) /\ Len(u) = Len(rules)
  BY <1>1, <1>3, ListOf
<1>5. ASSUME NEW k \in 1 .. Len(rules), Hits(rules, src, k) # {}
      PROVE  \E j \in Hits(rules, src, k) : u[k] = src[j]
  <2>1. PICK H : H = Hits(rules, src, k)
    OBVIOUS
  <2>2. H \in SUBSET (1 .. Len(src))
    BY <1>1, <2>1 DEF Hits
  <2>3. H \in SUBSET (0 .. Len(src))
    BY <1>1, <2>2
  <2>4. LastOf(H) \in H
    BY <1>1, <1>5, <2>1, <2>3, LargestOf
  <2> QED BY <1>3, <1>5, <2>1, <2>4
<1> QED BY <1>2, <1>3, <1>4, <1>5

\* The rules of a layer on top of others, told from the rules alone.
MergedRules(rules, src) == Updated(rules, src) \o Chosen(src, Unknown(rules, src))

LEMMA UnknownIs ==
  ASSUME NEW rules, IsList(rules), NEW src, IsList(src)
  PROVE  Unknown(rules, src) \in SUBSET (1 .. Len(src))
BY ListIs DEF Unknown

\* What MergeRules leaves.
RulesMerged(r, m, dst, src) ==
  /\ IsMemory(r.mem) /\ IsSlice(r.mem, r.slice)
  /\ Elems(r.mem, r.slice) = MergedRules(Elems(m, dst), src)
  /\ r.slice.array = dst.array \/ r.slice.array = Fresh(m)
  /\ KeepsBut(dst.array, r.mem, m)

LEMMA MergeRulesIs ==
  ASSUME NEW m, IsMemory(m), NEW dst, IsSlice(m, dst), NEW src, IsList(src),
         NEW r, r = MergeRules(m, dst, src)
  PROVE  RulesMerged(r, m, dst, src)
<1>1. PICK rules : rules = Elems(m, dst)
  OBVIOUS
<1>2. IsList(rules) /\ Len(rules) = dst.len /\ dst.len \in Nat
  BY <1>1, SliceIs
<1>3. PICK others : others = Chosen(src, Unknown(rules, src))
  OBVIOUS
<1>4. IsList(others)
  BY <1>2, <1>3, UnknownIs, ChosenIs
<1>5. PICK u : u = Updated(rules, src)
  OBVIOUS
<1>6. IsList(u) /\ Len(u) = dst.len
  BY <1>2, <1>5, UpdatedIs
<1>7. CASE dst.array = Nil
  <2>1. r = AppendTo(m, dst, others)
    BY <1>1, <1>3, <1>7 DEF MergeRules
  <2>2. dst.len = 0
    BY <1>7 DEF IsSlice, Cap
  <2>3. u = rules
    BY <1>2, <1>6, <2>2, ListsAgree
  <2>4. Appended(r, m, dst, others)
    BY <1>4, <2>1, AppendToIs
  <2> QED BY <1>1, <1>3, <1>5, <2>3, <2>4 DEF RulesMerged, Appended, MergedRules, Keeps, KeepsBut
<1>8. CASE dst.array # Nil
  <2>1. /\ dst.array \in DOMAIN m /\ IsList(m[dst.array]) /\ dst.len \in 0 .. Len(m[dst.array])
        /\ dst = [array |-> dst.array, len |-> dst.len]
    BY <1>8 DEF IsSlice, Cap
  <2>2. PICK size \in Nat : size = Len(m[dst.array]) /\ DOMAIN m[dst.array] = 1 .. size
    BY <2>1, ListIs
  <2>3. PICK cells : cells = [k \in 1 .. size |-> IF k <= dst.len THEN u[k] ELSE m[dst.array][k]]
    OBVIOUS
  <2>4. cells = [k \in 1 .. size |-> cells[k]] /\ \A k \in 1 .. dst.len : cells[k] = u[k]
    BY <1>2, <2>1, <2>2, <2>3
  <2>5. IsList(cells) /\ Len(cells) = size
    BY <2>4, ListOf
  <2>6. PICK new : new = Store(m, dst.array, cells)
    OBVIOUS
  <2>7. r = AppendTo(new, dst, others)
    BY <1>1, <1>3, <1>5, <1>8, <2>2, <2>3, <2>6 DEF MergeRules
  <2>8. IsSliceOf(dst, dst.array, dst.len) /\ dst.len \in 0 .. Len(cells)
    BY <2>1, <2>2, <2>5 DEF IsSliceOf
  <2>9. /\ IsMemory(new) /\ IsSlice(new, dst) /\ Elems(new, dst) = FirstOf(cells, dst.len)
        /\ KeepsBut(dst.array, new, m)
    BY <2>1, <2>5, <2>6, <2>8, WrittenIs
  <2>10. FirstOf(cells, dst.len) = u
    <3>1. PICK z : z = FirstOf(cells, dst.len)
      OBVIOUS
    <3>2. IsList(z) /\ Len(z) = dst.len /\ \A k \in 1 .. dst.len : z[k] = cells[k]
      BY <1>2, <3>1, FirstOfIs
    <3> QED BY <1>6, <2>4, <3>1, <3>2, ListsAgree
  <2>11. DOMAIN new = DOMAIN m
    BY <2>1, <2>6 DEF Store
  <2>12. Fresh(new) = Fresh(m)
    BY <2>11 DEF Fresh
  <2>13. Appended(r, new, dst, others)
    BY <1>4, <2>7, <2>9, AppendToIs
  <2>14. KeepsBut(dst.array, r.mem, m)
    BY <2>9, <2>11, <2>13 DEF Appended, Keeps, KeepsBut
  <2> QED BY <1>1, <1>3, <1>5, <2>9, <2>10, <2>12, <2>13, <2>14 DEF RulesMerged, Appended, MergedRules
<1> QED BY <1>7, <1>8
-----------------------------------------------------------------------------
(* A spec at work has its map and its lists to itself.                     *)

CellOf(a, sp) == a = sp.flags \/ a = sp.rules.array \/ a = sp.gateways.array

Owned(m, sp) ==
  /\ IsTable(m, sp.flags) /\ IsSlice(m, sp.rules) /\ IsSlice(m, sp.gateways)
  /\ \A a \in DOMAIN Decoded(job) : ~CellOf(a, sp)
  /\ sp.flags # Nil => sp.flags # sp.rules.array /\ sp.flags # sp.gateways.array
  /\ sp.rules.array # Nil => sp.rules.array # sp.gateways.array

\* Only the cells of sp are written.
KeepsBeside(sp, m2, m) == DOMAIN m \subseteq DOMAIN m2 /\ \A a \in DOMAIN m : ~CellOf(a, sp) => m2[a] = m[a]

\* Each cell is the one it was or one that was not in use.
Grown(sp2, sp, m) ==
  /\ sp2.flags = sp.flags \/ (sp2.flags # Nil /\ sp2.flags \notin DOMAIN m)
  /\ sp2.rules.array = sp.rules.array \/ (sp2.rules.array # Nil /\ sp2.rules.array \notin DOMAIN m)
  /\ sp2.gateways.array = sp.gateways.array \/ (sp2.gateways.array # Nil /\ sp2.gateways.array \notin DOMAIN m)

Worked(m2, sp2, m, sp) == IsMemory(m2) /\ Owned(m2, sp2) /\ KeepsBeside(sp, m2, m) /\ Grown(sp2, sp, m)

LEMMA WorkedOn ==
  ASSUME NEW m, NEW sp, NEW m2, NEW sp2, NEW m3, NEW sp3,
         Worked(m2, sp2, m, sp), Worked(m3, sp3, m2, sp2)
  PROVE  Worked(m3, sp3, m, sp)
<1>1. KeepsBeside(sp, m3, m)
  <2>1. ASSUME NEW a \in DOMAIN m, ~CellOf(a, sp) PROVE ~CellOf(a, sp2)
    BY <2>1 DEF Worked, Grown, CellOf
  <2> QED BY <2>1 DEF Worked, KeepsBeside
<1>2. Grown(sp3, sp, m)
  BY DEF Worked, Grown, KeepsBeside
<1> QED BY <1>1, <1>2 DEF Worked

SliceSame(m2, m, s) == IsSlice(m2, s) /\ Elems(m2, s) = Elems(m, s)
TableSame(m2, m, addr) == IsTable(m2, addr) /\ Table(m2, addr) = Table(m, addr)

LEMMA SliceStays ==
  ASSUME NEW m, NEW m2, DOMAIN m \subseteq DOMAIN m2, NEW s, IsSlice(m, s),
         s.array # Nil => m2[s.array] = m[s.array]
  PROVE  SliceSame(m2, m, s)
<1>1. CASE s.array = Nil
  <2>1. s.len = 0 /\ IsSlice(m2, s)
    BY <1>1 DEF IsSlice, Cap
  <2>2. PICK x : x = Elems(m, s)
    OBVIOUS
  <2>3. PICK y : y = Elems(m2, s)
    OBVIOUS
  <2>4. IsList(x) /\ Len(x) = 0 /\ IsList(y) /\ Len(y) = 0
    BY <2>1, <2>2, <2>3, SliceIs
  <2>5. x = y
    BY <2>4, ListsAgree
  <2> QED BY <2>1, <2>2, <2>3, <2>5 DEF SliceSame
<1>2. CASE s.array # Nil
  <2>1. IsSlice(m2, s)
    BY <1>2 DEF IsSlice, Cap
  <2>2. Elems(m2, s) = Elems(m, s)
    BY <1>2 DEF Elems
  <2> QED BY <2>1, <2>2 DEF SliceSame
<1> QED BY <1>1, <1>2

LEMMA TableStays ==
  ASSUME NEW m, NEW m2, DOMAIN m \subseteq DOMAIN m2, NEW addr, IsTable(m, addr),
         addr # Nil => m2[addr] = m[addr]
  PROVE  TableSame(m2, m, addr)
BY DEF IsTable, Table, TableSame

LEMMA FlagsMoved ==
  ASSUME NEW m, IsMemory(m), NEW sp, Owned(m, sp), NEW m2, IsMemory(m2), NEW sp2,
         KeepsBut(sp.flags, m2, m), IsTable(m2, sp2.flags), sp2.flags = sp.flags \/ sp2.flags = Fresh(m),
         sp2.rules = sp.rules, sp2.gateways = sp.gateways
  PROVE  /\ Worked(m2, sp2, m, sp)
         /\ SliceSame(m2, m, sp.rules) /\ SliceSame(m2, m, sp.gateways)
<1>1. Fresh(m) \notin DOMAIN m /\ Fresh(m) # Nil /\ Nil \notin DOMAIN m /\ DOMAIN Decoded(job) \subseteq DOMAIN m
  BY FreshIsFree DEF IsMemory
<1>2. /\ DOMAIN m \subseteq DOMAIN m2
      /\ sp.rules.array # Nil => m2[sp.rules.array] = m[sp.rules.array]
      /\ sp.gateways.array # Nil => m2[sp.gateways.array] = m[sp.gateways.array]
  BY <1>1 DEF Owned, IsSlice, IsTable, KeepsBut
<1>3. SliceSame(m2, m, sp.rules) /\ SliceSame(m2, m, sp.gateways)
  BY <1>2, SliceStays DEF Owned
<1>4. \A a \in DOMAIN Decoded(job) : ~CellOf(a, sp2)
  BY <1>1 DEF Owned, CellOf
<1>5. sp2.flags # Nil => sp2.flags # sp2.rules.array /\ sp2.flags # sp2.gateways.array
  BY <1>1 DEF Owned, IsSlice
<1>6. Owned(m2, sp2)
  BY <1>3, <1>4, <1>5 DEF Owned, SliceSame
<1>7. KeepsBeside(sp, m2, m) /\ Grown(sp2, sp, m)
  BY <1>1 DEF KeepsBeside, KeepsBut, Grown, CellOf
<1> QED BY <1>3, <1>6, <1>7 DEF Worked

LEMMA RulesMoved ==
  ASSUME NEW m, IsMemory(m), NEW sp, Owned(m, sp), NEW m2, IsMemory(m2), NEW sp2,
         KeepsBut(sp.rules.array, m2, m), IsSlice(m2, sp2.rules),
         sp2.rules.array = sp.rules.array \/ sp2.rules.array = Fresh(m),
         sp2.flags = sp.flags, sp2.gateways = sp.gateways
  PROVE  /\ Worked(m2, sp2, m, sp)
         /\ TableSame(m2, m, sp.flags) /\ SliceSame(m2, m, sp.gateways)
<1>1. Fresh(m) \notin DOMAIN m /\ Fresh(m) # Nil /\ Nil \notin DOMAIN m /\ DOMAIN Decoded(job) \subseteq DOMAIN m
  BY FreshIsFree DEF IsMemory
<1>2. /\ DOMAIN m \subseteq DOMAIN m2
      /\ sp.flags # Nil => m2[sp.flags] = m[sp.flags]
      /\ sp.gateways.array # Nil => m2[sp.gateways.array] = m[sp.gateways.array]
  BY <1>1 DEF Owned, IsSlice, IsTable, KeepsBut
<1>3. TableSame(m2, m, sp.flags) /\ SliceSame(m2, m, sp.gateways)
  BY <1>2, SliceStays, TableStays DEF Owned
<1>4. \A a \in DOMAIN Decoded(job) : ~CellOf(a, sp2)
  BY <1>1 DEF Owned, CellOf
<1>5. /\ sp2.flags # Nil => sp2.flags # sp2.rules.array /\ sp2.flags # sp2.gateways.array
      /\ sp2.rules.array # Nil => sp2.rules.array # sp2.gateways.array
  BY <1>1 DEF Owned, IsSlice, IsTable
<1>6. Owned(m2, sp2)
  BY <1>3, <1>4, <1>5 DEF Owned, SliceSame, TableSame
<1>7. KeepsBeside(sp, m2, m) /\ Grown(sp2, sp, m)
  BY <1>1 DEF KeepsBeside, KeepsBut, Grown, CellOf
<1> QED BY <1>3, <1>6, <1>7 DEF Worked

LEMMA GatewaysMoved ==
  ASSUME NEW m, IsMemory(m), NEW sp, Owned(m, sp), NEW m2, IsMemory(m2), NEW sp2,
         KeepsBut(sp.gateways.array, m2, m), IsSlice(m2, sp2.gateways),
         sp2.gateways.array = sp.gateways.array \/ sp2.gateways.array = Fresh(m),
         sp2.flags = sp.flags, sp2.rules = sp.rules
  PROVE  /\ Worked(m2, sp2, m, sp)
         /\ TableSame(m2, m, sp.flags) /\ SliceSame(m2, m, sp.rules)
<1>1. Fresh(m) \notin DOMAIN m /\ Fresh(m) # Nil /\ Nil \notin DOMAIN m /\ DOMAIN Decoded(job) \subseteq DOMAIN m
  BY FreshIsFree DEF IsMemory
<1>2. /\ DOMAIN m \subseteq DOMAIN m2
      /\ sp.flags # Nil => m2[sp.flags] = m[sp.flags]
      /\ sp.rules.array # Nil => m2[sp.rules.array] = m[sp.rules.array]
  BY <1>1 DEF Owned, IsSlice, IsTable, KeepsBut
<1>3. TableSame(m2, m, sp.flags) /\ SliceSame(m2, m, sp.rules)
  BY <1>2, SliceStays, TableStays DEF Owned
<1>4. \A a \in DOMAIN Decoded(job) : ~CellOf(a, sp2)
  BY <1>1 DEF Owned, CellOf
<1>5. /\ sp2.flags # Nil => sp2.flags # sp2.rules.array /\ sp2.flags # sp2.gateways.array
      /\ sp2.rules.array # Nil => sp2.rules.array # sp2.gateways.array
  BY <1>1 DEF Owned, IsSlice, IsTable
<1>6. Owned(m2, sp2)
  BY <1>3, <1>4, <1>5 DEF Owned, SliceSame, TableSame
<1>7. KeepsBeside(sp, m2, m) /\ Grown(sp2, sp, m)
  BY <1>1 DEF KeepsBeside, KeepsBut, Grown, CellOf
<1> QED BY <1>3, <1>6, <1>7 DEF Worked

\* A layer, where it was decoded to.
IsLayer(m, src) ==
  /\ IsTable(m, src.flags) /\ IsSlice(m, src.rules) /\ IsSlice(m, src.gateways)
  /\ \A a : CellOf(a, src) => a = Nil \/ a \in DOMAIN Decoded(job)

LEMMA LayerStays ==
  ASSUME NEW m, IsMemory(m), NEW sp, Owned(m, sp), NEW m2, KeepsBeside(sp, m2, m),
         NEW src, IsLayer(m, src)
  PROVE  /\ IsLayer(m2, src) /\ TableSame(m2, m, src.flags)
         /\ SliceSame(m2, m, src.rules) /\ SliceSame(m2, m, src.gateways)
<1>1. DOMAIN Decoded(job) \subseteq DOMAIN m /\ DOMAIN m \subseteq DOMAIN m2
  BY DEF IsMemory, KeepsBeside
<1>2. ASSUME NEW a, CellOf(a, src), a # Nil PROVE m2[a] = m[a]
  BY <1>1, <1>2 DEF IsLayer, Owned, KeepsBeside
<1>3. TableSame(m2, m, src.flags) /\ SliceSame(m2, m, src.rules) /\ SliceSame(m2, m, src.gateways)
  BY <1>1, <1>2, TableStays, SliceStays DEF IsLayer, CellOf
<1> QED BY <1>3 DEF IsLayer, TableSame, SliceSame
\* l on top of x, told from what they say.
Over(x2, x, l) ==
  /\ x2.schedule = Or(l.schedule, x.schedule)
  /\ x2.flags = Overlay(l.flags, x.flags)
  /\ IF job.entry = "profile"
     THEN /\ x2.mev = [on |-> x.mev.on \/ l.mev.on, image |-> Or(l.mev.image, x.mev.image)]
          /\ x2.rules = MergedRules(x.rules, l.rules)
          /\ x2.gateways = x.gateways \o l.gateways
     ELSE /\ x2.mev = IF l.mev.on THEN l.mev ELSE x.mev
          /\ x2.rules = x.rules \o l.rules
          /\ x2.gateways = x.gateways

\* What a merge leaves: only the cells of the spec at work, and new ones, are written, and
\* it says what it said with the layer on top.
MergeDone(r, m, sp, src) ==
  Worked(r.mem, r.spec, m, sp) /\ Over(Said(r.mem, r.spec), Said(m, sp), Said(m, src))

IsWork(h, m, sp) == h.mem = m /\ h.spec = sp

\* The spec between the steps of a merge.
Between(flags, rules, gateways) == [flags |-> flags, rules |-> rules, gateways |-> gateways]

LEMMA FlagsMerged ==
  ASSUME NEW m, IsMemory(m), NEW sp, Owned(m, sp), NEW src, IsLayer(m, src),
         NEW f, f = PutAll(m, sp.flags, src.flags),
         NEW sp1, sp1 = Between(f.addr, sp.rules, sp.gateways)
  PROVE  /\ Put(f, m, sp.flags, src.flags)
         /\ Worked(f.mem, sp1, m, sp) /\ IsLayer(f.mem, src)
         /\ SliceSame(f.mem, m, sp.rules) /\ SliceSame(f.mem, m, sp.gateways)
         /\ SliceSame(f.mem, m, src.rules) /\ SliceSame(f.mem, m, src.gateways)
<1>1. IsTable(m, sp.flags) /\ IsTable(m, src.flags)
  BY DEF Owned, IsLayer
<1>3. Put(f, m, sp.flags, src.flags)
  BY <1>1, PutAllIs
<1>4. PICK m1 : m1 = f.mem
  OBVIOUS
<1>5. sp1.flags = f.addr /\ sp1.rules = sp.rules /\ sp1.gateways = sp.gateways
  BY DEF Between
<1>6. /\ IsMemory(m1) /\ IsTable(m1, sp1.flags) /\ KeepsBut(sp.flags, m1, m)
      /\ sp1.flags = sp.flags \/ sp1.flags = Fresh(m)
  BY <1>3, <1>4, <1>5 DEF Put, Keeps, KeepsBut
<1>7. Worked(m1, sp1, m, sp) /\ SliceSame(m1, m, sp.rules) /\ SliceSame(m1, m, sp.gateways)
  BY <1>5, <1>6, FlagsMoved
<1>8. IsLayer(m1, src) /\ SliceSame(m1, m, src.rules) /\ SliceSame(m1, m, src.gateways)
  BY <1>7, LayerStays DEF Worked
<1> QED BY <1>3, <1>4, <1>7, <1>8
LEMMA InventoryMergeIs ==
  ASSUME NEW m, IsMemory(m), NEW sp, Owned(m, sp), NEW src, IsLayer(m, src),
         NEW h, IsWork(h, m, sp), job.entry # "profile", NEW x, x = InventoryMerge(h, src)
  PROVE  MergeDone(x, m, sp, src)
<1>1. PICK f : f = PutAll(m, sp.flags, src.flags)
  OBVIOUS
<1>2. PICK sp1 : sp1 = Between(f.addr, sp.rules, sp.gateways)
  OBVIOUS
<1>3. /\ Put(f, m, sp.flags, src.flags)
      /\ Worked(f.mem, sp1, m, sp)
      /\ SliceSame(f.mem, m, sp.rules) /\ SliceSame(f.mem, m, sp.gateways)
      /\ SliceSame(f.mem, m, src.rules)
  BY <1>1, <1>2, FlagsMerged
<1>4. PICK m1 : m1 = f.mem
  OBVIOUS
<1>5. PICK new : new = Elems(m, src.rules)
  OBVIOUS
<1>6. IsList(new)
  BY <1>5, SliceIs DEF IsLayer
<1>7. PICK r : r = AppendTo(m1, sp.rules, new)
  OBVIOUS
<1>8. IsMemory(m1) /\ IsSlice(m1, sp.rules)
  BY <1>3, <1>4 DEF Worked, SliceSame
<1>9. Appended(r, m1, sp.rules, new)
  BY <1>6, <1>7, <1>8, AppendToIs
<1>10. /\ x.mem = r.mem
       /\ x.spec.flags = f.addr /\ x.spec.rules = r.slice /\ x.spec.gateways = sp.gateways
       /\ x.spec.schedule = Or(src.schedule, sp.schedule)
       /\ x.spec.mev = IF src.mev.on THEN src.mev ELSE sp.mev
  BY <1>1, <1>3, <1>4, <1>5, <1>7 DEF InventoryMerge, IsWork, SliceSame
<1>11. PICK m2, sp2 : m2 = x.mem /\ sp2 = x.spec
  OBVIOUS
<1>12. sp1.flags = f.addr /\ sp1.rules = sp.rules /\ sp1.gateways = sp.gateways
  BY <1>2 DEF Between
<1>13. /\ Owned(m1, sp1) /\ IsMemory(m2)
       /\ KeepsBut(sp1.rules.array, m2, m1) /\ IsSlice(m2, sp2.rules)
       /\ sp2.rules.array = sp1.rules.array \/ sp2.rules.array = Fresh(m1)
       /\ sp2.flags = sp1.flags /\ sp2.gateways = sp1.gateways
  BY <1>3, <1>4, <1>9, <1>10, <1>11, <1>12 DEF Appended, Worked, Keeps, KeepsBut
<1>14. Worked(m2, sp2, m1, sp1) /\ TableSame(m2, m1, sp1.flags) /\ SliceSame(m2, m1, sp1.gateways)
  BY <1>8, <1>13, RulesMoved
<1>15. Worked(m2, sp2, m, sp)
  BY <1>3, <1>4, <1>14, WorkedOn
<1>16. /\ Table(m2, sp2.flags) = Overlay(Table(m, src.flags), Table(m, sp.flags))
       /\ Elems(m2, sp2.rules) = Elems(m, sp.rules) \o Elems(m, src.rules)
       /\ Elems(m2, sp2.gateways) = Elems(m, sp.gateways)
  BY <1>3, <1>4, <1>5, <1>9, <1>10, <1>11, <1>12, <1>14 DEF Appended, Put, TableSame, SliceSame
<1>17. Over(Said(m2, sp2), Said(m, sp), Said(m, src))
  BY <1>10, <1>11, <1>16 DEF Over, Said
<1> QED BY <1>11, <1>15, <1>17 DEF MergeDone

LEMMA ProfileMergeIs ==
  ASSUME NEW m, IsMemory(m), NEW sp, Owned(m, sp), NEW src, IsLayer(m, src),
         NEW h, IsWork(h, m, sp), job.entry = "profile", NEW x, x = ProfileMerge(h, src)
  PROVE  MergeDone(x, m, sp, src)
<1>1. PICK f : f = PutAll(m, sp.flags, src.flags)
  OBVIOUS
<1>2. PICK sp1 : sp1 = Between(f.addr, sp.rules, sp.gateways)
  OBVIOUS
<1>3. /\ Put(f, m, sp.flags, src.flags)
      /\ Worked(f.mem, sp1, m, sp) /\ IsLayer(f.mem, src)
      /\ SliceSame(f.mem, m, sp.rules) /\ SliceSame(f.mem, m, sp.gateways)
      /\ SliceSame(f.mem, m, src.rules) /\ SliceSame(f.mem, m, src.gateways)
  BY <1>1, <1>2, FlagsMerged
<1>4. PICK m1 : m1 = f.mem
  OBVIOUS
<1>5. PICK new : new = Elems(m, src.rules)
  OBVIOUS
<1>6. IsList(new)
  BY <1>5, SliceIs DEF IsLayer
<1>7. PICK r : r = MergeRules(m1, sp.rules, new)
  OBVIOUS
<1>8. IsMemory(m1) /\ IsSlice(m1, sp.rules)
  BY <1>3, <1>4 DEF Worked, SliceSame
<1>9. RulesMerged(r, m1, sp.rules, new)
  BY <1>6, <1>7, <1>8, MergeRulesIs
<1>10. PICK m2 : m2 = r.mem
  OBVIOUS
<1>11. PICK sp2 : sp2 = Between(f.addr, r.slice, sp.gateways)
  OBVIOUS
<1>12. /\ sp1.flags = f.addr /\ sp1.rules = sp.rules /\ sp1.gateways = sp.gateways
       /\ sp2.flags = f.addr /\ sp2.rules = r.slice /\ sp2.gateways = sp.gateways
  BY <1>2, <1>11 DEF Between
<1>13. /\ Owned(m1, sp1) /\ IsMemory(m2)
       /\ KeepsBut(sp1.rules.array, m2, m1) /\ IsSlice(m2, sp2.rules)
       /\ sp2.rules.array = sp1.rules.array \/ sp2.rules.array = Fresh(m1)
       /\ sp2.flags = sp1.flags /\ sp2.gateways = sp1.gateways
  BY <1>3, <1>4, <1>9, <1>10, <1>12 DEF RulesMerged, Worked
<1>14. Worked(m2, sp2, m1, sp1) /\ TableSame(m2, m1, sp1.flags) /\ SliceSame(m2, m1, sp1.gateways)
  BY <1>8, <1>13, RulesMoved
<1>15. SliceSame(m2, m1, src.gateways)
  BY <1>3, <1>4, <1>8, <1>13, <1>14, LayerStays DEF Worked
<1>16. PICK more : more = Elems(m, src.gateways)
  OBVIOUS
<1>17. IsList(more)
  BY <1>16, SliceIs DEF IsLayer
<1>18. PICK g : g = AppendTo(m2, sp.gateways, more)
  OBVIOUS
<1>19. IsMemory(m2) /\ Owned(m2, sp2) /\ IsSlice(m2, sp.gateways)
  BY <1>12, <1>14 DEF Worked, SliceSame
<1>20. Appended(g, m2, sp.gateways, more)
  BY <1>17, <1>18, <1>19, AppendToIs
<1>21. /\ x.mem = g.mem
       /\ x.spec.flags = f.addr /\ x.spec.rules = r.slice /\ x.spec.gateways = g.slice
       /\ x.spec.schedule = Or(src.schedule, sp.schedule)
       /\ x.spec.mev = [on |-> sp.mev.on \/ src.mev.on, image |-> Or(src.mev.image, sp.mev.image)]
  BY <1>1, <1>3, <1>4, <1>5, <1>7, <1>10, <1>15, <1>16, <1>18 DEF ProfileMerge, IsWork, SliceSame
<1>22. PICK m3, sp3 : m3 = x.mem /\ sp3 = x.spec
  OBVIOUS
<1>23. /\ IsMemory(m3)
       /\ KeepsBut(sp2.gateways.array, m3, m2) /\ IsSlice(m3, sp3.gateways)
       /\ sp3.gateways.array = sp2.gateways.array \/ sp3.gateways.array = Fresh(m2)
       /\ sp3.flags = sp2.flags /\ sp3.rules = sp2.rules
  BY <1>12, <1>20, <1>21, <1>22 DEF Appended, Keeps, KeepsBut
<1>24. Worked(m3, sp3, m2, sp2) /\ TableSame(m3, m2, sp2.flags) /\ SliceSame(m3, m2, sp2.rules)
  BY <1>19, <1>23, GatewaysMoved
<1>25. Worked(m3, sp3, m, sp)
  BY <1>3, <1>4, <1>14, <1>24, WorkedOn
<1>26. Table(m3, sp3.flags) = Overlay(Table(m, src.flags), Table(m, sp.flags))
  BY <1>3, <1>4, <1>12, <1>14, <1>23, <1>24 DEF Put, TableSame
<1>27. Elems(m3, sp3.rules) = MergedRules(Elems(m, sp.rules), Elems(m, src.rules))
  BY <1>3, <1>4, <1>5, <1>9, <1>10, <1>12, <1>23, <1>24 DEF RulesMerged, SliceSame
<1>28. Elems(m3, sp3.gateways) = Elems(m, sp.gateways) \o Elems(m, src.gateways)
  BY <1>3, <1>4, <1>12, <1>14, <1>16, <1>20, <1>21, <1>22 DEF Appended, SliceSame
<1>29. Over(Said(m3, sp3), Said(m, sp), Said(m, src))
  BY <1>21, <1>22, <1>26, <1>27, <1>28 DEF Over, Said
<1> QED BY <1>22, <1>25, <1>29 DEF MergeDone

LEMMA MergeSpecsIs ==
  ASSUME NEW m, IsMemory(m), NEW sp, Owned(m, sp), NEW src, IsLayer(m, src),
         NEW h, IsWork(h, m, sp), NEW x, x = MergeSpecs(h, src)
  PROVE  MergeDone(x, m, sp, src)
BY InventoryMergeIs, ProfileMergeIs DEF MergeSpecs

-----------------------------------------------------------------------------
(* One layer more.                                                         *)

OneMore(more, layers, l) ==
  /\ IsList(layers) /\ IsList(more) /\ Len(more) = Len(layers) + 1
  /\ \A j \in 1 .. Len(layers) : more[j] = layers[j]
  /\ more[Len(layers) + 1] = l

LEMMA OneMoreIs ==
  ASSUME NEW layers, NEW l, NEW more, OneMore(more, layers, l)
  PROVE  /\ Len(layers) \in Nat /\ DOMAIN layers = 1 .. Len(layers)
         /\ DOMAIN more = 1 .. Len(layers) + 1
         /\ \A j \in 1 .. Len(layers) : more[j] = layers[j] /\ j \in DOMAIN more
         /\ more[Len(layers) + 1] = l /\ Len(layers) + 1 \in DOMAIN more
         /\ \A j \in DOMAIN more : j \in DOMAIN layers \/ j = Len(layers) + 1
<1>1. /\ Len(layers) \in Nat /\ DOMAIN layers = 1 .. Len(layers)
      /\ DOMAIN more = 1 .. Len(layers) + 1
  BY ListIs DEF OneMore
<1> QED BY <1>1 DEF OneMore

\* T2 is T, a set with zero in it, or has the next number as well.
LEMMA TopGrows ==
  ASSUME NEW n \in Nat, NEW T \in SUBSET (0 .. n), 0 \in T, NEW T2 \in SUBSET (0 .. n + 1),
         \A j \in 0 .. n : j \in T2 <=> j \in T
  PROVE  /\ LastOf(T) \in T
         /\ n + 1 \in T2 => LastOf(T2) = n + 1
         /\ n + 1 \notin T2 => T2 = T
<1>1. LastOf(T) \in T
  BY LargestOf
<1>2. ASSUME n + 1 \in T2 PROVE LastOf(T2) = n + 1
  <2>1. n + 1 \in Nat
    OBVIOUS
  <2>2. LastOf(T2) \in T2 /\ \A j \in T2 : j <= LastOf(T2)
    BY <1>2, <2>1, LargestOf
  <2>3. LastOf(T2) \in 0 .. n + 1 /\ n + 1 <= LastOf(T2)
    BY <1>2, <2>2
  <2> QED BY <2>3
<1>3. ASSUME n + 1 \notin T2 PROVE T2 = T
  <2>1. \A j \in T2 : j \in 0 .. n
    BY <1>3
  <2> QED BY <2>1
<1> QED BY <1>1, <1>2, <1>3

LEMMA ScheduleGrows ==
  ASSUME NEW layers, NEW l, NEW more, OneMore(more, layers, l)
  PROVE  TopString(more, LAMBDA y : y.schedule) = Or(l.schedule, TopString(layers, LAMBDA y : y.schedule))
<1>1. PICK n \in Nat : n = Len(layers)
  BY OneMoreIs
<1>2. PICK T : T = {0} \cup {j \in DOMAIN layers : layers[j].schedule # NoString}
  OBVIOUS
<1>3. PICK T2 : T2 = {0} \cup {j \in DOMAIN more : more[j].schedule # NoString}
  OBVIOUS
<1>4. /\ T \in SUBSET (0 .. n) /\ 0 \in T /\ T2 \in SUBSET (0 .. n + 1)
      /\ \A j \in 0 .. n : j \in T2 <=> j \in T
      /\ n + 1 \in T2 <=> l.schedule # NoString
  BY <1>1, <1>2, <1>3, OneMoreIs
<1>5. /\ LastOf(T) \in T
      /\ n + 1 \in T2 => LastOf(T2) = n + 1
      /\ n + 1 \notin T2 => T2 = T
  BY <1>4, TopGrows
<1>6. /\ TopString(layers, LAMBDA y : y.schedule) = IF LastOf(T) = 0 THEN NoString ELSE layers[LastOf(T)].schedule
      /\ TopString(more, LAMBDA y : y.schedule) = IF LastOf(T2) = 0 THEN NoString ELSE more[LastOf(T2)].schedule
  BY <1>2, <1>3 DEF TopString, TopWith
<1>7. CASE n + 1 \in T2
  BY <1>1, <1>4, <1>5, <1>6, <1>7, OneMoreIs DEF Or
<1>8. CASE n + 1 \notin T2
  <2>1. LastOf(T) # 0 => LastOf(T) \in DOMAIN layers
    BY <1>2, <1>5
  <2>2. LastOf(T) # 0 => more[LastOf(T)] = layers[LastOf(T)]
    BY <2>1, OneMoreIs
  <2> QED BY <1>4, <1>5, <1>6, <1>8, <2>2 DEF Or
<1> QED BY <1>7, <1>8

LEMMA ImageGrows ==
  ASSUME NEW layers, NEW l, NEW more, OneMore(more, layers, l)
  PROVE  TopString(more, LAMBDA y : y.mev.image) = Or(l.mev.image, TopString(layers, LAMBDA y : y.mev.image))
<1>1. PICK n \in Nat : n = Len(layers)
  BY OneMoreIs
<1>2. PICK T : T = {0} \cup {j \in DOMAIN layers : layers[j].mev.image # NoString}
  OBVIOUS
<1>3. PICK T2 : T2 = {0} \cup {j \in DOMAIN more : more[j].mev.image # NoString}
  OBVIOUS
<1>4. /\ T \in SUBSET (0 .. n) /\ 0 \in T /\ T2 \in SUBSET (0 .. n + 1)
      /\ \A j \in 0 .. n : j \in T2 <=> j \in T
      /\ n + 1 \in T2 <=> l.mev.image # NoString
  BY <1>1, <1>2, <1>3, OneMoreIs
<1>5. /\ LastOf(T) \in T
      /\ n + 1 \in T2 => LastOf(T2) = n + 1
      /\ n + 1 \notin T2 => T2 = T
  BY <1>4, TopGrows
<1>6. /\ TopString(layers, LAMBDA y : y.mev.image) = IF LastOf(T) = 0 THEN NoString ELSE layers[LastOf(T)].mev.image
      /\ TopString(more, LAMBDA y : y.mev.image) = IF LastOf(T2) = 0 THEN NoString ELSE more[LastOf(T2)].mev.image
  BY <1>2, <1>3 DEF TopString, TopWith
<1>7. CASE n + 1 \in T2
  BY <1>1, <1>4, <1>5, <1>6, <1>7, OneMoreIs DEF Or
<1>8. CASE n + 1 \notin T2
  <2>1. LastOf(T) # 0 => LastOf(T) \in DOMAIN layers
    BY <1>2, <1>5
  <2>2. LastOf(T) # 0 => more[LastOf(T)] = layers[LastOf(T)]
    BY <2>1, OneMoreIs
  <2> QED BY <1>4, <1>5, <1>6, <1>8, <2>2 DEF Or
<1> QED BY <1>7, <1>8

LEMMA SwitchGrows ==
  ASSUME NEW layers, NEW l, NEW more, OneMore(more, layers, l), NEW x,
         x = LET top == TopWith(layers, LAMBDA y : y.mev.on) IN IF top = 0 THEN Off ELSE layers[top].mev,
         NEW x2, x2 = IF l.mev.on THEN l.mev ELSE x
  PROVE  x2 = LET top == TopWith(more, LAMBDA y : y.mev.on) IN IF top = 0 THEN Off ELSE more[top].mev
<1>1. PICK n \in Nat : n = Len(layers)
  BY OneMoreIs
<1>2. PICK T : T = {0} \cup {j \in DOMAIN layers : layers[j].mev.on}
  OBVIOUS
<1>3. PICK T2 : T2 = {0} \cup {j \in DOMAIN more : more[j].mev.on}
  OBVIOUS
<1>4. /\ T \in SUBSET (0 .. n) /\ 0 \in T /\ T2 \in SUBSET (0 .. n + 1)
      /\ \A j \in 0 .. n : j \in T2 <=> j \in T
      /\ n + 1 \in T2 <=> l.mev.on
  BY <1>1, <1>2, <1>3, OneMoreIs
<1>5. /\ LastOf(T) \in T
      /\ n + 1 \in T2 => LastOf(T2) = n + 1
      /\ n + 1 \notin T2 => T2 = T
  BY <1>4, TopGrows
<1>6. x = IF LastOf(T) = 0 THEN Off ELSE layers[LastOf(T)].mev
  BY <1>2 DEF TopWith
<1>7. SUFFICES x2 = IF LastOf(T2) = 0 THEN Off ELSE more[LastOf(T2)].mev
  BY <1>3 DEF TopWith
<1>8. CASE n + 1 \in T2
  BY <1>1, <1>4, <1>5, <1>8, OneMoreIs
<1>9. CASE n + 1 \notin T2
  <2>1. LastOf(T) # 0 => LastOf(T) \in DOMAIN layers
    BY <1>2, <1>5
  <2>2. LastOf(T) # 0 => more[LastOf(T)] = layers[LastOf(T)]
    BY <2>1, OneMoreIs
  <2> QED BY <1>4, <1>5, <1>6, <1>9, <2>2
<1> QED BY <1>8, <1>9

LEMMA FlagsGrow ==
  ASSUME NEW layers, NEW l, NEW more, OneMore(more, layers, l)
  PROVE  TopFlags(more) = Overlay(l.flags, TopFlags(layers))
<1>1. PICK n \in Nat : n = Len(layers)
  BY OneMoreIs
<1>2. PICK D : D = UNION {DOMAIN layers[j].flags : j \in DOMAIN layers}
  OBVIOUS
<1>3. PICK D2 : D2 = UNION {DOMAIN more[j].flags : j \in DOMAIN more}
  OBVIOUS
<1>4. /\ \A f : f \in D <=> \E j \in DOMAIN layers : f \in DOMAIN layers[j].flags
      /\ \A f : f \in D2 <=> \E j \in DOMAIN more : f \in DOMAIN more[j].flags
  BY <1>2, <1>3
<1>5. \A f : f \in D2 <=> f \in DOMAIN l.flags \/ f \in D
  BY <1>1, <1>4, OneMoreIs
<1>6. PICK y : y = TopFlags(layers)
  OBVIOUS
<1>7. PICK z : z = TopFlags(more)
  OBVIOUS
<1>8. /\ DOMAIN y = D /\ DOMAIN z = D2
      /\ \A f \in D : y[f] = layers[LastOf({0} \cup {j \in DOMAIN layers : f \in DOMAIN layers[j].flags})].flags[f]
      /\ \A f \in D2 : z[f] = more[LastOf({0} \cup {j \in DOMAIN more : f \in DOMAIN more[j].flags})].flags[f]
      /\ z = [f \in D2 |-> z[f]]
  BY <1>2, <1>3, <1>6, <1>7 DEF TopFlags, TopWith
<1>9. ASSUME NEW f \in D2 PROVE z[f] = IF f \in DOMAIN l.flags THEN l.flags[f] ELSE y[f]
  <2>1. PICK T : T = {0} \cup {j \in DOMAIN layers : f \in DOMAIN layers[j].flags}
    OBVIOUS
  <2>2. PICK T2 : T2 = {0} \cup {j \in DOMAIN more : f \in DOMAIN more[j].flags}
    OBVIOUS
  <2>3. /\ T \in SUBSET (0 .. n) /\ 0 \in T /\ T2 \in SUBSET (0 .. n + 1)
        /\ \A j \in 0 .. n : j \in T2 <=> j \in T
        /\ n + 1 \in T2 <=> f \in DOMAIN l.flags
    BY <1>1, <2>1, <2>2, OneMoreIs
  <2>4. /\ LastOf(T) \in T
        /\ n + 1 \in T2 => LastOf(T2) = n + 1
        /\ n + 1 \notin T2 => T2 = T
    BY <2>3, TopGrows
  <2>5. z[f] = more[LastOf(T2)].flags[f] /\ (f \in D => y[f] = layers[LastOf(T)].flags[f])
    BY <1>8, <2>1, <2>2
  <2>6. CASE n + 1 \in T2
    BY <1>1, <2>3, <2>4, <2>5, <2>6, OneMoreIs
  <2>7. CASE n + 1 \notin T2
    <3>1. f \in D /\ f \notin DOMAIN l.flags
      BY <1>5, <2>3, <2>7
    <3>2. PICK j \in DOMAIN layers : f \in DOMAIN layers[j].flags
      BY <1>4, <3>1
    <3>3. j \in T /\ j \in 1 .. n
      BY <1>1, <2>1, <3>2, OneMoreIs
    <3>4. \A i \in T : i <= LastOf(T)
      BY <2>3, LargestOf
    <3>5. LastOf(T) \in DOMAIN layers
      BY <2>1, <2>4, <3>3, <3>4
    <3>6. more[LastOf(T2)] = layers[LastOf(T)]
      BY <2>4, <2>7, <3>5, OneMoreIs
    <3> QED BY <2>5, <3>1, <3>6
  <2> QED BY <2>6, <2>7
<1>10. z = [f \in DOMAIN l.flags \cup DOMAIN y |-> IF f \in DOMAIN l.flags THEN l.flags[f] ELSE y[f]]
  <2>1. D2 = DOMAIN l.flags \cup DOMAIN y
    BY <1>5, <1>8
  <2> QED BY <1>8, <1>9, <2>1
<1> QED BY <1>6, <1>7, <1>10 DEF Overlay

-----------------------------------------------------------------------------
(* Lists of lists, end to end.                                             *)

\* What FlattenSeq computes, index by index.
Flattens(f, seqs, n) == f = [i \in 1 .. n |-> IF i = 1 THEN seqs[i] ELSE f[i - 1] \o seqs[i]]

LEMMA FlattensExists ==
  ASSUME NEW seqs, NEW n \in Nat
  PROVE  \E f : Flattens(f, seqs, n)
<1> DEFINE B == {k \in Nat : ~\E f : Flattens(f, seqs, k)}
<1>1. SUFFICES ASSUME B # {} PROVE FALSE
  OBVIOUS
<1>2. PICK k \in B : \A j \in B : k <= j
  BY <1>1, SmallestOf
<1>3. k \in Nat /\ ~\E f : Flattens(f, seqs, k)
  BY <1>2
<1>4. CASE k = 0
  <2>1. PICK f : f = [i \in 1 .. 0 |-> 0]
    OBVIOUS
  <2>2. Flattens(f, seqs, 0)
    BY <2>1 DEF Flattens
  <2> QED BY <1>3, <1>4, <2>2
<1>5. CASE k # 0
  <2>1. k - 1 \in Nat /\ k - 1 \notin B
    BY <1>2, <1>3, <1>5
  <2>2. PICK f : Flattens(f, seqs, k - 1)
    BY <2>1
  <2>3. \A i \in 1 .. k - 1 : f[i] = IF i = 1 THEN seqs[i] ELSE f[i - 1] \o seqs[i]
    BY <2>2 DEF Flattens
  <2>4. PICK g : g = [i \in 1 .. k |-> IF i < k THEN f[i]
                                       ELSE IF i = 1 THEN seqs[i] ELSE f[i - 1] \o seqs[i]]
    OBVIOUS
  <2>5. ASSUME NEW i \in 1 .. k
        PROVE  g[i] = IF i = 1 THEN seqs[i] ELSE g[i - 1] \o seqs[i]
    <3>1. i # 1 => i - 1 \in 1 .. k /\ i - 1 < k
      BY <1>3
    <3>2. i # 1 => g[i - 1] = f[i - 1]
      BY <2>4, <3>1
    <3>3. CASE i < k
      BY <1>3, <2>3, <2>4, <3>2, <3>3
    <3>4. CASE ~(i < k)
      BY <2>4, <3>2, <3>4
    <3> QED BY <3>3, <3>4
  <2>6. g = [i \in 1 .. k |-> g[i]]
    BY <2>4
  <2>7. Flattens(g, seqs, k)
    BY <2>5, <2>6 DEF Flattens
  <2> QED BY <1>3, <2>7
<1> QED BY <1>4, <1>5

LEMMA FlattensOnce ==
  ASSUME NEW seqs, NEW n \in Nat, NEW f, Flattens(f, seqs, n), NEW g,
         \A i \in 1 .. n : g[i] = IF i = 1 THEN seqs[i] ELSE g[i - 1] \o seqs[i]
  PROVE  \A i \in 1 .. n : g[i] = f[i]
<1> DEFINE B == {k \in 1 .. n : g[k] # f[k]}
<1>1. SUFFICES ASSUME B # {} PROVE FALSE
  OBVIOUS
<1>2. B \in SUBSET Nat
  OBVIOUS
<1>3. PICK k \in B : \A j \in B : k <= j
  BY <1>1, <1>2, SmallestOf
<1>4. k \in 1 .. n /\ g[k] # f[k]
  BY <1>3
<1>5. f[k] = IF k = 1 THEN seqs[k] ELSE f[k - 1] \o seqs[k]
  BY <1>4 DEF Flattens
<1>6. CASE k = 1
  BY <1>4, <1>5, <1>6
<1>7. CASE k # 1
  <2>1. k - 1 \in 1 .. n /\ k - 1 \notin B
    BY <1>3, <1>4, <1>7
  <2>2. g[k - 1] = f[k - 1]
    BY <2>1
  <2> QED BY <1>4, <1>5, <1>7, <2>2
<1> QED BY <1>6, <1>7

LEMMA FlattenSeqIs ==
  ASSUME NEW seqs, IsList(seqs), Len(seqs) # 0,
         NEW g, \A i \in 1 .. Len(seqs) : g[i] = IF i = 1 THEN seqs[i] ELSE g[i - 1] \o seqs[i]
  PROVE  FlattenSeq(seqs) = g[Len(seqs)]
<1>1. PICK n \in Nat : n = Len(seqs) /\ n \in 1 .. n
  BY ListIs
<1>2. \E f : Flattens(f, seqs, n)
  BY FlattensExists
<1>3. PICK f : f = CHOOSE h : h = [i \in 1 .. Len(seqs) |-> IF i = 1 THEN seqs[i] ELSE h[i - 1] \o seqs[i]]
  OBVIOUS
<1>4. Flattens(f, seqs, n)
  BY <1>1, <1>2, <1>3 DEF Flattens
<1>5. FlattenSeq(seqs) = f[n]
  BY <1>1, <1>3 DEF FlattenSeq
<1> QED BY <1>1, <1>4, <1>5, FlattensOnce

LEMMA ConcatGrows ==
  ASSUME NEW layers, NEW l, NEW more, OneMore(more, layers, l), NEW field, IsList(l[field])
  PROVE  Concat(more, field) = Concat(layers, field) \o l[field]
<1>1. PICK n \in Nat : n = Len(layers)
  BY OneMoreIs
<1>2. PICK x : x = [j \in DOMAIN layers |-> layers[j][field]]
  OBVIOUS
<1>3. PICK y : y = [j \in DOMAIN more |-> more[j][field]]
  OBVIOUS
<1>4. Concat(layers, field) = FlattenSeq(x) /\ Concat(more, field) = FlattenSeq(y)
  BY <1>2, <1>3 DEF Concat
<1>5. x = [j \in 1 .. n |-> x[j]] /\ y = [j \in 1 .. n + 1 |-> y[j]] /\ n + 1 \in Nat
  BY <1>1, <1>2, <1>3, OneMoreIs
<1>6. IsList(x) /\ Len(x) = n /\ IsList(y) /\ Len(y) = n + 1
  BY <1>5, ListOf
<1>7. (\A j \in 1 .. n : y[j] = x[j]) /\ y[n + 1] = l[field]
  BY <1>1, <1>2, <1>3, OneMoreIs
<1>8. PICK g : Flattens(g, y, n + 1)
  BY <1>5, FlattensExists
<1>9. \A i \in 1 .. n + 1 : g[i] = IF i = 1 THEN y[i] ELSE g[i - 1] \o y[i]
  BY <1>8 DEF Flattens
<1>10. FlattenSeq(y) = g[n + 1]
  BY <1>6, <1>9, FlattenSeqIs
<1>11. CASE n = 0
  <2>1. x = <<>>
    BY <1>6, <1>11, EmptyList
  <2>2. FlattenSeq(x) = <<>>
    BY <1>6, <1>11, <2>1 DEF FlattenSeq
  <2>3. PICK z : z = l[field]
    OBVIOUS
  <2>4. <<>> \o z = z
    BY <2>3 DEF IsList
  <2> QED BY <1>4, <1>7, <1>9, <1>10, <1>11, <2>2, <2>3, <2>4
<1>12. CASE n # 0
  <2>1. \A i \in 1 .. n : g[i] = IF i = 1 THEN x[i] ELSE g[i - 1] \o x[i]
    BY <1>7, <1>9
  <2>2. FlattenSeq(x) = g[n]
    BY <1>6, <1>12, <2>1, FlattenSeqIs
  <2>3. g[n + 1] = g[n] \o y[n + 1]
    <3>1. n + 1 \in 1 .. n + 1 /\ n + 1 # 1 /\ (n + 1) - 1 = n
      BY <1>12
    <3> QED BY <1>9, <3>1
  <2> QED BY <1>4, <1>7, <1>10, <2>2, <2>3
<1> QED BY <1>11, <1>12

-----------------------------------------------------------------------------
(* Rules on top of rules.                                                  *)

LEMMA MergedRulesIs ==
  ASSUME NEW rules, IsList(rules), NEW src, IsList(src), NEW merged, merged = MergedRules(rules, src),
         NEW K, K = Unknown(rules, src)
  PROVE  /\ IsList(merged) /\ Len(rules) \in Nat /\ Len(merged) \in Nat /\ Len(rules) <= Len(merged)
         /\ \A k \in 1 .. Len(rules) :
              IF Hits(rules, src, k) = {} THEN merged[k] = rules[k]
              ELSE \E j \in Hits(rules, src, k) : merged[k] = src[j]
         /\ \A p \in Len(rules) + 1 .. Len(merged) :
              \E j \in K : Rank(K, j) = p - Len(rules) /\ merged[p] = src[j]
         /\ \A j \in K : /\ Len(rules) + Rank(K, j) \in Len(rules) + 1 .. Len(merged)
                         /\ merged[Len(rules) + Rank(K, j)] = src[j]
         /\ \A i, j \in K : Rank(K, i) = Rank(K, j) => i = j
<1>1. PICK u : u = Updated(rules, src)
  OBVIOUS
<1>2. /\ IsList(u) /\ Len(u) = Len(rules)
      /\ \A k \in 1 .. Len(rules) :
           IF Hits(rules, src, k) = {} THEN u[k] = rules[k]
           ELSE \E j \in Hits(rules, src, k) : u[k] = src[j]
  BY <1>1, UpdatedIs
<1>3. PICK c : c = Chosen(src, K)
  OBVIOUS
<1>4. /\ IsList(c)
      /\ \A i \in 1 .. Len(c) : \E j \in K : Rank(K, j) = i /\ c[i] = src[j]
      /\ \A j \in K : Rank(K, j) \in 1 .. Len(c) /\ c[Rank(K, j)] = src[j]
      /\ \A i, j \in K : Rank(K, i) = Rank(K, j) => i = j
  <2>1. K \in SUBSET (1 .. Len(src))
    BY UnknownIs
  <2> QED BY <1>3, <2>1, ChosenIs
<1>5. Len(rules) \in Nat /\ Len(c) \in Nat
  BY <1>4, ListIs
<1>6. IsJoin(merged, u, c)
  BY <1>1, <1>3 DEF MergedRules, IsJoin
<1>7. /\ IsList(merged) /\ Len(merged) = Len(rules) + Len(c)
      /\ \A k \in 1 .. Len(rules) : merged[k] = u[k]
      /\ \A i \in 1 .. Len(c) : merged[Len(rules) + i] = c[i]
  <2>1. /\ IsList(merged) /\ Len(merged) = Len(u) + Len(c)
        /\ \A k \in 1 .. Len(u) : merged[k] = u[k]
        /\ \A i \in 1 .. Len(c) : merged[Len(u) + i] = c[i]
    BY <1>2, <1>4, <1>6, JoinIs
  <2> QED BY <1>2, <2>1
<1>8. ASSUME NEW p \in Len(rules) + 1 .. Len(merged)
      PROVE  \E j \in K : Rank(K, j) = p - Len(rules) /\ merged[p] = src[j]
  <2>1. PICK i : i = p - Len(rules)
    OBVIOUS
  <2>2. i \in 1 .. Len(c) /\ p = Len(rules) + i
    BY <1>5, <1>7, <2>1
  <2>3. merged[p] = c[i]
    BY <1>7, <2>2
  <2>4. PICK j \in K : Rank(K, j) = i /\ c[i] = src[j]
    BY <1>4, <2>2
  <2> QED BY <2>1, <2>3, <2>4
<1>9. ASSUME NEW j \in K
      PROVE  /\ Len(rules) + Rank(K, j) \in Len(rules) + 1 .. Len(merged)
             /\ merged[Len(rules) + Rank(K, j)] = src[j]
  <2>1. Rank(K, j) \in 1 .. Len(c) /\ c[Rank(K, j)] = src[j]
    BY <1>4
  <2> QED BY <1>5, <1>7, <2>1
<1>10. ASSUME NEW k \in 1 .. Len(rules)
       PROVE  IF Hits(rules, src, k) = {} THEN merged[k] = rules[k]
              ELSE \E j \in Hits(rules, src, k) : merged[k] = src[j]
  BY <1>2, <1>7
<1>11. Len(merged) \in Nat /\ Len(rules) <= Len(merged)
  BY <1>5, <1>7
<1>12. \A i, j \in K : Rank(K, i) = Rank(K, j) => i = j
  BY <1>4
<1> QED BY <1>5, <1>7, <1>8, <1>9, <1>10, <1>11, <1>12

\* The one rule with a key.
Only(list, key, k) ==
  /\ k \in 1 .. Len(list) /\ list[k].key = key
  /\ \A j \in 1 .. Len(list) : list[j].key = key => j = k
NoneHas(list, key) == \A k \in 1 .. Len(list) : list[k].key # key

LEMMA HitsIs ==
  ASSUME NEW rules, IsList(rules), NEW src, IsList(src), NEW k
  PROVE  /\ \A j \in Hits(rules, src, k) : j \in 1 .. Len(src) /\ src[j].key = rules[k].key
         /\ \A j \in 1 .. Len(src) :
              src[j].key = rules[k].key /\ (\A i \in k + 1 .. Len(rules) : rules[i].key # src[j].key)
                => j \in Hits(rules, src, k)
         /\ \A j : j \in Unknown(rules, src)
                     <=> j \in 1 .. Len(src) /\ \A i \in 1 .. Len(rules) : rules[i].key # src[j].key
BY ListIs DEF Hits, Unknown

LEMMA KeysMerged ==
  ASSUME NEW rules, IsList(rules), NEW src, IsList(src), NEW merged, merged = MergedRules(rules, src),
         NEW k \in 1 .. Len(merged)
  PROVE  IF k \in 1 .. Len(rules) THEN merged[k].key = rules[k].key
         ELSE \E j \in Unknown(rules, src) :
                /\ k = Len(rules) + Rank(Unknown(rules, src), j)
                /\ j \in 1 .. Len(src) /\ merged[k] = src[j]
<1>1. PICK K : K = Unknown(rules, src)
  OBVIOUS
<1>2. /\ Len(rules) \in Nat /\ Len(merged) \in Nat
      /\ \A i \in 1 .. Len(rules) :
              IF Hits(rules, src, i) = {} THEN merged[i] = rules[i]
              ELSE \E j \in Hits(rules, src, i) : merged[i] = src[j]
      /\ \A p \in Len(rules) + 1 .. Len(merged) :
              \E j \in K : Rank(K, j) = p - Len(rules) /\ merged[p] = src[j]
  BY <1>1, MergedRulesIs
<1>3. CASE k \in 1 .. Len(rules)
  <2>1. CASE Hits(rules, src, k) = {}
    BY <1>2, <1>3, <2>1
  <2>2. CASE Hits(rules, src, k) # {}
    <3>1. PICK j \in Hits(rules, src, k) : merged[k] = src[j]
      BY <1>2, <1>3, <2>2
    <3>2. src[j].key = rules[k].key
      BY <3>1, HitsIs
    <3> QED BY <1>3, <3>1, <3>2
  <2> QED BY <1>3, <2>1, <2>2
<1>4. CASE k \notin 1 .. Len(rules)
  <2>1. k \in Len(rules) + 1 .. Len(merged)
    BY <1>2, <1>4
  <2>2. PICK j \in K : Rank(K, j) = k - Len(rules) /\ merged[k] = src[j]
    BY <1>2, <2>1
  <2>3. k = Len(rules) + Rank(K, j)
    BY <1>2, <2>2
  <2> QED BY <1>1, <1>4, <2>2, <2>3, HitsIs
<1> QED BY <1>3, <1>4

LEMMA KeysAdded ==
  ASSUME NEW rules, IsList(rules), NEW src, IsList(src), NEW merged, merged = MergedRules(rules, src),
         NEW k \in 1 .. Len(merged), k \notin 1 .. Len(rules)
  PROVE  \E j \in 1 .. Len(src) : merged[k] = src[j]
BY KeysMerged

\* A rule whose key only the merged ones have is put in its place; ...
LEMMA RuleReplaced ==
  ASSUME NEW rules, IsList(rules), NEW src, IsList(src), NEW merged, merged = MergedRules(rules, src),
         NEW key, NEW k, Only(rules, key, k), NEW i, Only(src, key, i)
  PROVE  Only(merged, key, k) /\ merged[k] = src[i]
<1>1. /\ IsList(merged) /\ Len(rules) \in Nat /\ Len(merged) \in Nat /\ Len(rules) <= Len(merged)
      /\ \A n \in 1 .. Len(rules) :
              IF Hits(rules, src, n) = {} THEN merged[n] = rules[n]
              ELSE \E j \in Hits(rules, src, n) : merged[n] = src[j]
  BY MergedRulesIs
<1>2. k \in 1 .. Len(rules) /\ rules[k].key = key /\ i \in 1 .. Len(src) /\ src[i].key = key
  BY DEF Only
<1>3. \A n \in k + 1 .. Len(rules) : rules[n].key # src[i].key
  BY <1>1, <1>2 DEF Only
<1>4. i \in Hits(rules, src, k) /\ \A j \in Hits(rules, src, k) : j = i
  <2>1. i \in Hits(rules, src, k)
    BY <1>2, <1>3, HitsIs
  <2>2. ASSUME NEW j \in Hits(rules, src, k) PROVE j = i
    <3>1. j \in 1 .. Len(src) /\ src[j].key = rules[k].key
      BY HitsIs
    <3> QED BY <1>2, <3>1 DEF Only
  <2> QED BY <2>1, <2>2
<1>5. merged[k] = src[i]
  BY <1>1, <1>2, <1>4
<1>6. ASSUME NEW n \in 1 .. Len(merged), merged[n].key = key PROVE n = k
  <2>1. CASE n \in 1 .. Len(rules)
    <3>1. merged[n].key = rules[n].key
      BY <2>1, KeysMerged
    <3> QED BY <1>6, <2>1, <3>1 DEF Only
  <2>2. CASE n \notin 1 .. Len(rules)
    <3>1. PICK j \in Unknown(rules, src) : j \in 1 .. Len(src) /\ merged[n] = src[j]
      BY <2>2, KeysMerged
    <3>2. rules[k].key # src[j].key
      BY <1>2, <3>1, HitsIs
    <3> QED BY <1>2, <1>6, <3>1, <3>2
  <2> QED BY <2>1, <2>2
<1> QED BY <1>1, <1>2, <1>5, <1>6 DEF Only

\* one whose key they do not have stays; ...
LEMMA RuleStays ==
  ASSUME NEW rules, IsList(rules), NEW src, IsList(src), NEW merged, merged = MergedRules(rules, src),
         NEW key, NEW k, Only(rules, key, k), NoneHas(src, key)
  PROVE  Only(merged, key, k) /\ merged[k] = rules[k]
<1>1. /\ IsList(merged) /\ Len(rules) \in Nat /\ Len(merged) \in Nat /\ Len(rules) <= Len(merged)
      /\ \A n \in 1 .. Len(rules) :
              IF Hits(rules, src, n) = {} THEN merged[n] = rules[n]
              ELSE \E j \in Hits(rules, src, n) : merged[n] = src[j]
  BY MergedRulesIs
<1>2. k \in 1 .. Len(rules) /\ rules[k].key = key
  BY DEF Only
<1>3. Hits(rules, src, k) = {}
  BY <1>2, HitsIs DEF NoneHas
<1>4. merged[k] = rules[k]
  BY <1>1, <1>2, <1>3
<1>5. ASSUME NEW n \in 1 .. Len(merged), merged[n].key = key PROVE n = k
  <2>1. CASE n \in 1 .. Len(rules)
    BY <1>5, <2>1, KeysMerged DEF Only
  <2>2. CASE n \notin 1 .. Len(rules)
    <3>1. PICK j \in Unknown(rules, src) : j \in 1 .. Len(src) /\ merged[n] = src[j]
      BY <2>2, KeysMerged
    <3> QED BY <1>5, <3>1 DEF NoneHas
  <2> QED BY <2>1, <2>2
<1> QED BY <1>1, <1>2, <1>4, <1>5 DEF Only

\* and one with a key that is new is put behind.
LEMMA RuleAdded ==
  ASSUME NEW rules, IsList(rules), NEW src, IsList(src), NEW merged, merged = MergedRules(rules, src),
         NEW key, NoneHas(rules, key), NEW i, Only(src, key, i)
  PROVE  \E k : Only(merged, key, k) /\ merged[k] = src[i]
<1>1. PICK K : K = Unknown(rules, src)
  OBVIOUS
<1>2. /\ IsList(merged) /\ Len(rules) \in Nat /\ Len(merged) \in Nat /\ Len(rules) <= Len(merged)
      /\ \A j \in K : /\ Len(rules) + Rank(K, j) \in Len(rules) + 1 .. Len(merged)
                      /\ merged[Len(rules) + Rank(K, j)] = src[j]
  BY <1>1, MergedRulesIs
<1>3. i \in 1 .. Len(src) /\ src[i].key = key
  BY DEF Only
<1>4. i \in K
  BY <1>1, <1>3, HitsIs DEF NoneHas
<1>5. PICK k : k = Len(rules) + Rank(K, i)
  OBVIOUS
<1>6. k \in 1 .. Len(merged) /\ merged[k] = src[i]
  BY <1>2, <1>4, <1>5
<1>7. ASSUME NEW n \in 1 .. Len(merged), merged[n].key = key PROVE n = k
  <2>1. CASE n \in 1 .. Len(rules)
    BY <1>7, <2>1, KeysMerged DEF NoneHas
  <2>2. CASE n \notin 1 .. Len(rules)
    <3>1. PICK j \in K : n = Len(rules) + Rank(K, j) /\ j \in 1 .. Len(src) /\ merged[n] = src[j]
      BY <1>1, <2>2, KeysMerged
    <3>2. j = i
      BY <1>7, <3>1 DEF Only
    <3> QED BY <1>5, <3>1, <3>2
  <2> QED BY <2>1, <2>2
<1> QED BY <1>3, <1>6, <1>7 DEF Only

LEMMA WithIs ==
  ASSUME NEW list, IsList(list), NEW key
  PROVE  /\ With(list, key) = {} <=> NoneHas(list, key)
         /\ \A k : With(list, key) = {k} <=> Only(list, key, k)
         /\ Cardinality(With(list, key)) <= 1 => NoneHas(list, key) \/ \E k : Only(list, key, k)
<1>1. DOMAIN list = 1 .. Len(list) /\ Len(list) \in Nat
  BY ListIs
<1>2. PICK W : W = With(list, key)
  OBVIOUS
<1>3. \A k : k \in W <=> k \in 1 .. Len(list) /\ list[k].key = key
  BY <1>1, <1>2 DEF With
<1>4. W = {} <=> NoneHas(list, key)
  BY <1>3 DEF NoneHas
<1>5. ASSUME NEW k PROVE W = {k} <=> Only(list, key, k)
  <2>1. ASSUME W = {k} PROVE Only(list, key, k)
    BY <1>3, <2>1 DEF Only
  <2>2. ASSUME Only(list, key, k) PROVE W = {k}
    <3>1. \A j : j \in W <=> j = k
      BY <1>3, <2>2 DEF Only
    <3> QED BY <3>1
  <2> QED BY <2>1, <2>2
<1>6. ASSUME Cardinality(W) <= 1 PROVE NoneHas(list, key) \/ \E k : Only(list, key, k)
  <2>1. W \in SUBSET (1 .. Len(list)) /\ 1 \in Int /\ Len(list) \in Int
    BY <1>1, <1>3
  <2>2. IsFiniteSet(1 .. Len(list))
    BY <2>1, FS_Interval
  <2>3. IsFiniteSet(W)
    BY <2>1, <2>2, FS_Subset
  <2>4. Cardinality(W) = 0 \/ Cardinality(W) = 1
    BY <1>6, <2>3, FS_CardinalityType
  <2>5. W = {} \/ \E k : W = {k}
    BY <2>3, <2>4, FS_EmptySet, FS_Singleton
  <2> QED BY <1>4, <1>5, <2>5
<1> QED BY <1>2, <1>4, <1>5, <1>6

\* RulesAreTop, key by key.
HasKey(layers, key) == \E j \in DOMAIN layers : ~NoneHas(layers[j].rules, key)
Once(layers, key) == \A j \in DOMAIN layers : Cardinality(With(layers[j].rules, key)) <= 1
TopOf(layers, key) == LastOf({0} \cup {j \in DOMAIN layers : With(layers[j].rules, key) # {}})
Stands(layers, rules, key) ==
  \E k, i : /\ Only(rules, key, k) /\ Only(layers[TopOf(layers, key)].rules, key, i)
            /\ rules[k] = layers[TopOf(layers, key)].rules[i]
HaveRules(layers) == \A j \in DOMAIN layers : IsList(layers[j].rules)

LEMMA TopOfIs ==
  ASSUME NEW layers, IsList(layers), HaveRules(layers), NEW key
  PROVE  /\ TopOf(layers, key) \in {0} \cup DOMAIN layers
         /\ HasKey(layers, key) => TopOf(layers, key) \in DOMAIN layers
         /\ \A j \in DOMAIN layers : ~NoneHas(layers[j].rules, key) => j <= TopOf(layers, key)
<1>1. DOMAIN layers = 1 .. Len(layers) /\ Len(layers) \in Nat
  BY ListIs
<1>2. PICK T : T = {0} \cup {j \in DOMAIN layers : With(layers[j].rules, key) # {}}
  OBVIOUS
<1>3. T \in SUBSET (0 .. Len(layers)) /\ 0 \in T
  BY <1>1, <1>2
<1>4. LastOf(T) \in T /\ \A j \in T : j <= LastOf(T)
  BY <1>1, <1>3, LargestOf
<1>5. TopOf(layers, key) = LastOf(T)
  BY <1>2 DEF TopOf
<1>6. \A j \in DOMAIN layers : ~NoneHas(layers[j].rules, key) => j \in T
  BY <1>2, WithIs DEF HaveRules
<1>7. HasKey(layers, key) => LastOf(T) # 0
  BY <1>1, <1>4, <1>6 DEF HasKey
<1> QED BY <1>2, <1>4, <1>5, <1>6, <1>7

LEMMA RulesAreTopIs ==
  ASSUME NEW layers, IsList(layers), HaveRules(layers), NEW rules, IsList(rules)
  PROVE  RulesAreTop(layers, rules)
           <=> \A key : HasKey(layers, key) /\ Once(layers, key) => Stands(layers, rules, key)
<1> DEFINE Tops(key) ==
             \E k \in DOMAIN rules, i \in DOMAIN layers[TopOf(layers, key)].rules :
               /\ With(rules, key) = {k} /\ With(layers[TopOf(layers, key)].rules, key) = {i}
               /\ rules[k] = layers[TopOf(layers, key)].rules[i]
<1>1. ASSUME NEW key
      PROVE  key \in UNION {{r.key : r \in ToSet(layers[j].rules)} : j \in DOMAIN layers}
               <=> HasKey(layers, key)
  <2>1. ASSUME NEW j \in DOMAIN layers
        PROVE  key \in {r.key : r \in ToSet(layers[j].rules)} <=> ~NoneHas(layers[j].rules, key)
    <3>1. PICK list : list = layers[j].rules
      OBVIOUS
    <3>2. DOMAIN list = 1 .. Len(list)
      BY <3>1, ListIs DEF HaveRules
    <3> QED BY <3>1, <3>2 DEF ToSet, NoneHas
  <2> QED BY <2>1 DEF HasKey
<1>2. ASSUME NEW key, HasKey(layers, key)
      PROVE  Tops(key) <=> Stands(layers, rules, key)
  <2>1. PICK t \in DOMAIN layers : t = TopOf(layers, key)
    BY <1>2, TopOfIs
  <2>2. PICK top : top = layers[t].rules
    OBVIOUS
  <2>4. IsList(top) /\ DOMAIN top = 1 .. Len(top) /\ DOMAIN rules = 1 .. Len(rules)
    BY <2>2, ListIs DEF HaveRules
  <2>5. \A k, i : /\ With(rules, key) = {k} <=> Only(rules, key, k)
                  /\ With(top, key) = {i} <=> Only(top, key, i)
                  /\ Only(rules, key, k) => k \in DOMAIN rules
                  /\ Only(top, key, i) => i \in DOMAIN top
    <3>1. ASSUME NEW k PROVE With(rules, key) = {k} <=> Only(rules, key, k)
      BY WithIs
    <3>2. ASSUME NEW i PROVE With(top, key) = {i} <=> Only(top, key, i)
      BY <2>4, WithIs
    <3>3. \A k, i : (Only(rules, key, k) => k \in DOMAIN rules) /\ (Only(top, key, i) => i \in DOMAIN top)
      BY <2>4 DEF Only
    <3> QED BY <3>1, <3>2, <3>3
  <2>6. (\E k \in DOMAIN rules, i \in DOMAIN top :
           With(rules, key) = {k} /\ With(top, key) = {i} /\ rules[k] = top[i])
          <=> \E k, i : Only(rules, key, k) /\ Only(top, key, i) /\ rules[k] = top[i]
    BY <2>5
  <2>7. Tops(key) <=> \E k \in DOMAIN rules, i \in DOMAIN top :
                          With(rules, key) = {k} /\ With(top, key) = {i} /\ rules[k] = top[i]
    BY <2>1, <2>2
  <2>8. Stands(layers, rules, key)
          <=> \E k, i : Only(rules, key, k) /\ Only(top, key, i) /\ rules[k] = top[i]
    BY <2>1, <2>2 DEF Stands
  <2> QED BY <2>6, <2>7, <2>8
<1>3. RulesAreTop(layers, rules)
        <=> \A key \in UNION {{r.key : r \in ToSet(layers[j].rules)} : j \in DOMAIN layers} :
              Once(layers, key) => Tops(key)
  BY DEF RulesAreTop, Once, TopWith, TopOf
<1> HIDE DEF Tops
<1> QED BY <1>1, <1>2, <1>3

Known(layers, rules) == \A k \in 1 .. Len(rules) : HasKey(layers, rules[k].key)

LEMMA KeysGrow ==
  ASSUME NEW layers, NEW l, NEW more, OneMore(more, layers, l), NEW key
  PROVE  HasKey(more, key) <=> HasKey(layers, key) \/ ~NoneHas(l.rules, key)
BY OneMoreIs DEF HasKey

LEMMA RulesOfLayers ==
  ASSUME NEW layers, NEW l, NEW more, OneMore(more, layers, l), HaveRules(more)
  PROVE  IsList(l.rules) /\ HaveRules(layers) /\ IsList(layers) /\ IsList(more)
<1>1. IsList(l.rules)
  BY OneMoreIs DEF HaveRules
<1>2. ASSUME NEW j \in DOMAIN layers PROVE IsList(layers[j].rules)
  <2>1. more[j] = layers[j] /\ j \in DOMAIN more
    BY OneMoreIs
  <2>2. IsList(more[j].rules)
    BY <2>1 DEF HaveRules
  <2> QED BY <2>1, <2>2
<1> QED BY <1>1, <1>2 DEF HaveRules, OneMore

LEMMA TopMoves ==
  ASSUME NEW layers, NEW l, NEW more, OneMore(more, layers, l), HaveRules(more), NEW key
  PROVE  /\ ~NoneHas(l.rules, key) => more[TopOf(more, key)] = l
         /\ NoneHas(l.rules, key) /\ HasKey(layers, key)
              => more[TopOf(more, key)] = layers[TopOf(layers, key)]
<1>1. PICK n \in Nat : n = Len(layers)
  BY OneMoreIs
<1>2. PICK T : T = {0} \cup {j \in DOMAIN layers : With(layers[j].rules, key) # {}}
  OBVIOUS
<1>3. PICK T2 : T2 = {0} \cup {j \in DOMAIN more : With(more[j].rules, key) # {}}
  OBVIOUS
<1>4. IsList(l.rules) /\ HaveRules(layers) /\ IsList(layers)
  BY RulesOfLayers
<1>5. With(l.rules, key) = {} <=> NoneHas(l.rules, key)
  BY <1>4, WithIs
<1>6. /\ T \in SUBSET (0 .. n) /\ 0 \in T /\ T2 \in SUBSET (0 .. n + 1)
      /\ \A j \in 0 .. n : j \in T2 <=> j \in T
      /\ n + 1 \in T2 <=> With(l.rules, key) # {}
  BY <1>1, <1>2, <1>3, OneMoreIs
<1>7. /\ LastOf(T) \in T
      /\ n + 1 \in T2 => LastOf(T2) = n + 1
      /\ n + 1 \notin T2 => T2 = T
  BY <1>6, TopGrows
<1>8. LastOf(T) = TopOf(layers, key) /\ LastOf(T2) = TopOf(more, key)
  BY <1>2, <1>3 DEF TopOf
<1>9. ASSUME ~NoneHas(l.rules, key) PROVE more[TopOf(more, key)] = l
  BY <1>1, <1>5, <1>6, <1>7, <1>8, <1>9, OneMoreIs
<1>10. ASSUME NoneHas(l.rules, key), HasKey(layers, key)
       PROVE  more[TopOf(more, key)] = layers[TopOf(layers, key)]
  <2>1. TopOf(more, key) = TopOf(layers, key)
    BY <1>5, <1>6, <1>7, <1>8, <1>10
  <2>2. TopOf(layers, key) \in DOMAIN layers
    BY <1>4, <1>10, TopOfIs
  <2> QED BY <2>1, <2>2, OneMoreIs
<1> QED BY <1>9, <1>10

LEMMA RulesGrow ==
  ASSUME NEW layers, NEW l, NEW more, OneMore(more, layers, l), HaveRules(more),
         NEW rules, IsList(rules), RulesAreTop(layers, rules), Known(layers, rules),
         NEW merged, merged = MergedRules(rules, l.rules)
  PROVE  RulesAreTop(more, merged) /\ Known(more, merged) /\ IsList(merged)
<1>1. PICK src : src = l.rules
  OBVIOUS
<1>2. IsList(src) /\ HaveRules(layers) /\ IsList(layers) /\ IsList(more)
  BY <1>1, RulesOfLayers
<1>3. IsList(merged) /\ merged = MergedRules(rules, src)
  BY <1>1, <1>2, MergedRulesIs
<1>4. ASSUME NEW k \in 1 .. Len(merged) PROVE HasKey(more, merged[k].key)
  <2>1. CASE k \in 1 .. Len(rules)
    <3>1. merged[k].key = rules[k].key
      BY <1>2, <1>3, <2>1, KeysMerged
    <3>2. PICK key : key = rules[k].key
      OBVIOUS
    <3>3. HasKey(layers, key)
      BY <2>1, <3>2 DEF Known
    <3> QED BY <3>1, <3>2, <3>3, KeysGrow
  <2>2. CASE k \notin 1 .. Len(rules)
    <3>1. PICK j : j \in 1 .. Len(src) /\ merged[k] = src[j]
      BY <1>2, <1>3, <2>2, KeysAdded
    <3>2. PICK key : key = src[j].key
      OBVIOUS
    <3>3. ~NoneHas(src, key)
      BY <3>1, <3>2 DEF NoneHas
    <3> QED BY <1>1, <3>1, <3>2, <3>3, KeysGrow
  <2> QED BY <2>1, <2>2
<1>5. ASSUME NEW key, HasKey(more, key), Once(more, key) PROVE Stands(more, merged, key)
  <2>1. /\ Cardinality(With(src, key)) <= 1
        /\ Once(layers, key)
    BY <1>1, <1>5, OneMoreIs DEF Once
  <2>2. HasKey(layers, key) => Stands(layers, rules, key)
    BY <1>2, <2>1, RulesAreTopIs
  <2>3. ~HasKey(layers, key) => NoneHas(rules, key)
    BY DEF Known, NoneHas
  <2>4. CASE ~NoneHas(src, key)
    <3>1. PICK i : Only(src, key, i)
      BY <1>2, <2>1, <2>4, WithIs
    <3>2. more[TopOf(more, key)] = l
      BY <1>1, <2>4, TopMoves
    <3>3. \E k : Only(merged, key, k) /\ merged[k] = src[i]
      <4>1. CASE HasKey(layers, key)
        <5>1. PICK k : Only(rules, key, k)
          BY <2>2, <4>1 DEF Stands
        <5> QED BY <1>2, <1>3, <3>1, <5>1, RuleReplaced
      <4>2. CASE ~HasKey(layers, key)
        BY <1>2, <1>3, <2>3, <3>1, <4>2, RuleAdded
      <4> QED BY <4>1, <4>2
    <3> QED BY <1>1, <3>1, <3>2, <3>3 DEF Stands
  <2>5. CASE NoneHas(src, key)
    <3>1. HasKey(layers, key)
      BY <1>1, <1>5, <2>5, KeysGrow
    <3>2. PICK top : top = layers[TopOf(layers, key)].rules
      OBVIOUS
    <3>3. PICK k, i : Only(rules, key, k) /\ Only(top, key, i) /\ rules[k] = top[i]
      BY <2>2, <3>1, <3>2 DEF Stands
    <3>4. more[TopOf(more, key)].rules = top
      BY <1>1, <2>5, <3>1, <3>2, TopMoves
    <3>5. Only(merged, key, k) /\ merged[k] = rules[k]
      BY <1>2, <1>3, <2>5, <3>3, RuleStays
    <3> QED BY <3>3, <3>4, <3>5 DEF Stands
  <2> QED BY <2>4, <2>5
<1>6. RulesAreTop(more, merged)
  BY <1>2, <1>3, <1>5, RulesAreTopIs
<1> QED BY <1>3, <1>4, <1>6 DEF Known

-----------------------------------------------------------------------------
(* A layer more on top of what layers amount to.                           *)

LayersOk(layers) == IsList(layers) /\ \A j \in DOMAIN layers : IsFileSpec(layers[j])

\* What layers amount to, with what a proof that adds a layer needs.
Amounts(layers, said) ==
  /\ Layered(layers, said) /\ IsList(said.rules)
  /\ job.entry = "profile" => Known(layers, said.rules)

LEMMA AmountsGrows ==
  ASSUME NEW layers, NEW l, NEW more, OneMore(more, layers, l), LayersOk(more),
         NEW x, Amounts(layers, x), NEW x2, Over(x2, x, l)
  PROVE  Amounts(more, x2)
<1>1. l = more[Len(layers) + 1] /\ IsFileSpec(l)
  BY OneMoreIs DEF LayersOk
<1>2. \A y : IsFileSpec(y) => IsList(y.rules) /\ IsList(y.gateways)
  BY DEF IsFileSpec, IsList
<1>3. HaveRules(more) /\ IsList(l.rules) /\ IsList(l.gateways)
  BY <1>1, <1>2 DEF LayersOk, HaveRules
<1>4. x2.schedule = TopString(more, LAMBDA y : y.schedule)
  BY ScheduleGrows DEF Amounts, Layered, Over
<1>5. x2.flags = TopFlags(more)
  BY FlagsGrow DEF Amounts, Layered, Over
<1>6. CASE job.entry = "profile"
  <2>1. x2.mev = [on |-> \E j \in DOMAIN more : more[j].mev.on,
                  image |-> TopString(more, LAMBDA y : y.mev.image)]
    <3>1. (\E j \in DOMAIN more : more[j].mev.on) <=> (\E j \in DOMAIN layers : layers[j].mev.on) \/ l.mev.on
      BY OneMoreIs
    <3>2. TopString(more, LAMBDA y : y.mev.image) = Or(l.mev.image, TopString(layers, LAMBDA y : y.mev.image))
      BY ImageGrows
    <3>3. PICK b \in BOOLEAN, c \in BOOLEAN :
            /\ b = \E j \in DOMAIN layers : layers[j].mev.on
            /\ c = \E j \in DOMAIN more : more[j].mev.on
      OBVIOUS
    <3>4. PICK s, t : s = TopString(layers, LAMBDA y : y.mev.image) /\ t = TopString(more, LAMBDA y : y.mev.image)
      OBVIOUS
    <3>5. x.mev = [on |-> b, image |-> s] /\ x2.mev = [on |-> x.mev.on \/ l.mev.on, image |-> Or(l.mev.image, x.mev.image)]
      BY <1>6, <3>3, <3>4 DEF Amounts, Layered, Over
    <3>6. x.mev.on = b /\ x.mev.image = s
      BY <3>5
    <3>7. x2.mev = [on |-> c, image |-> t]
      BY <3>1, <3>2, <3>3, <3>4, <3>5, <3>6
    <3> QED BY <3>3, <3>4, <3>7
  <2>2. /\ RulesAreTop(layers, x.rules) /\ Known(layers, x.rules) /\ IsList(x.rules)
        /\ x2.rules = MergedRules(x.rules, l.rules)
    BY <1>6 DEF Amounts, Layered, Over
  <2>3. PICK rules, merged : rules = x.rules /\ merged = x2.rules
    OBVIOUS
  <2>4. RulesAreTop(more, merged) /\ Known(more, merged) /\ IsList(merged)
    BY <1>3, <2>2, <2>3, RulesGrow
  <2>5. x2.gateways = Concat(more, "gateways")
    <3>1. Concat(more, "gateways") = Concat(layers, "gateways") \o l["gateways"]
      BY <1>3, ConcatGrows
    <3> QED BY <1>6, <3>1 DEF Amounts, Layered, Over
  <2> QED BY <1>4, <1>5, <1>6, <2>1, <2>3, <2>4, <2>5 DEF Amounts, Layered
<1>7. CASE job.entry # "profile"
  <2>1. PICK y : y = x.mev
    OBVIOUS
  <2>2. PICK z : z = x2.mev
    OBVIOUS
  <2>3. /\ y = LET top == TopWith(layers, LAMBDA u : u.mev.on) IN IF top = 0 THEN Off ELSE layers[top].mev
        /\ z = IF l.mev.on THEN l.mev ELSE y
    BY <1>7, <2>1, <2>2 DEF Amounts, Layered, Over
  <2>4. z = LET top == TopWith(more, LAMBDA u : u.mev.on) IN IF top = 0 THEN Off ELSE more[top].mev
    BY <2>3, SwitchGrows
  <2>5. Concat(more, "rules") = Concat(layers, "rules") \o l["rules"]
    BY <1>3, ConcatGrows
  <2>6. /\ x2.rules = Concat(more, "rules") /\ x2.rules = x.rules \o l.rules /\ IsList(x.rules)
        /\ x2.gateways = <<>>
    BY <1>7, <2>5 DEF Amounts, Layered, Over
  <2>7. IsList(x2.rules)
    <3>1. PICK a, b, c : a = x2.rules /\ b = x.rules /\ c = l.rules
      OBVIOUS
    <3>2. IsJoin(a, b, c)
      BY <2>6, <3>1 DEF IsJoin
    <3> QED BY <1>3, <2>6, <3>1, <3>2, JoinIs
  <2> QED BY <1>4, <1>5, <1>7, <2>2, <2>4, <2>6, <2>7 DEF Amounts, Layered
<1> QED BY <1>6, <1>7

-----------------------------------------------------------------------------
(* The inductive invariant.                                                *)

Own(n) == job.nodes[n].own

\* The files stay as they were decoded, but for the room behind the cluster's profiles.
FilesKept(m) ==
  /\ \A a \in DOMAIN Decoded(job) : a # ListAddr => m[a] = Decoded(job)[a]
  /\ IsList(m[ListAddr]) /\ Len(m[ListAddr]) = Len(job.shared) + job.spare
  /\ \A k \in 1 .. Len(job.shared) : m[ListAddr][k] = job.shared[k]

\* A node up to reached has put profiles over those of an earlier one.
Lost(from, reached) ==
  /\ Len(Own(from)) \in 1 .. job.spare
  /\ \E later \in from + 1 .. reached : ~job.nodes[later].disabled /\ Len(Own(later)) \in 1 .. job.spare

\* The list made for a node.
ListKept(m, from, reached, list) ==
  /\ IsSlice(m, list) /\ list.len = Len(Names(from))
  /\ list.array = ListAddr => job.entry = "cluster" /\ Len(Own(from)) \in 0 .. job.spare
  /\ list.array # ListAddr => list.array \notin DOMAIN Decoded(job)
  /\ \/ Elems(m, list) = Names(from)
     \/ list.array = ListAddr /\ Lost(from, reached)

Told(from, said) ==
  IF Untouched(from) THEN said = job.nodes[from].spec ELSE Layered(Layers(from), said)

\* A node that is done: nothing of it is a cell of the spec at work.
NodeOk(m, busy, reached, node) ==
  /\ IsTable(m, node.spec.flags) /\ IsSlice(m, node.spec.rules) /\ IsSlice(m, node.spec.gateways)
  /\ \A a \in DOMAIN m : CellOf(a, node.spec) => a # ListAddr /\ ~CellOf(a, busy)
  /\ node.profiles.array \in DOMAIN m => ~CellOf(node.profiles.array, busy)
  /\ ListKept(m, node.from, reached, node.profiles)
  /\ Told(node.from, Said(m, node.spec))

\* The first layers of a node: those of the profiles it names up to the k-th.
LayersTo(n, k) == [j \in 1 .. k |-> job.files[LastOf(Named(Names(n)[j]))].spec]

\* The node at work: its spec has cells of its own, and amounts to the layers so far.
Merging(m, n, b) ==
  /\ n \in 1 .. Len(job.nodes) /\ ~Untouched(n)
  /\ b = [names |-> b.names, k |-> b.k, spec |-> b.spec]
  /\ b.k \in 1 .. b.names.len + 1
  /\ Owned(m, b.spec)
  /\ ListKept(m, n, n, b.names)
  /\ b.names.array \in DOMAIN m => ~CellOf(b.names.array, b.spec)
  /\ LayersOk(LayersTo(n, b.k - 1))
  /\ Amounts(LayersTo(n, b.k - 1), Said(m, b.spec))

ProfileAt(n) == SpecAt("file", LastOf(Named(n)), job.files[LastOf(Named(n))].spec)
ProfilesOk(p) == \A n \in DOMAIN p : n \in Loaded /\ p[n] = ProfileAt(n)

Reached(p, n) == IF p = "merge" THEN n ELSE n - 1

\* A state of the call: its place, profiles, index, nodes, node at work and memory.
Sound(p, loaded, n, done, b, m) ==
  /\ p \in {"load", "expand", "merge", "done", "failed"}
  /\ n \in 1 .. Len(job.nodes) + 1
  /\ p \in {"load", "failed"} => done = <<>>
  /\ ProfilesOk(loaded)
  /\ IsMemory(m) /\ FilesKept(m)
  /\ p = "merge" => Merging(m, n, b)
  /\ p # "merge" => b = NoBuild
  /\ IsList(done)
  /\ \A k \in 1 .. Len(done) :
       done[k].from \in 1 .. n - 1 /\ NodeOk(m, b.spec, Reached(p, n), done[k])

Running == job \in Jobs /\ Sound(pc, profiles, at, nodes, build, mem)

Ended ==
  /\ pc = "gone" /\ job = Gone
  /\ profiles = <<>> /\ at = 1 /\ nodes = <<>> /\ build = NoBuild /\ mem = <<>>

IInv == Running \/ Ended
-----------------------------------------------------------------------------
(* The files.                                                              *)

LEMMA FileSpecIs ==
  ASSUME NEW spec, IsFileSpec(spec)
  PROVE  /\ IsList(spec.rules) /\ IsList(spec.gateways) /\ IsMap(spec.flags)
         /\ spec = [schedule |-> spec.schedule, mev |-> spec.mev, flags |-> spec.flags,
                    rules |-> spec.rules, gateways |-> spec.gateways]
<1>1. IsList(spec.rules) /\ IsList(spec.gateways) /\ IsMap(spec.flags)
  BY DEF IsFileSpec, IsList, IsMap
<1>2. PICK F : F = {"schedule", "mev", "flags", "rules", "gateways"}
  OBVIOUS
<1>3. PICK a, b, c, d, e : a = spec.schedule /\ b = spec.mev /\ c = spec.flags /\ d = spec.rules /\ e = spec.gateways
  OBVIOUS
<1>4. spec = [f \in F |-> spec[f]]
  BY <1>2 DEF IsFileSpec
<1>5. [schedule |-> a, mev |-> b, flags |-> c, rules |-> d, gateways |-> e] = [f \in F |-> spec[f]]
  BY <1>2, <1>3
<1> QED BY <1>1, <1>3, <1>4, <1>5

LEMMA JobIs ==
  ASSUME job \in Jobs
  PROVE  /\ job.entry \in {"cluster", "directory", "profile"} /\ job.spare \in Nat
         /\ IsList(job.shared) /\ IsList(job.files) /\ IsList(job.nodes)
         /\ Len(job.shared) \in Nat /\ Len(job.files) \in Nat /\ Len(job.nodes) \in Nat
         /\ \A k \in 1 .. Len(job.files) : IsFileSpec(job.files[k].spec)
         /\ \A k \in 1 .. Len(job.nodes) : IsFileSpec(job.nodes[k].spec) /\ IsList(job.nodes[k].own)
<1>1. /\ job.entry \in {"cluster", "directory", "profile"} /\ job.spare \in Nat
      /\ IsList(job.shared) /\ IsList(job.files) /\ IsList(job.nodes)
      /\ \A f \in ToSet(job.files) : IsFileSpec(f.spec)
      /\ \A n \in ToSet(job.nodes) : IsFileSpec(n.spec) /\ IsList(n.own)
  BY JobsAssumption DEF IsList
<1>2. /\ DOMAIN job.files = 1 .. Len(job.files) /\ DOMAIN job.nodes = 1 .. Len(job.nodes)
      /\ Len(job.shared) \in Nat /\ Len(job.files) \in Nat /\ Len(job.nodes) \in Nat
  BY <1>1, ListIs
<1>3. \A k \in 1 .. Len(job.files) : job.files[k] \in ToSet(job.files)
  BY <1>2 DEF ToSet
<1>4. \A k \in 1 .. Len(job.nodes) : job.nodes[k] \in ToSet(job.nodes)
  BY <1>2 DEF ToSet
<1> QED BY <1>1, <1>2, <1>3, <1>4

\* Where spec has been decoded to, as the k-th of its kind.
DecodedTo(kind, k, spec) ==
  \A f \in {"flags", "rules", "gateways"} :
    /\ <<kind, k, f>> \in DOMAIN Decoded(job) /\ <<kind, k, f>> # ListAddr
    /\ Decoded(job)[<<kind, k, f>>] = spec[f]

LEMMA DecodedIs ==
  /\ \A k \in 1 .. Len(job.files) : DecodedTo("file", k, job.files[k].spec)
  /\ \A k \in 1 .. Len(job.nodes) : DecodedTo("node", k, job.nodes[k].spec)
<1>1. ASSUME NEW k \in 1 .. Len(job.files), NEW f \in {"flags", "rules", "gateways"}
      PROVE  /\ <<"file", k, f>> \in DOMAIN Decoded(job) /\ <<"file", k, f>> # ListAddr
             /\ Decoded(job)[<<"file", k, f>>] = job.files[k].spec[f]
  <2>1. PICK a : a = <<"file", k, f>>
    OBVIOUS
  <2>2. a[1] = "file" /\ a[2] = k /\ a[3] = f /\ a # ListAddr /\ a \in Fields("file", job.files)
    BY <2>1 DEF ListAddr, Fields
  <2> QED BY <2>1, <2>2 DEF Decoded
<1>2. ASSUME NEW k \in 1 .. Len(job.nodes), NEW f \in {"flags", "rules", "gateways"}
      PROVE  /\ <<"node", k, f>> \in DOMAIN Decoded(job) /\ <<"node", k, f>> # ListAddr
             /\ Decoded(job)[<<"node", k, f>>] = job.nodes[k].spec[f]
  <2>1. PICK a : a = <<"node", k, f>>
    OBVIOUS
  <2>2. a[1] = "node" /\ a[2] = k /\ a[3] = f /\ a # ListAddr /\ a \in Fields("node", job.nodes)
    BY <2>1 DEF ListAddr, Fields
  <2> QED BY <2>1, <2>2 DEF Decoded
<1> QED BY <1>1, <1>2 DEF DecodedTo

LEMMA DecodedSlice ==
  ASSUME NEW m, NEW addr \in DOMAIN m, addr # Nil, NEW list, IsList(list), m[addr] = list,
         NEW s, s = Slice(addr, list)
  PROVE  IsSlice(m, s) /\ Elems(m, s) = list /\ (s.array = Nil \/ s.array = addr)
<1>1. CASE list = <<>>
  <2>1. s = NilSlice
    BY <1>1 DEF Slice
  <2> QED BY <1>1, <2>1, NilSliceIs
<1>2. CASE list # <<>>
  <2>1. s.array = addr /\ s.len = Len(list) /\ s = [array |-> s.array, len |-> s.len]
    BY <1>2 DEF Slice
  <2>2. IsSlice(m, s)
    BY <2>1, ListIs DEF IsSlice, Cap
  <2>3. PICK x : x = Elems(m, s)
    OBVIOUS
  <2>4. IsList(x) /\ Len(x) = Len(list) /\ \A k \in 1 .. Len(list) : x[k] = list[k]
    BY <2>1, <2>2, <2>3, SliceIs
  <2>5. x = list
    BY <2>4, ListsAgree
  <2> QED BY <2>1, <2>2, <2>3, <2>5
<1> QED BY <1>1, <1>2

LEMMA SpecAtIs ==
  ASSUME NEW m, IsMemory(m), FilesKept(m), NEW kind, NEW k, NEW spec, IsFileSpec(spec),
         DecodedTo(kind, k, spec), NEW x, x = SpecAt(kind, k, spec)
  PROVE  /\ IsLayer(m, x) /\ Said(m, x) = spec
         /\ \A a \in DOMAIN m : CellOf(a, x) => a # ListAddr /\ a \in DOMAIN Decoded(job)
<1>1. PICK af, ar, ag : af = <<kind, k, "flags">> /\ ar = <<kind, k, "rules">> /\ ag = <<kind, k, "gateways">>
  OBVIOUS
<1>2. /\ af \in DOMAIN m /\ af # Nil /\ af # ListAddr /\ af \in DOMAIN Decoded(job) /\ m[af] = spec.flags
      /\ ar \in DOMAIN m /\ ar # Nil /\ ar # ListAddr /\ ar \in DOMAIN Decoded(job) /\ m[ar] = spec.rules
      /\ ag \in DOMAIN m /\ ag # Nil /\ ag # ListAddr /\ ag \in DOMAIN Decoded(job) /\ m[ag] = spec.gateways
  BY <1>1, DecodedAddresses DEF DecodedTo, FilesKept, IsMemory
<1>3. IsList(spec.rules) /\ IsList(spec.gateways) /\ IsMap(spec.flags)
  BY FileSpecIs
<1>4. /\ x.flags = IF spec.flags = <<>> THEN Nil ELSE af
      /\ x.rules = Slice(ar, spec.rules) /\ x.gateways = Slice(ag, spec.gateways)
      /\ x.schedule = spec.schedule /\ x.mev = spec.mev
  BY <1>1 DEF SpecAt
<1>5. PICK sr, sg, lr, lg : sr = x.rules /\ sg = x.gateways /\ lr = spec.rules /\ lg = spec.gateways
  OBVIOUS
<1>6. IsSlice(m, sr) /\ Elems(m, sr) = lr /\ (sr.array = Nil \/ sr.array = ar)
  BY <1>2, <1>3, <1>4, <1>5, DecodedSlice
<1>7. IsSlice(m, sg) /\ Elems(m, sg) = lg /\ (sg.array = Nil \/ sg.array = ag)
  BY <1>2, <1>3, <1>4, <1>5, DecodedSlice
<1>8. IsTable(m, x.flags) /\ Table(m, x.flags) = spec.flags /\ (x.flags = Nil \/ x.flags = af)
  BY <1>2, <1>3, <1>4 DEF IsTable, Table
<1>9. IsLayer(m, x)
  BY <1>2, <1>5, <1>6, <1>7, <1>8 DEF IsLayer, CellOf
<1>10. Nil \notin DOMAIN m
  BY FreshIsFree
<1>11. \A a \in DOMAIN m : CellOf(a, x) => a # ListAddr /\ a \in DOMAIN Decoded(job)
  BY <1>2, <1>5, <1>6, <1>7, <1>8, <1>10 DEF CellOf
<1>12. Said(m, x) = spec
  BY <1>4, <1>5, <1>6, <1>7, <1>8, FileSpecIs DEF Said
<1> QED BY <1>9, <1>11, <1>12

-----------------------------------------------------------------------------
(* Names and layers.                                                       *)

LEMMA NamesIs ==
  ASSUME job \in Jobs, NEW n \in 1 .. Len(job.nodes)
  PROVE  /\ IsJoin(Names(n), job.shared, Own(n)) /\ IsList(Own(n))
         /\ IsList(Names(n)) /\ Len(Names(n)) = Len(job.shared) + Len(Own(n))
         /\ Len(Names(n)) \in Nat /\ Len(Own(n)) \in Nat
         /\ \A k \in 1 .. Len(job.shared) : Names(n)[k] = job.shared[k]
<1>1. IsList(Own(n)) /\ IsList(job.shared) /\ Len(job.shared) \in Nat /\ Len(Own(n)) \in Nat
  BY JobIs, ListIs DEF Own
<1>2. IsJoin(Names(n), job.shared, Own(n))
  BY JobsAssumption DEF Names, IsJoin, Own
<1>3. PICK z : z = Names(n)
  OBVIOUS
<1>4. IsList(z) /\ Len(z) = Len(job.shared) + Len(Own(n)) /\ \A k \in 1 .. Len(job.shared) : z[k] = job.shared[k]
  BY <1>1, <1>2, <1>3, JoinIs
<1> QED BY <1>1, <1>2, <1>3, <1>4

LEMMA LayersToIs ==
  ASSUME NEW n, NEW k \in Nat
  PROVE  /\ IsList(LayersTo(n, k)) /\ Len(LayersTo(n, k)) = k
         /\ \A j \in 1 .. k : LayersTo(n, k)[j] = job.files[LastOf(Named(Names(n)[j]))].spec
<1>1. PICK x : x = LayersTo(n, k)
  OBVIOUS
<1>2. x = [j \in 1 .. k |-> x[j]] /\ \A j \in 1 .. k : x[j] = job.files[LastOf(Named(Names(n)[j]))].spec
  BY <1>1 DEF LayersTo
<1> QED BY <1>1, <1>2, ListOf

LEMMA ProfileLayer ==
  ASSUME NEW n, NEW k \in Nat \ {0}, NEW l, l = job.files[LastOf(Named(Names(n)[k]))].spec
  PROVE  OneMore(LayersTo(n, k), LayersTo(n, k - 1), l)
<1>1. k - 1 \in Nat /\ k \in 1 .. k
  OBVIOUS
<1>2. /\ IsList(LayersTo(n, k)) /\ Len(LayersTo(n, k)) = k
      /\ \A j \in 1 .. k : LayersTo(n, k)[j] = job.files[LastOf(Named(Names(n)[j]))].spec
  BY LayersToIs
<1>3. /\ IsList(LayersTo(n, k - 1)) /\ Len(LayersTo(n, k - 1)) = k - 1
      /\ \A j \in 1 .. k - 1 : LayersTo(n, k - 1)[j] = job.files[LastOf(Named(Names(n)[j]))].spec
  BY <1>1, LayersToIs
<1> QED BY <1>1, <1>2, <1>3 DEF OneMore

LEMMA NodeLayer ==
  ASSUME job \in Jobs, NEW n \in 1 .. Len(job.nodes)
  PROVE  OneMore(Layers(n), LayersTo(n, Len(Names(n))), job.nodes[n].spec)
<1>1. PICK k \in Nat : k = Len(Names(n))
  BY NamesIs
<1>2. PICK x : x = LayersTo(n, k)
  OBVIOUS
<1>3. IsList(x) /\ Len(x) = k
  BY <1>2, LayersToIs
<1>4. PICK y : y = <<job.nodes[n].spec>>
  OBVIOUS
<1>5. IsList(y) /\ Len(y) = 1 /\ y[1] = job.nodes[n].spec
  BY <1>4 DEF IsList, ToSet
<1>6. PICK z : z = Layers(n)
  OBVIOUS
<1>7. IsJoin(z, x, y)
  BY <1>1, <1>2, <1>4, <1>6 DEF IsJoin, Layers, LayersTo
<1>8. /\ IsList(z) /\ Len(z) = Len(x) + Len(y)
      /\ \A j \in 1 .. Len(x) : z[j] = x[j]
      /\ \A j \in 1 .. Len(y) : z[Len(x) + j] = y[j]
  <2>1. IsList(x) /\ IsList(y) /\ IsJoin(z, x, y)
    BY <1>3, <1>5, <1>7
  <2> QED BY <2>1, JoinIs
<1>9. Len(z) = k + 1 /\ (\A j \in 1 .. k : z[j] = x[j]) /\ z[k + 1] = y[1]
  BY <1>3, <1>5, <1>8
<1> QED BY <1>1, <1>2, <1>3, <1>5, <1>6, <1>8, <1>9 DEF OneMore

LEMMA MoreLayersOk ==
  ASSUME NEW layers, NEW l, NEW more, OneMore(more, layers, l), LayersOk(layers), IsFileSpec(l)
  PROVE  LayersOk(more)
<1>1. ASSUME NEW j \in DOMAIN more PROVE IsFileSpec(more[j])
  <2>1. CASE j \in DOMAIN layers
    <3>1. more[j] = layers[j]
      BY <2>1, OneMoreIs
    <3>2. IsFileSpec(layers[j])
      BY <2>1 DEF LayersOk
    <3> QED BY <3>1, <3>2
  <2>2. CASE j = Len(layers) + 1
    BY <2>2, OneMoreIs
  <2> QED BY <2>1, <2>2, OneMoreIs
<1> QED BY <1>1 DEF LayersOk, OneMore

LEMMA LoadedIs ==
  ASSUME job \in Jobs, NEW n \in Loaded
  PROVE  LastOf(Named(n)) \in 1 .. Len(job.files)
<1>1. PICK K : K = Named(n)
  OBVIOUS
<1>2. Len(job.files) \in Nat
  BY JobIs
<1>3. K \in SUBSET (0 .. Len(job.files)) /\ K # {} /\ 0 \notin K
  BY <1>1, <1>2 DEF Named, Read, Loaded
<1>4. LastOf(K) \in K
  BY <1>2, <1>3, LargestOf
<1> QED BY <1>1, <1>2, <1>3, <1>4

\* A set with nothing but zero in it.
LEMMA LastOfZero ==
  ASSUME NEW T, T = {0}
  PROVE  LastOf(T) = 0
<1>1. T \in SUBSET (0 .. 0)
  OBVIOUS
<1> QED BY <1>1, LargestOf

LEMMA NoLayers ==
  ASSUME NEW m, NEW layers, IsList(layers), Len(layers) = 0
  PROVE  /\ LayersOk(layers) /\ Amounts(layers, Said(m, EmptySpec))
         /\ Owned(m, EmptySpec) /\ \A a : CellOf(a, EmptySpec) => a = Nil
<1>1. DOMAIN layers = {}
  BY ListIs
<1>2. PICK x : x = Said(m, EmptySpec)
  OBVIOUS
<1>3. /\ x.schedule = NoString /\ x.mev = Off /\ x.flags = <<>>
      /\ x.rules = Elems(m, NilSlice) /\ x.gateways = Elems(m, NilSlice)
  BY <1>2 DEF Said, EmptySpec, Table
<1>4. Elems(m, NilSlice) = <<>> /\ IsSlice(m, NilSlice) /\ NilSlice.array = Nil
  BY NilSliceIs
<1>5. x.schedule = TopString(layers, LAMBDA l : l.schedule)
  <2>1. PICK T : T = {0} \cup {j \in DOMAIN layers : layers[j].schedule # NoString}
    OBVIOUS
  <2>2. LastOf(T) = 0
    BY <1>1, <2>1, LastOfZero
  <2> QED BY <1>3, <2>1, <2>2 DEF TopString, TopWith
<1>6. x.mev.image = TopString(layers, LAMBDA l : l.mev.image)
  <2>1. PICK T : T = {0} \cup {j \in DOMAIN layers : layers[j].mev.image # NoString}
    OBVIOUS
  <2>2. LastOf(T) = 0
    BY <1>1, <2>1, LastOfZero
  <2> QED BY <1>3, <2>1, <2>2 DEF TopString, TopWith, Off
<1>7. x.mev = LET top == TopWith(layers, LAMBDA l : l.mev.on) IN IF top = 0 THEN Off ELSE layers[top].mev
  <2>1. PICK T : T = {0} \cup {j \in DOMAIN layers : layers[j].mev.on}
    OBVIOUS
  <2>2. LastOf(T) = 0
    BY <1>1, <2>1, LastOfZero
  <2> QED BY <1>3, <2>1, <2>2 DEF TopWith
<1>8. x.flags = TopFlags(layers)
  <2>1. PICK f : f = TopFlags(layers)
    OBVIOUS
  <2>2. DOMAIN f = {} /\ f = [k \in DOMAIN f |-> f[k]]
    BY <1>1, <2>1 DEF TopFlags
  <2>3. f = <<>>
    BY <2>2
  <2> QED BY <1>3, <2>1, <2>3
<1>9. \A field \in {"rules", "gateways"} : Concat(layers, field) = <<>>
  <2>1. ASSUME NEW field PROVE Concat(layers, field) = <<>>
    <3>1. PICK y : y = [j \in DOMAIN layers |-> layers[j][field]]
      OBVIOUS
    <3>2. y = [j \in 1 .. 0 |-> y[j]]
      BY <1>1, <3>1
    <3>3. IsList(y) /\ Len(y) = 0
      BY <3>2, ListOf
    <3>4. y = <<>>
      BY <3>3, EmptyList
    <3> QED BY <3>1, <3>3, <3>4 DEF Concat, FlattenSeq
  <2> QED BY <2>1
<1>10. IsList(x.rules) /\ Len(x.rules) = 0
  BY <1>3, <1>4, SliceIs, EmptyList
<1>11. RulesAreTop(layers, x.rules) /\ Known(layers, x.rules)
  <2>1. \A key : ~HasKey(layers, key)
    BY <1>1 DEF HasKey
  <2>2. HaveRules(layers)
    BY <1>1 DEF HaveRules
  <2>3. PICK rules : rules = x.rules
    OBVIOUS
  <2> QED BY <1>10, <2>1, <2>2, <2>3, RulesAreTopIs DEF Known
<1>12. Amounts(layers, x)
  <2>1. CASE job.entry = "profile"
    <3>1. x.mev = [on |-> \E j \in DOMAIN layers : layers[j].mev.on,
                   image |-> TopString(layers, LAMBDA l : l.mev.image)]
      <4>1. PICK s : s = TopString(layers, LAMBDA l : l.mev.image)
        OBVIOUS
      <4>2. (\E j \in DOMAIN layers : layers[j].mev.on) = FALSE
        BY <1>1
      <4>3. x.mev = [on |-> FALSE, image |-> s]
        BY <1>3, <1>6, <4>1 DEF Off
      <4> QED BY <4>1, <4>2, <4>3
    <3> QED BY <1>3, <1>4, <1>5, <1>8, <1>9, <1>10, <1>11, <2>1, <3>1 DEF Amounts, Layered
  <2>2. CASE job.entry # "profile"
    BY <1>3, <1>4, <1>5, <1>7, <1>8, <1>9, <1>10, <2>2 DEF Amounts, Layered
  <2> QED BY <2>1, <2>2
<1>13. LayersOk(layers)
  BY <1>1 DEF LayersOk
<1>14. \A a : CellOf(a, EmptySpec) => a = Nil
  BY <1>4 DEF CellOf, EmptySpec
<1>15. Owned(m, EmptySpec)
  BY <1>4, <1>14, DecodedAddresses DEF Owned, EmptySpec, IsTable
<1> QED BY <1>2, <1>12, <1>13, <1>14, <1>15

-----------------------------------------------------------------------------
(* What a step leaves of the nodes that are done.                          *)

LEMMA SaidStays ==
  ASSUME NEW m, NEW m2, DOMAIN m \subseteq DOMAIN m2, NEW sp,
         IsTable(m, sp.flags), IsSlice(m, sp.rules), IsSlice(m, sp.gateways),
         \A a \in DOMAIN m : CellOf(a, sp) => m2[a] = m[a]
  PROVE  /\ IsTable(m2, sp.flags) /\ IsSlice(m2, sp.rules) /\ IsSlice(m2, sp.gateways)
         /\ Said(m2, sp) = Said(m, sp)
<1>1. TableSame(m2, m, sp.flags)
  BY TableStays DEF IsTable, CellOf
<1>2. SliceSame(m2, m, sp.rules) /\ SliceSame(m2, m, sp.gateways)
  BY SliceStays DEF IsSlice, CellOf
<1> QED BY <1>1, <1>2 DEF TableSame, SliceSame, Said

LEMMA ListStays ==
  ASSUME NEW m, NEW m2, DOMAIN m \subseteq DOMAIN m2, NEW from, NEW reached, NEW list,
         ListKept(m, from, reached, list),
         list.array \in DOMAIN m => m2[list.array] = m[list.array]
  PROVE  ListKept(m2, from, reached, list)
<1>1. SliceSame(m2, m, list)
  BY SliceStays DEF ListKept, IsSlice
<1> QED BY <1>1 DEF ListKept, SliceSame

LEMMA NodeBesideWork ==
  ASSUME NEW m, IsMemory(m), NEW sp, NEW m2, IsMemory(m2), NEW sp2,
         KeepsBeside(sp, m2, m), Grown(sp2, sp, m),
         NEW reached, NEW node, NodeOk(m, sp, reached, node)
  PROVE  NodeOk(m2, sp2, reached, node)
<1>1. Nil \notin DOMAIN m /\ Nil \notin DOMAIN m2 /\ DOMAIN m \subseteq DOMAIN m2
  BY FreshIsFree DEF KeepsBeside
<1>2. ASSUME NEW a \in DOMAIN m, ~CellOf(a, sp)
      PROVE  m2[a] = m[a] /\ ~CellOf(a, sp2)
  BY <1>2 DEF KeepsBeside, Grown, CellOf
<1>3. PICK s : s = node.spec
  OBVIOUS
<1>4. PICK list : list = node.profiles
  OBVIOUS
<1>5. /\ IsTable(m, s.flags) /\ IsSlice(m, s.rules) /\ IsSlice(m, s.gateways)
      /\ \A a \in DOMAIN m : CellOf(a, s) => a # ListAddr /\ ~CellOf(a, sp)
      /\ list.array \in DOMAIN m => ~CellOf(list.array, sp)
      /\ ListKept(m, node.from, reached, list)
      /\ Told(node.from, Said(m, s))
  BY <1>3, <1>4 DEF NodeOk
<1>6. /\ IsTable(m2, s.flags) /\ IsSlice(m2, s.rules) /\ IsSlice(m2, s.gateways)
      /\ Said(m2, s) = Said(m, s)
  BY <1>1, <1>2, <1>5, SaidStays
<1>7. ListKept(m2, node.from, reached, list)
  BY <1>1, <1>2, <1>5, ListStays
<1>8. \A a \in DOMAIN m2 : CellOf(a, s) => a \in DOMAIN m
  BY <1>1, <1>5 DEF CellOf, IsTable, IsSlice
<1>9. \A a \in DOMAIN m2 : CellOf(a, s) => a # ListAddr /\ ~CellOf(a, sp2)
  BY <1>2, <1>5, <1>8
<1>10. list.array \in DOMAIN m2 => ~CellOf(list.array, sp2)
  BY <1>1, <1>2, <1>5 DEF ListKept, IsSlice
<1> QED BY <1>3, <1>4, <1>5, <1>6, <1>7, <1>9, <1>10 DEF NodeOk

LEMMA LostGrows ==
  ASSUME NEW from \in Nat, NEW n \in Nat, Lost(from, n - 1)
  PROVE  Lost(from, n)
BY DEF Lost

LEMMA ListReached ==
  ASSUME NEW m, NEW from \in Nat, NEW n \in Nat, NEW list, ListKept(m, from, n - 1, list)
  PROVE  ListKept(m, from, n, list)
BY LostGrows DEF ListKept

LEMMA NodeReached ==
  ASSUME NEW m, NEW sp, NEW n \in Nat, NEW node, node.from \in Nat, NodeOk(m, sp, n - 1, node)
  PROVE  NodeOk(m, sp, n, node)
BY ListReached DEF NodeOk

\* Node n puts its profiles into the room of the cluster's list.
Fills(n) == ~job.nodes[n].disabled /\ Len(Own(n)) \in 1 .. job.spare

LEMMA ListOverwritten ==
  ASSUME job \in Jobs, NEW m, FilesKept(m), NEW m2, FilesKept(m2), DOMAIN m \subseteq DOMAIN m2,
         ListAddr \in DOMAIN m, NEW n \in Nat, Fills(n),
         NEW from \in 1 .. n - 1, from <= Len(job.nodes), NEW list, list.array = ListAddr,
         ListKept(m, from, n - 1, list)
  PROVE  ListKept(m2, from, n, list)
<1>0. from \in 1 .. Len(job.nodes)
  BY JobIs
<1>1. /\ IsList(Names(from)) /\ Len(Names(from)) = Len(job.shared) + Len(Own(from))
      /\ Len(Own(from)) \in Nat /\ Len(job.shared) \in Nat /\ job.spare \in Nat
      /\ \A k \in 1 .. Len(job.shared) : Names(from)[k] = job.shared[k]
  BY <1>0, NamesIs, JobIs
<1>2. /\ list.len = Len(job.shared) + Len(Own(from)) /\ Len(Own(from)) \in 0 .. job.spare
      /\ job.entry = "cluster" /\ list = [array |-> list.array, len |-> list.len]
  BY <1>1 DEF ListKept, IsSlice
<1>3. IsSlice(m2, list)
  <2>1. /\ ListAddr # Nil /\ ListAddr \in DOMAIN m2
        /\ IsList(m2[ListAddr]) /\ Len(m2[ListAddr]) = Len(job.shared) + job.spare
    BY DEF FilesKept, ListAddr, Nil
  <2>2. Cap(m2, list) = Len(job.shared) + job.spare
    BY <2>1 DEF Cap
  <2>3. list.len \in 0 .. Cap(m2, list)
    BY <1>1, <1>2, <2>2
  <2> QED BY <1>2, <2>1, <2>3 DEF IsSlice
<1>4. CASE Len(Own(from)) = 0
  <2>1. PICK x : x = Elems(m2, list)
    OBVIOUS
  <2>2. IsList(x) /\ Len(x) = Len(job.shared) /\ \A k \in 1 .. Len(job.shared) : x[k] = m2[ListAddr][k]
    BY <1>1, <1>2, <1>3, <1>4, <2>1, SliceIs
  <2>3. PICK y : y = Names(from)
    OBVIOUS
  <2>4. IsList(y) /\ Len(y) = Len(x) /\ \A k \in 1 .. Len(x) : x[k] = y[k]
    BY <1>1, <1>4, <2>2, <2>3 DEF FilesKept
  <2>5. x = y
    BY <2>2, <2>4, ListsAgree
  <2> QED BY <1>1, <1>2, <1>3, <2>1, <2>3, <2>5 DEF ListKept
<1>5. CASE Len(Own(from)) # 0
  <2>1. Lost(from, n)
    <3>1. n \in from + 1 .. n /\ Len(Own(from)) \in 1 .. job.spare
      BY <1>1, <1>2, <1>5
    <3> QED BY <3>1 DEF Lost, Fills
  <2> QED BY <1>1, <1>2, <1>3, <2>1 DEF ListKept
<1> QED BY <1>4, <1>5

LEMMA NodeBesideList ==
  ASSUME job \in Jobs, NEW m, IsMemory(m), FilesKept(m), NEW m2, IsMemory(m2), FilesKept(m2),
         KeepsBut(ListAddr, m2, m), NEW n \in 1 .. Len(job.nodes), Keeps(m2, m) \/ Fills(n),
         NEW node, node.from \in 1 .. n - 1, NodeOk(m, EmptySpec, n - 1, node)
  PROVE  NodeOk(m2, EmptySpec, n, node)
<1>1. /\ Nil \notin DOMAIN m /\ Nil \notin DOMAIN m2 /\ DOMAIN m \subseteq DOMAIN m2
      /\ ListAddr \in DOMAIN m
  BY FreshIsFree DEF KeepsBut, IsMemory, Decoded
<1>2. PICK s : s = node.spec
  OBVIOUS
<1>3. PICK list : list = node.profiles
  OBVIOUS
<1>4. PICK from \in 1 .. n - 1 : from = node.from
  OBVIOUS
<1>5. /\ IsTable(m, s.flags) /\ IsSlice(m, s.rules) /\ IsSlice(m, s.gateways)
      /\ \A a \in DOMAIN m : CellOf(a, s) => a # ListAddr
      /\ ListKept(m, from, n - 1, list)
      /\ Told(from, Said(m, s))
  BY <1>2, <1>3, <1>4 DEF NodeOk
<1>6. \A a \in DOMAIN m : CellOf(a, s) => m2[a] = m[a]
  BY <1>5 DEF KeepsBut
<1>7. /\ IsTable(m2, s.flags) /\ IsSlice(m2, s.rules) /\ IsSlice(m2, s.gateways)
      /\ Said(m2, s) = Said(m, s)
  BY <1>1, <1>5, <1>6, SaidStays
<1>8. \A a \in DOMAIN m2 : CellOf(a, s) => a \in DOMAIN m
  BY <1>1, <1>5 DEF CellOf, IsTable, IsSlice
<1>9. \A a \in DOMAIN m2 : ~CellOf(a, EmptySpec)
  BY <1>1 DEF CellOf, EmptySpec, NilSlice
<1>10. ListKept(m2, from, n, list)
  <2>0. n \in Nat /\ from \in Nat /\ from <= Len(job.nodes)
    BY JobIs
  <2>1. CASE list.array = ListAddr /\ Fills(n)
    BY <1>1, <1>5, <2>0, <2>1, ListOverwritten
  <2>2. CASE list.array # ListAddr \/ Keeps(m2, m)
    <3>1. ListKept(m2, from, n - 1, list)
      BY <1>1, <1>5, <2>2, ListStays DEF KeepsBut, Keeps
    <3> QED BY <2>0, <3>1, ListReached
  <2> QED BY <2>1, <2>2
<1> QED BY <1>2, <1>3, <1>4, <1>5, <1>7, <1>8, <1>9, <1>10 DEF NodeOk

\* The list that a node starts from: the cluster's, or none.
ListFrom(m, s) ==
  /\ IsSlice(m, s) /\ Elems(m, s) = job.shared /\ s.len = Len(job.shared)
  /\ s.array = Nil \/ s.array = ListAddr
  /\ s.array = ListAddr => job.entry = "cluster" /\ Cap(m, s) = Len(job.shared) + job.spare

LEMMA ListMade ==
  ASSUME job \in Jobs, NEW m, IsMemory(m), FilesKept(m), NEW n \in 1 .. Len(job.nodes),
         ~job.nodes[n].disabled, NEW s, ListFrom(m, s), NEW own, own = Own(n),
         NEW r, Appended(r, m, s, own)
  PROVE  /\ IsMemory(r.mem) /\ FilesKept(r.mem) /\ ListKept(r.mem, n, n, r.slice)
         /\ KeepsBut(ListAddr, r.mem, m) /\ (Keeps(r.mem, m) \/ Fills(n))
<1>1. PICK m2, list : m2 = r.mem /\ list = r.slice
  OBVIOUS
<1>2. /\ IsMemory(m2) /\ IsSlice(m2, list) /\ list.len = s.len + Len(own)
      /\ Elems(m2, list) = Elems(m, s) \o own
      /\ \/ list.array = s.array /\ KeepsBut(s.array, m2, m) /\ Cap(m2, list) = Cap(m, s)
         \/ list.array = Fresh(m) /\ Keeps(m2, m)
      /\ own = <<>> => m2 = m /\ list = s
  BY <1>1 DEF Appended
<1>3. /\ IsJoin(Names(n), job.shared, own) /\ IsList(own)
      /\ Len(Names(n)) = Len(job.shared) + Len(own)
      /\ Len(own) \in Nat /\ Len(job.shared) \in Nat /\ job.spare \in Nat
      /\ \A k \in 1 .. Len(job.shared) : Names(n)[k] = job.shared[k]
  BY NamesIs, JobIs
<1>4. Elems(m2, list) = Names(n) /\ list.len = Len(Names(n)) /\ s.len = Len(job.shared)
  BY <1>2, <1>3 DEF ListFrom, IsJoin
<1>5. /\ Fresh(m) \notin DOMAIN m /\ Nil \notin DOMAIN m /\ Fresh(m) # Nil
      /\ ListAddr \in DOMAIN Decoded(job) /\ DOMAIN Decoded(job) \subseteq DOMAIN m /\ ListAddr # Nil
  BY FreshIsFree, DecodedAddresses DEF IsMemory, Decoded
<1>6. ASSUME Keeps(m2, m) PROVE FilesKept(m2) /\ KeepsBut(ListAddr, m2, m)
  BY <1>5, <1>6 DEF FilesKept, Keeps, KeepsBut
<1>7. CASE list.array = Fresh(m) /\ Keeps(m2, m)
  <2>1. ListKept(m2, n, n, list)
    BY <1>2, <1>4, <1>5, <1>7 DEF ListKept
  <2> QED BY <1>1, <1>2, <1>6, <1>7, <2>1
<1>8. CASE list.array = s.array /\ s.array = Nil
  <2>1. list.len = 0
    BY <1>2, <1>8 DEF IsSlice, Cap
  <2>2. own = <<>>
    BY <1>3, <1>4, <2>1, EmptyList
  <2>3. Keeps(m2, m)
    BY <1>2, <2>2 DEF Keeps
  <2>4. ListKept(m2, n, n, list)
    BY <1>2, <1>4, <1>5, <1>8 DEF ListKept
  <2> QED BY <1>1, <1>2, <1>6, <2>3, <2>4
<1>9. CASE /\ list.array = s.array /\ KeepsBut(s.array, m2, m) /\ Cap(m2, list) = Cap(m, s)
           /\ s.array = ListAddr
  <2>1. /\ job.entry = "cluster" /\ Cap(m2, list) = Len(job.shared) + job.spare
        /\ Cap(m2, list) = Len(m2[ListAddr]) /\ IsList(m2[ListAddr])
    BY <1>2, <1>5, <1>9 DEF ListFrom, Cap, IsSlice
  <2>2. Len(own) \in 0 .. job.spare
    BY <1>2, <1>3, <1>4, <2>1 DEF IsSlice
  <2>3. ListKept(m2, n, n, list)
    BY <1>2, <1>4, <1>9, <2>1, <2>2 DEF ListKept
  <2>4. ASSUME NEW k \in 1 .. Len(job.shared) PROVE m2[ListAddr][k] = job.shared[k]
    <3>1. k \in 1 .. list.len
      BY <1>3, <1>4
    <3>2. Elems(m2, list)[k] = m2[ListAddr][k]
      <4>1. IsSlice(m2, list) /\ list.array = ListAddr
        BY <1>2, <1>9
      <4> QED BY <3>1, <4>1, SliceIs
    <3> QED BY <1>3, <1>4, <3>2
  <2>5. FilesKept(m2)
    BY <1>5, <1>9, <2>1, <2>4 DEF FilesKept, KeepsBut
  <2>6. Keeps(m2, m) \/ Fills(n)
    <3>1. CASE own = <<>>
      BY <1>2, <3>1 DEF Keeps
    <3>2. CASE own # <<>>
      <4>1. Len(own) # 0
        BY <1>3, <3>2, EmptyList
      <4> QED BY <2>2, <4>1 DEF Fills
    <3> QED BY <3>1, <3>2
  <2> QED BY <1>1, <1>2, <1>9, <2>3, <2>5, <2>6
<1> QED BY <1>2, <1>7, <1>8, <1>9 DEF ListFrom

-----------------------------------------------------------------------------
(* The job stays, and what is said of it.                                  *)

LEMMA LayeredStays ==
  ASSUME job' = job, NEW layers, NEW said
  PROVE  Layered(layers, said)' <=> Layered(layers, said)
<1>1. CASE job.entry = "profile"
  BY <1>1 DEF Layered, TopString, TopWith, TopFlags, RulesAreTop, Concat
<1>2. CASE job.entry # "profile"
  BY <1>2 DEF Layered, TopString, TopWith, TopFlags, RulesAreTop, Concat
<1> QED BY <1>1, <1>2

LEMMA MemoryStays ==
  ASSUME job' = job, NEW m
  PROVE  (IsMemory(m)' <=> IsMemory(m)) /\ (FilesKept(m)' <=> FilesKept(m))
<1>1. IsMemory(m)' <=> IsMemory(m)
  BY DEF IsMemory
<1>2. FilesKept(m)' <=> FilesKept(m)
  BY DEF FilesKept
<1> QED BY <1>1, <1>2

LEMMA NamesStay ==
  ASSUME job' = job, NEW n
  PROVE  /\ Names(n)' = Names(n) /\ Own(n)' = Own(n) /\ Layers(n)' = Layers(n)
         /\ Untouched(n)' <=> Untouched(n)
<1>1. Names(n)' = Names(n)
  BY DEF Names
<1>2. Own(n)' = Own(n)
  BY DEF Own
<1>3. Layers(n)' = Layers(n)
  BY DEF Layers, Names, Named, Read
<1>4. Untouched(n)' <=> Untouched(n)
  BY DEF Untouched
<1> QED BY <1>1, <1>2, <1>3, <1>4

LEMMA ListKeptStays ==
  ASSUME job' = job, NEW m, NEW from, NEW reached, NEW list
  PROVE  ListKept(m, from, reached, list)' <=> ListKept(m, from, reached, list)
<1>1. Lost(from, reached)' <=> Lost(from, reached)
  BY DEF Lost, Own
<1> QED BY <1>1, NamesStay DEF ListKept

LEMMA ToldStays ==
  ASSUME job' = job, NEW from, NEW said
  PROVE  Told(from, said)' <=> Told(from, said)
<1>1. PICK layers : layers = Layers(from)
  OBVIOUS
<1>2. Layers(from)' = layers
  BY <1>1, NamesStay
<1>3. Layered(layers, said)' <=> Layered(layers, said)
  BY LayeredStays
<1> QED BY <1>1, <1>2, <1>3, NamesStay DEF Told

LEMMA NodeOkStays ==
  ASSUME job' = job, NEW m, NEW busy, NEW reached, NEW node
  PROVE  NodeOk(m, busy, reached, node)' <=> NodeOk(m, busy, reached, node)
<1>1. PICK said : said = Said(m, node.spec)
  OBVIOUS
<1>2. PICK from, list : from = node.from /\ list = node.profiles
  OBVIOUS
<1>3. Told(from, said)' <=> Told(from, said)
  BY ToldStays
<1>4. ListKept(m, from, reached, list)' <=> ListKept(m, from, reached, list)
  BY ListKeptStays
<1> QED BY <1>1, <1>2, <1>3, <1>4 DEF NodeOk

LEMMA MergingStays ==
  ASSUME job' = job, NEW m, NEW n, NEW b
  PROVE  Merging(m, n, b)' <=> Merging(m, n, b)
<1>1. PICK said, sp, list : said = Said(m, b.spec) /\ sp = b.spec /\ list = b.names
  OBVIOUS
<1>2. PICK layers : layers = LayersTo(n, b.k - 1)
  OBVIOUS
<1>3. LayersTo(n, b.k - 1)' = layers
  BY <1>2 DEF LayersTo, Names, Named, Read
<1>4. ListKept(m, n, n, list)' <=> ListKept(m, n, n, list)
  BY ListKeptStays
<1>5. Owned(m, sp)' <=> Owned(m, sp)
  BY DEF Owned
<1>6. Layered(layers, said)' <=> Layered(layers, said)
  BY LayeredStays
<1>7. Amounts(layers, said)' <=> Amounts(layers, said)
  BY <1>6 DEF Amounts
<1> QED BY <1>1, <1>2, <1>3, <1>4, <1>5, <1>7, NamesStay DEF Merging

LEMMA ProfilesStay ==
  ASSUME job' = job, NEW p
  PROVE  ProfilesOk(p)' <=> ProfilesOk(p)
BY DEF ProfilesOk, ProfileAt, Loaded, Named, Read

LEMMA SoundStays ==
  ASSUME job' = job, NEW p, NEW loaded, NEW n, NEW done, NEW b, NEW m
  PROVE  Sound(p, loaded, n, done, b, m)' <=> Sound(p, loaded, n, done, b, m)
<1>1. PICK busy, reached : busy = b.spec /\ reached = Reached(p, n)
  OBVIOUS
<1>2. ASSUME NEW k PROVE NodeOk(m, busy, reached, done[k])' <=> NodeOk(m, busy, reached, done[k])
  <2>1. PICK node : node = done[k]
    OBVIOUS
  <2> QED BY <2>1, NodeOkStays
<1> QED BY <1>1, <1>2, MemoryStays, MergingStays, ProfilesStay DEF Sound

\* To show that a step keeps the invariant it is enough to look at the call it leaves.
LEMMA SoundStep ==
  ASSUME job' = job, job \in Jobs, Sound(pc', profiles', at', nodes', build', mem')
  PROVE  IInv'
<1>1. PICK p, loaded, n, done, b, m :
        p = pc' /\ loaded = profiles' /\ n = at' /\ done = nodes' /\ b = build' /\ m = mem'
  OBVIOUS
<1>2. Sound(p, loaded, n, done, b, m)
  BY <1>1
<1>3. Sound(p, loaded, n, done, b, m)'
  BY <1>2, SoundStays
<1>4. Sound(pc, profiles, at, nodes, build, mem)'
  BY <1>1, <1>3
<1> QED BY <1>4 DEF IInv, Running

-----------------------------------------------------------------------------
(* The first state.                                                        *)

LEMMA FieldsFinite ==
  ASSUME NEW kind, NEW specs, Len(specs) \in Nat
  PROVE  IsFiniteSet(Fields(kind, specs))
<1>1. IsFiniteSet(1 .. Len(specs))
  <2>1. 1 \in Int /\ Len(specs) \in Int
    OBVIOUS
  <2> QED BY <2>1, FS_Interval
<1>2. ASSUME NEW field
      PROVE  IsFiniteSet({<<kind, k, field>> : k \in 1 .. Len(specs)})
  <2>1. PICK S, T : S = 1 .. Len(specs) /\ T = {<<kind, k, field>> : k \in 1 .. Len(specs)}
    OBVIOUS
  <2>2. PICK f : f = [k \in S |-> <<kind, k, field>>]
    OBVIOUS
  <2>3. f \in Surjection(S, T)
    BY <2>1, <2>2 DEF Surjection
  <2> QED BY <1>1, <2>1, <2>3, FS_Surjection
<1>3. PICK A, B, C : /\ A = {<<kind, k, "flags">> : k \in 1 .. Len(specs)}
                     /\ B = {<<kind, k, "rules">> : k \in 1 .. Len(specs)}
                     /\ C = {<<kind, k, "gateways">> : k \in 1 .. Len(specs)}
  OBVIOUS
<1>4. IsFiniteSet(A) /\ IsFiniteSet(B) /\ IsFiniteSet(C)
  BY <1>2, <1>3
<1>5. PICK D : D = A \cup B
  OBVIOUS
<1>6. IsFiniteSet(D)
  BY <1>4, <1>5, FS_Union
<1>7. IsFiniteSet(D \cup C)
  BY <1>4, <1>6, FS_Union
<1>8. Fields(kind, specs) = D \cup C
  BY <1>3, <1>5 DEF Fields
<1> QED BY <1>7, <1>8

LEMMA DecodedMemory ==
  ASSUME job \in Jobs
  PROVE  IsMemory(Decoded(job)) /\ FilesKept(Decoded(job))
<1>1. IsFiniteSet(Fields("file", job.files)) /\ IsFiniteSet(Fields("node", job.nodes))
  BY JobIs, FieldsFinite
<1>2. PICK A, B : A = Fields("file", job.files) /\ B = Fields("node", job.nodes)
  OBVIOUS
<1>3. PICK C : C = A \cup B
  OBVIOUS
<1>4. IsFiniteSet(C)
  BY <1>1, <1>2, <1>3, FS_Union
<1>5. IsFiniteSet(C \cup {ListAddr})
  BY <1>4, FS_AddElement
<1>6. DOMAIN Decoded(job) = C \cup {ListAddr} /\ IsMap(Decoded(job))
  BY <1>2, <1>3 DEF Decoded, IsMap
<1>7. IsMemory(Decoded(job))
  BY <1>5, <1>6 DEF IsMemory
<1>8. /\ IsList(Decoded(job)[ListAddr])
      /\ Len(Decoded(job)[ListAddr]) = Len(job.shared) + job.spare
      /\ \A k \in 1 .. Len(job.shared) : Decoded(job)[ListAddr][k] = job.shared[k]
  <2>1. PICK room : room = [k \in 1 .. job.spare |-> Blank]
    OBVIOUS
  <2>2. room = [k \in 1 .. job.spare |-> room[k]] /\ job.spare \in Nat
    BY <2>1, JobIs
  <2>3. IsList(room) /\ Len(room) = job.spare
    BY <2>2, ListOf
  <2>4. PICK z : z = Decoded(job)[ListAddr]
    OBVIOUS
  <2>5. IsJoin(z, job.shared, room)
    BY <2>1, <2>4 DEF IsJoin, Decoded
  <2>6. IsList(job.shared)
    BY JobIs
  <2>7. /\ IsList(z) /\ Len(z) = Len(job.shared) + Len(room)
        /\ \A k \in 1 .. Len(job.shared) : z[k] = job.shared[k]
    BY <2>3, <2>5, <2>6, JoinIs
  <2> QED BY <2>3, <2>4, <2>7
<1> QED BY <1>7, <1>8 DEF FilesKept

LEMMA InventoryInit ==
  ASSUME Init
  PROVE  IInv
<1>1. IsMemory(Decoded(job)) /\ FilesKept(Decoded(job)) /\ Len(job.nodes) \in Nat /\ job \in Jobs
  BY DecodedMemory, JobIs DEF Init
<1>2. IsList(nodes) /\ Len(nodes) = 0
  BY DEF Init, IsList
<1>3. ProfilesOk(profiles)
  BY DEF Init, ProfilesOk
<1>4. Sound(pc, profiles, at, nodes, build, mem)
  BY <1>1, <1>2, <1>3 DEF Init, Sound
<1> QED BY <1>1, <1>4 DEF IInv, Running

-----------------------------------------------------------------------------
(* The steps.                                                              *)

IsLonger(more, done, x) == more = Append(done, x)

LEMMA MoreNodes ==
  ASSUME NEW done, IsList(done), NEW x, NEW more, IsLonger(more, done, x)
  PROVE  /\ IsList(more) /\ Len(more) = Len(done) + 1 /\ Len(done) \in Nat
         /\ \A k \in 1 .. Len(done) : more[k] = done[k]
         /\ more[Len(done) + 1] = x
<1> DEFINE S == ToSet(done) \cup {x}
<1>1. done \in Seq(S) /\ x \in S
  BY DEF IsList, ToSet
<1> HIDE DEF S
<1>2. /\ more \in Seq(S) /\ Len(more) = Len(done) + 1 /\ Len(done) \in Nat
      /\ \A k \in 1 .. Len(done) : more[k] = done[k]
      /\ more[Len(done) + 1] = x
  BY <1>1 DEF IsLonger
<1>3. more = [k \in 1 .. Len(more) |-> more[k]] /\ Len(more) \in Nat
  <2>1. PICK j \in Seq(S) : j = more
    BY <1>2
  <2>2. j = [k \in 1 .. Len(j) |-> j[k]] /\ Len(j) \in Nat
    OBVIOUS
  <2> QED BY <2>1, <2>2
<1> QED BY <1>2, <1>3, ListOf

LEMMA SoundNode ==
  ASSUME job \in Jobs, NEW n \in Nat, NEW m, NEW busy, NEW done, IsList(done),
         NEW x, x.from = n, NodeOk(m, busy, n, x),
         \A k \in 1 .. Len(done) : done[k].from \in 1 .. n - 1 /\ NodeOk(m, busy, n, done[k]),
         NEW more, IsLonger(more, done, x), n # 0
  PROVE  /\ IsList(more)
         /\ \A k \in 1 .. Len(more) : more[k].from \in 1 .. n /\ NodeOk(m, busy, n, more[k])
<1>1. /\ IsList(more) /\ Len(more) = Len(done) + 1 /\ Len(done) \in Nat
      /\ \A k \in 1 .. Len(done) : more[k] = done[k]
      /\ more[Len(done) + 1] = x
  BY MoreNodes
<1>2. ASSUME NEW k \in 1 .. Len(more) PROVE more[k].from \in 1 .. n /\ NodeOk(m, busy, n, more[k])
  <2>1. CASE k \in 1 .. Len(done)
    <3>1. more[k] = done[k] /\ done[k].from \in 1 .. n - 1 /\ NodeOk(m, busy, n, done[k])
      BY <1>1, <2>1
    <3> QED BY <3>1
  <2>2. CASE k = Len(done) + 1
    BY <1>1, <2>2
  <2> QED BY <1>1, <2>1, <2>2
<1> QED BY <1>1, <1>2

LEMMA LoadStep ==
  ASSUME Running, LoadProfiles
  PROVE  IInv'
<1>1. \/ pc' = "failed" /\ profiles' = profiles
      \/ pc' = "expand" /\ profiles' = [n \in Loaded |-> ProfileAt(n)]
  BY DEF LoadProfiles, ProfileAt
<1>2. /\ pc = "load" /\ job' = job /\ at' = at /\ nodes' = nodes /\ build' = build /\ mem' = mem
  BY DEF LoadProfiles
<1>3. ProfilesOk(profiles')
  BY <1>1 DEF ProfilesOk, Running, Sound
<1>4. Sound(pc', profiles', at', nodes', build', mem')
  <2>1. PICK p, loaded : p = pc' /\ loaded = profiles'
    OBVIOUS
  <2>2. Sound(p, loaded, at, nodes, build, mem)
    BY <1>1, <1>2, <1>3, <2>1 DEF Running, Sound, Reached
  <2> QED BY <1>2, <2>1, <2>2
<1> QED BY <1>2, <1>4, SoundStep DEF Running

LEMMA KeepStep ==
  ASSUME Running, KeepNode
  PROVE  IInv'
<1>1. /\ pc = "expand" /\ at <= Len(job.nodes) /\ Untouched(at)
      /\ nodes' = Append(nodes, [from |-> at, spec |-> NodeSpec, profiles |-> NilSlice]) /\ at' = at + 1
      /\ job' = job /\ pc' = pc /\ profiles' = profiles /\ build' = build /\ mem' = mem
  BY DEF KeepNode
<1>2. /\ job \in Jobs /\ at \in 1 .. Len(job.nodes) + 1 /\ Len(job.nodes) \in Nat
      /\ IsMemory(mem) /\ FilesKept(mem) /\ build = NoBuild /\ IsList(nodes) /\ ProfilesOk(profiles)
      /\ \A k \in 1 .. Len(nodes) : nodes[k].from \in 1 .. at - 1 /\ NodeOk(mem, EmptySpec, at - 1, nodes[k])
  BY <1>1, JobIs DEF Running, Sound, Reached, NoBuild
<1>3. PICK n \in 1 .. Len(job.nodes) : n = at
  BY <1>1, <1>2
<1>4. PICK x : x = [from |-> at, spec |-> NodeSpec, profiles |-> NilSlice]
  OBVIOUS
<1>5. PICK sp : sp = x.spec
  OBVIOUS
<1>6. sp = SpecAt("node", n, job.nodes[n].spec) /\ x.from = n /\ x.profiles = NilSlice
  BY <1>3, <1>4, <1>5 DEF NodeSpec, Node
<1>7. IsFileSpec(job.nodes[n].spec) /\ DecodedTo("node", n, job.nodes[n].spec)
  BY <1>2, JobIs, DecodedIs
<1>8. /\ IsLayer(mem, sp) /\ Said(mem, sp) = job.nodes[n].spec
      /\ \A a \in DOMAIN mem : CellOf(a, sp) => a # ListAddr
  BY <1>2, <1>6, <1>7, SpecAtIs
<1>9. Nil \notin DOMAIN mem /\ Nil \notin DOMAIN Decoded(job) /\ Nil # ListAddr
  BY <1>2, FreshIsFree DEF IsMemory, ListAddr, Nil
<1>10. ListKept(mem, n, n, NilSlice)
  <2>1. job.shared = <<>> /\ job.nodes[n].own = <<>>
    BY <1>1, <1>2, <1>3, JobsAssumption DEF Untouched
  <2>2. Names(n) = <<>>
    BY <2>1 DEF Names
  <2>3. PICK y : y = Names(n)
    OBVIOUS
  <2>4. Len(y) = 0 /\ y = <<>>
    BY <2>2, <2>3
  <2> QED BY <1>9, <2>3, <2>4, NilSliceIs DEF ListKept
<1>11. NodeOk(mem, EmptySpec, n, x)
  <2>1. Told(n, Said(mem, sp))
    BY <1>1, <1>3, <1>8 DEF Told
  <2>2. \A a \in DOMAIN mem : ~CellOf(a, EmptySpec)
    BY <1>9 DEF CellOf, EmptySpec, NilSlice
  <2>3. NilSlice.array = Nil
    BY NilSliceIs
  <2> QED BY <1>5, <1>6, <1>8, <1>9, <1>10, <2>1, <2>2, <2>3 DEF NodeOk, IsLayer
<1>12. \A k \in 1 .. Len(nodes) : nodes[k].from \in 1 .. n - 1 /\ NodeOk(mem, EmptySpec, n, nodes[k])
  <2>1. ASSUME NEW k \in 1 .. Len(nodes) PROVE nodes[k].from \in 1 .. n - 1 /\ NodeOk(mem, EmptySpec, n, nodes[k])
    <3>1. PICK node : node = nodes[k]
      OBVIOUS
    <3>2. node.from \in 1 .. n - 1 /\ NodeOk(mem, EmptySpec, n - 1, node) /\ n \in Nat
      BY <1>2, <1>3, <3>1
    <3>3. node.from \in Nat
      BY <3>2
    <3> QED BY <3>1, <3>2, <3>3, NodeReached
  <2> QED BY <2>1
<1>13. PICK more : more = nodes' /\ IsLonger(more, nodes, x)
  BY <1>1, <1>4 DEF IsLonger
<1>14. n \in Nat /\ n # 0
  BY <1>2
<1>15. /\ IsList(more)
       /\ \A k \in 1 .. Len(more) : more[k].from \in 1 .. n /\ NodeOk(mem, EmptySpec, n, more[k])
  BY <1>2, <1>6, <1>11, <1>12, <1>13, <1>14, SoundNode
<1>16. Sound("expand", profiles, n + 1, more, NoBuild, mem)
  <2>1. Reached("expand", n + 1) = n /\ (n + 1) - 1 = n /\ n + 1 \in 1 .. Len(job.nodes) + 1
    BY <1>2 DEF Reached
  <2>2. NoBuild.spec = EmptySpec
    BY DEF NoBuild
  <2> QED BY <1>2, <1>15, <2>1, <2>2 DEF Sound
<1> QED BY <1>1, <1>2, <1>3, <1>13, <1>16, SoundStep

\* The conjuncts of a running call that a step on its nodes needs.
AtWork ==
  /\ job \in Jobs /\ at \in 1 .. Len(job.nodes) + 1 /\ Len(job.nodes) \in Nat
  /\ IsMemory(mem) /\ FilesKept(mem) /\ IsList(nodes) /\ ProfilesOk(profiles)

LEMMA WaitingIs ==
  ASSUME Running, pc = "expand"
  PROVE  /\ AtWork /\ build = NoBuild /\ NoBuild.spec = EmptySpec
         /\ \A k \in 1 .. Len(nodes) : nodes[k].from \in 1 .. at - 1 /\ NodeOk(mem, EmptySpec, at - 1, nodes[k])
BY JobIs DEF Running, Sound, Reached, NoBuild, AtWork

LEMMA WorkingIs ==
  ASSUME Running, pc = "merge"
  PROVE  /\ AtWork /\ Merging(mem, at, build) /\ NoBuild.spec = EmptySpec
         /\ \A k \in 1 .. Len(nodes) : nodes[k].from \in 1 .. at - 1 /\ NodeOk(mem, build.spec, at, nodes[k])
BY JobIs DEF Running, Sound, Reached, NoBuild, AtWork

LEMMA SkipStep ==
  ASSUME Running, SkipDisabled
  PROVE  IInv'
<1>1. /\ pc = "expand" /\ at <= Len(job.nodes) /\ at' = at + 1
      /\ job' = job /\ pc' = pc /\ profiles' = profiles /\ nodes' = nodes /\ build' = build /\ mem' = mem
  BY DEF SkipDisabled
<1>2. /\ AtWork /\ build = NoBuild /\ NoBuild.spec = EmptySpec
      /\ \A k \in 1 .. Len(nodes) : nodes[k].from \in 1 .. at - 1 /\ NodeOk(mem, EmptySpec, at - 1, nodes[k])
  BY <1>1, WaitingIs
<1>3. PICK n \in 1 .. Len(job.nodes) : n = at
  BY <1>1, <1>2 DEF AtWork
<1>4. ASSUME NEW k \in 1 .. Len(nodes) PROVE nodes[k].from \in 1 .. n /\ NodeOk(mem, EmptySpec, n, nodes[k])
  <2>1. PICK node : node = nodes[k]
    OBVIOUS
  <2>2. node.from \in 1 .. n - 1 /\ NodeOk(mem, EmptySpec, n - 1, node) /\ n \in Nat
    BY <1>2, <1>3, <2>1 DEF AtWork
  <2>3. node.from \in Nat /\ node.from \in 1 .. n
    BY <2>2
  <2> QED BY <2>1, <2>2, <2>3, NodeReached
<1>5. Sound("expand", profiles, n + 1, nodes, NoBuild, mem)
  <2>1. Reached("expand", n + 1) = n /\ (n + 1) - 1 = n /\ n + 1 \in 1 .. Len(job.nodes) + 1
    BY <1>2 DEF Reached, AtWork
  <2> QED BY <1>2, <1>4, <2>1 DEF Sound, AtWork
<1> QED BY <1>1, <1>2, <1>3, <1>5, SoundStep DEF AtWork

LEMMA StartStep ==
  ASSUME Running, StartNode
  PROVE  IInv'
<1>1. /\ pc = "expand" /\ at <= Len(job.nodes) /\ ~Node.disabled /\ ~Untouched(at)
      /\ mem' = AllProfiles.mem /\ build' = [names |-> AllProfiles.slice, k |-> 1, spec |-> EmptySpec]
      /\ pc' = "merge" /\ job' = job /\ profiles' = profiles /\ at' = at /\ nodes' = nodes
  BY DEF StartNode
<1>2. /\ AtWork
      /\ \A k \in 1 .. Len(nodes) : nodes[k].from \in 1 .. at - 1 /\ NodeOk(mem, EmptySpec, at - 1, nodes[k])
  BY <1>1, WaitingIs
<1>3. PICK n \in 1 .. Len(job.nodes) : n = at
  BY <1>1, <1>2 DEF AtWork
<1>4. PICK m : m = mem
  OBVIOUS
<1>5. job \in Jobs /\ IsMemory(m) /\ FilesKept(m) /\ ~job.nodes[n].disabled /\ ~Untouched(n)
  BY <1>1, <1>2, <1>3, <1>4 DEF AtWork, Node
<1>6. PICK own : own = Own(n) /\ IsList(own)
  BY <1>5, NamesIs
<1>7. PICK r : r = AllProfiles
  OBVIOUS
<1>8. PICK s : r = AppendTo(m, s, own) /\ ListFrom(m, s)
  <2>1. CASE job.entry = "cluster" /\ ~(job.shared = <<>> /\ job.spare = 0)
    <3>1. PICK s : s = [array |-> ListAddr, len |-> Len(job.shared)]
      OBVIOUS
    <3>2. r = AppendTo(m, s, own)
      BY <1>3, <1>4, <1>6, <1>7, <2>1, <3>1 DEF AllProfiles, Own, Node
    <3>3. s.array = ListAddr /\ s.len = Len(job.shared) /\ s = [array |-> s.array, len |-> s.len]
      BY <3>1
    <3>4. /\ IsList(m[ListAddr]) /\ Len(m[ListAddr]) = Len(job.shared) + job.spare
          /\ \A k \in 1 .. Len(job.shared) : m[ListAddr][k] = job.shared[k]
          /\ Len(job.shared) \in Nat /\ job.spare \in Nat /\ ListAddr # Nil /\ ListAddr \in DOMAIN m
          /\ IsList(job.shared)
      <4>1. ListAddr \in DOMAIN Decoded(job) /\ ListAddr # Nil
        BY DEF Decoded, ListAddr, Nil
      <4>2. ListAddr \in DOMAIN m
        BY <1>5, <4>1 DEF IsMemory
      <4> QED BY <1>5, <4>1, <4>2, JobIs DEF FilesKept
    <3>5. Cap(m, s) = Len(job.shared) + job.spare /\ IsSlice(m, s)
      BY <3>3, <3>4 DEF Cap, IsSlice
    <3>6. PICK x : x = Elems(m, s)
      OBVIOUS
    <3>7. IsList(x) /\ Len(x) = Len(job.shared) /\ \A k \in 1 .. Len(job.shared) : x[k] = m[ListAddr][k]
      BY <3>3, <3>5, <3>6, SliceIs
    <3>8. PICK y : y = job.shared
      OBVIOUS
    <3>9. x = y
      BY <3>4, <3>7, <3>8, ListsAgree
    <3> QED BY <2>1, <3>2, <3>3, <3>5, <3>6, <3>8, <3>9 DEF ListFrom
  <2>2. CASE job.entry # "cluster" \/ (job.shared = <<>> /\ job.spare = 0)
    <3>1. r = AppendTo(m, NilSlice, own)
      BY <1>3, <1>4, <1>6, <1>7, <2>2 DEF AllProfiles, Own, Node
    <3>2. job.shared = <<>>
      BY <1>5, <2>2, JobsAssumption
    <3>3. Len(job.shared) = 0
      BY <3>2
    <3>4. ListFrom(m, NilSlice)
      <4>1. Nil # ListAddr
        BY DEF Nil, ListAddr
      <4> QED BY <3>2, <3>3, <4>1, NilSliceIs DEF ListFrom
    <3> QED BY <3>1, <3>4
  <2> QED BY <2>1, <2>2
<1>9. Appended(r, m, s, own)
  BY <1>5, <1>6, <1>8, AppendToIs DEF ListFrom
<1>10. PICK m2, list : m2 = r.mem /\ list = r.slice
  OBVIOUS
<1>11. /\ IsMemory(m2) /\ FilesKept(m2) /\ ListKept(m2, n, n, list)
       /\ KeepsBut(ListAddr, m2, m) /\ (Keeps(m2, m) \/ Fills(n))
  BY <1>5, <1>6, <1>8, <1>9, <1>10, ListMade
<1>12. PICK b : b = [names |-> list, k |-> 1, spec |-> EmptySpec]
  OBVIOUS
<1>13. Merging(m2, n, b)
  <2>1. /\ b.names = list /\ b.k = 1 /\ b.spec = EmptySpec
        /\ b = [names |-> b.names, k |-> b.k, spec |-> b.spec]
    BY <1>12
  <2>2. PICK layers : layers = LayersTo(n, 0)
    OBVIOUS
  <2>3. IsList(layers) /\ Len(layers) = 0
    BY <2>2, LayersToIs
  <2>4. /\ LayersOk(layers) /\ Amounts(layers, Said(m2, EmptySpec))
        /\ Owned(m2, EmptySpec) /\ \A a : CellOf(a, EmptySpec) => a = Nil
    BY <2>3, NoLayers
  <2>5. Nil \notin DOMAIN m2
    BY <1>11, FreshIsFree
  <2>6. list.len \in Nat
    BY <1>5, <1>11, NamesIs DEF ListKept
  <2>7. b.k - 1 = 0 /\ b.k \in 1 .. b.names.len + 1
    BY <2>1, <2>6
  <2> QED BY <1>5, <1>11, <2>1, <2>2, <2>4, <2>5, <2>7 DEF Merging
<1>14. ASSUME NEW k \in 1 .. Len(nodes)
       PROVE  nodes[k].from \in 1 .. n - 1 /\ NodeOk(m2, EmptySpec, n, nodes[k])
  <2>1. PICK node : node = nodes[k]
    OBVIOUS
  <2>2. node.from \in 1 .. n - 1 /\ NodeOk(m, EmptySpec, n - 1, node)
    BY <1>2, <1>3, <1>4, <2>1
  <2>3. NodeOk(m2, EmptySpec, n, node)
    BY <1>5, <1>11, <2>2, NodeBesideList
  <2> QED BY <2>1, <2>2, <2>3
<1>15. Sound("merge", profiles, n, nodes, b, m2)
  <2>1. Reached("merge", n) = n /\ n \in 1 .. Len(job.nodes) + 1
    BY <1>2 DEF Reached, AtWork
  <2>2. b.spec = EmptySpec
    BY <1>12
  <2> QED BY <1>2, <1>11, <1>13, <1>14, <2>1, <2>2 DEF Sound, AtWork
<1>16. pc' = "merge" /\ profiles' = profiles /\ at' = n /\ nodes' = nodes /\ build' = b /\ mem' = m2
  BY <1>1, <1>3, <1>7, <1>10, <1>12
<1> QED BY <1>1, <1>5, <1>15, <1>16, SoundStep

LEMMA UnknownStep ==
  ASSUME Running, UnknownProfile
  PROVE  IInv'
<1>1. /\ pc = "merge" /\ nodes' = <<>> /\ build' = NoBuild /\ pc' = "failed"
      /\ job' = job /\ profiles' = profiles /\ at' = at /\ mem' = mem
  BY DEF UnknownProfile
<1>2. AtWork
  BY <1>1, WorkingIs
<1>3. PICK done : done = <<>>
  OBVIOUS
<1>4. IsList(done) /\ Len(done) = 0
  BY <1>3 DEF IsList
<1>5. Sound("failed", profiles, at, done, NoBuild, mem)
  BY <1>2, <1>3, <1>4 DEF Sound, AtWork
<1> QED BY <1>1, <1>2, <1>3, <1>5, SoundStep DEF AtWork

LEMMA ReturnStep ==
  ASSUME Running, Return
  PROVE  IInv'
<1>1. /\ pc = "expand" /\ pc' = "done"
      /\ job' = job /\ profiles' = profiles /\ at' = at /\ nodes' = nodes /\ build' = build /\ mem' = mem
  BY DEF Return
<1>2. Sound("done", profiles, at, nodes, build, mem) /\ job \in Jobs
  BY <1>1 DEF Running, Sound, Reached
<1> QED BY <1>1, <1>2, SoundStep

-----------------------------------------------------------------------------
(* A layer goes on the spec at work.                                       *)

LEMMA FilesBeside ==
  ASSUME NEW m, IsMemory(m), FilesKept(m), NEW sp, Owned(m, sp), NEW m2, KeepsBeside(sp, m2, m)
  PROVE  FilesKept(m2)
<1>1. \A a \in DOMAIN Decoded(job) : m2[a] = m[a]
  BY DEF IsMemory, Owned, KeepsBeside
<1>2. ListAddr \in DOMAIN Decoded(job)
  BY DEF Decoded
<1> QED BY <1>1, <1>2 DEF FilesKept

\* What laying a layer on the spec of b leaves, the layers so far being more.
Laid(r, m, n, b, more) ==
  /\ IsMemory(r.mem) /\ FilesKept(r.mem) /\ Owned(r.mem, r.spec)
  /\ KeepsBeside(b.spec, r.mem, m) /\ Grown(r.spec, b.spec, m)
  /\ ListKept(r.mem, n, n, b.names)
  /\ b.names.array \in DOMAIN r.mem => ~CellOf(b.names.array, r.spec)
  /\ LayersOk(more) /\ Amounts(more, Said(r.mem, r.spec))

LEMMA LayerLaid ==
  ASSUME NEW m, IsMemory(m), FilesKept(m), NEW n, NEW b, Merging(m, n, b),
         NEW src, IsLayer(m, src), NEW l, Said(m, src) = l, IsFileSpec(l),
         NEW more, OneMore(more, LayersTo(n, b.k - 1), l),
         NEW h, IsWork(h, m, b.spec), NEW r, r = MergeSpecs(h, src)
  PROVE  Laid(r, m, n, b, more)
<1>1. PICK sp, list, layers : sp = b.spec /\ list = b.names /\ layers = LayersTo(n, b.k - 1)
  OBVIOUS
<1>2. /\ Owned(m, sp) /\ ListKept(m, n, n, list)
      /\ list.array \in DOMAIN m => ~CellOf(list.array, sp)
      /\ LayersOk(layers) /\ Amounts(layers, Said(m, sp))
  BY <1>1 DEF Merging
<1>3. MergeDone(r, m, sp, src)
  BY <1>1, <1>2, MergeSpecsIs
<1>4. PICK m2, sp2 : m2 = r.mem /\ sp2 = r.spec
  OBVIOUS
<1>5. /\ IsMemory(m2) /\ Owned(m2, sp2) /\ KeepsBeside(sp, m2, m) /\ Grown(sp2, sp, m)
      /\ Over(Said(m2, sp2), Said(m, sp), l)
  BY <1>3, <1>4 DEF MergeDone, Worked
<1>6. FilesKept(m2)
  BY <1>2, <1>5, FilesBeside
<1>7. ListKept(m2, n, n, list)
  BY <1>2, <1>5, ListStays DEF KeepsBeside
<1>8. list.array \in DOMAIN m2 => ~CellOf(list.array, sp2)
  <2>1. Nil \notin DOMAIN m /\ Nil \notin DOMAIN m2
    BY <1>5, FreshIsFree
  <2> QED BY <1>2, <1>5, <2>1 DEF Grown, CellOf, ListKept, IsSlice
<1>9. LayersOk(more)
  BY <1>1, <1>2, MoreLayersOk
<1>10. PICK x, x2 : x = Said(m, sp) /\ x2 = Said(m2, sp2)
  OBVIOUS
<1>11. Amounts(more, x2)
  BY <1>1, <1>2, <1>5, <1>9, <1>10, AmountsGrows
<1> QED BY <1>1, <1>4, <1>5, <1>6, <1>7, <1>8, <1>9, <1>10, <1>11 DEF Laid

\* The list at work is that of its node.
IsNames(m, list, n) ==
  /\ list.len = Len(Names(n)) /\ list.len \in Nat
  /\ \A k \in 1 .. list.len : m[list.array][k] = Names(n)[k]

LEMMA NameIs ==
  ASSUME job \in Jobs, NEW m, NEW n \in 1 .. Len(job.nodes), NEW list, ListKept(m, n, n, list)
  PROVE  IsNames(m, list, n)
<1>1. ~Lost(n, n)
  BY JobIs DEF Lost
<1>2. Elems(m, list) = Names(n) /\ IsSlice(m, list) /\ list.len = Len(Names(n)) /\ list.len \in Nat
  BY <1>1, NamesIs DEF ListKept
<1>3. \A k \in 1 .. list.len : Elems(m, list)[k] = m[list.array][k]
  BY <1>2, SliceIs
<1> QED BY <1>2, <1>3 DEF IsNames

LEMMA MergeStep ==
  ASSUME Running, MergeProfile
  PROVE  IInv'
<1>1. /\ pc = "merge" /\ build.k <= build.names.len /\ Name \in DOMAIN profiles
      /\ mem' = Merged(profiles[Name]).mem
      /\ build' = [build EXCEPT !.k = build.k + 1, !.spec = Merged(profiles[Name]).spec]
      /\ pc' = pc /\ job' = job /\ profiles' = profiles /\ at' = at /\ nodes' = nodes
  BY DEF MergeProfile
<1>2. /\ AtWork /\ Merging(mem, at, build)
      /\ \A k \in 1 .. Len(nodes) : nodes[k].from \in 1 .. at - 1 /\ NodeOk(mem, build.spec, at, nodes[k])
  BY <1>1, WorkingIs
<1>3. PICK n \in 1 .. Len(job.nodes) : n = at
  BY <1>2 DEF Merging
<1>4. PICK m, b : m = mem /\ b = build
  OBVIOUS
<1>5. job \in Jobs /\ IsMemory(m) /\ FilesKept(m) /\ Merging(m, n, b)
  BY <1>2, <1>3, <1>4 DEF AtWork
<1>6. PICK list : list = b.names
  OBVIOUS
<1>7. /\ list.len \in Nat /\ \A k \in 1 .. list.len : m[list.array][k] = Names(n)[k]
      /\ b.k \in 1 .. list.len + 1 /\ ListKept(m, n, n, list)
  <2>1. b.k \in 1 .. list.len + 1 /\ ListKept(m, n, n, list)
    BY <1>5, <1>6 DEF Merging
  <2>2. IsNames(m, list, n)
    BY <1>5, <2>1, NameIs
  <2> QED BY <2>1, <2>2 DEF IsNames
<1>8. b.k \in 1 .. list.len /\ b.k \in Nat \ {0}
  BY <1>1, <1>4, <1>6, <1>7
<1>9. PICK name : name = Name
  OBVIOUS
<1>10. name = Names(n)[b.k] /\ name \in Loaded /\ profiles[name] = ProfileAt(name)
  <2>1. name = m[list.array][b.k]
    BY <1>4, <1>6, <1>9 DEF Name
  <2> QED BY <1>1, <1>2, <1>7, <1>8, <1>9, <2>1 DEF AtWork, ProfilesOk
<1>11. PICK f \in 1 .. Len(job.files) : f = LastOf(Named(name))
  BY <1>5, <1>10, LoadedIs
<1>12. PICK l : l = job.files[f].spec
  OBVIOUS
<1>13. IsFileSpec(l) /\ DecodedTo("file", f, l)
  BY <1>5, <1>12, JobIs, DecodedIs
<1>14. PICK src : src = profiles[name]
  OBVIOUS
<1>15. src = SpecAt("file", f, l)
  BY <1>10, <1>11, <1>12, <1>14 DEF ProfileAt
<1>16. IsLayer(m, src) /\ Said(m, src) = l
  BY <1>5, <1>13, <1>15, SpecAtIs
<1>17. PICK more : more = LayersTo(n, b.k)
  OBVIOUS
<1>18. OneMore(more, LayersTo(n, b.k - 1), l)
  BY <1>8, <1>10, <1>11, <1>12, <1>17, ProfileLayer
<1>19. PICK h : h = [mem |-> mem, spec |-> build.spec]
  OBVIOUS
<1>20. IsWork(h, m, b.spec)
  BY <1>4, <1>19 DEF IsWork
<1>21. PICK r : r = MergeSpecs(h, src)
  OBVIOUS
<1>22. r = Merged(profiles[Name])
  BY <1>9, <1>14, <1>19, <1>21 DEF Merged
<1>23. Laid(r, m, n, b, more)
  BY <1>5, <1>13, <1>16, <1>18, <1>20, <1>21, LayerLaid
<1>24. PICK b2 : b2 = build'
  OBVIOUS
<1>25. b2.names = list /\ b2.k = b.k + 1 /\ b2.spec = r.spec /\ b2 = [names |-> b2.names, k |-> b2.k, spec |-> b2.spec]
  <2>1. b = [names |-> b.names, k |-> b.k, spec |-> b.spec]
    BY <1>5 DEF Merging
  <2>2. b2 = [b EXCEPT !.k = b.k + 1, !.spec = r.spec]
    BY <1>1, <1>4, <1>22, <1>24
  <2>3. b2 = [names |-> list, k |-> b.k + 1, spec |-> r.spec]
    BY <1>6, <2>1, <2>2
  <2> QED BY <2>3
<1>26. PICK m2 : m2 = r.mem
  OBVIOUS
<1>27. Merging(m2, n, b2)
  <2>1. b2.k - 1 = b.k /\ b2.k \in 1 .. b2.names.len + 1
    BY <1>7, <1>8, <1>25
  <2>2. /\ Owned(m2, b2.spec) /\ ListKept(m2, n, n, b2.names)
        /\ b2.names.array \in DOMAIN m2 => ~CellOf(b2.names.array, b2.spec)
        /\ LayersOk(more) /\ Amounts(more, Said(m2, b2.spec))
    BY <1>6, <1>23, <1>25, <1>26 DEF Laid
  <2>3. ~Untouched(n)
    BY <1>5 DEF Merging
  <2> QED BY <1>17, <1>25, <2>1, <2>2, <2>3 DEF Merging
<1>28. ASSUME NEW k \in 1 .. Len(nodes)
       PROVE  nodes[k].from \in 1 .. n - 1 /\ NodeOk(m2, b2.spec, n, nodes[k])
  <2>1. PICK node, sp, sp2 : node = nodes[k] /\ sp = b.spec /\ sp2 = r.spec
    OBVIOUS
  <2>2. node.from \in 1 .. n - 1 /\ NodeOk(m, sp, n, node)
    BY <1>2, <1>3, <1>4, <2>1
  <2>3. IsMemory(m2) /\ KeepsBeside(sp, m2, m) /\ Grown(sp2, sp, m)
    BY <1>23, <1>26, <2>1 DEF Laid
  <2>4. NodeOk(m2, sp2, n, node)
    BY <1>5, <2>2, <2>3, NodeBesideWork
  <2> QED BY <1>25, <2>1, <2>2, <2>4
<1>29. Sound("merge", profiles, n, nodes, b2, m2)
  <2>1. Reached("merge", n) = n /\ n \in 1 .. Len(job.nodes) + 1
    BY <1>2 DEF Reached, AtWork
  <2>2. IsMemory(m2) /\ FilesKept(m2)
    BY <1>23, <1>26 DEF Laid
  <2> QED BY <1>2, <1>27, <1>28, <2>1, <2>2 DEF Sound, AtWork
<1>30. pc' = "merge" /\ profiles' = profiles /\ at' = n /\ nodes' = nodes /\ build' = b2 /\ mem' = m2
  BY <1>1, <1>3, <1>22, <1>24, <1>26
<1> QED BY <1>1, <1>5, <1>29, <1>30, SoundStep

LEMMA FinishStep ==
  ASSUME Running, FinishNode
  PROVE  IInv'
<1>1. /\ pc = "merge" /\ build.k > build.names.len
      /\ mem' = Merged(NodeSpec).mem
      /\ nodes' = Append(nodes, [from |-> at, spec |-> Merged(NodeSpec).spec, profiles |-> build.names])
      /\ at' = at + 1 /\ build' = NoBuild /\ pc' = "expand" /\ job' = job /\ profiles' = profiles
  BY DEF FinishNode
<1>2. /\ AtWork /\ Merging(mem, at, build) /\ NoBuild.spec = EmptySpec
      /\ \A k \in 1 .. Len(nodes) : nodes[k].from \in 1 .. at - 1 /\ NodeOk(mem, build.spec, at, nodes[k])
  BY <1>1, WorkingIs
<1>3. PICK n \in 1 .. Len(job.nodes) : n = at
  BY <1>2 DEF Merging
<1>4. PICK m, b : m = mem /\ b = build
  OBVIOUS
<1>5. job \in Jobs /\ IsMemory(m) /\ FilesKept(m) /\ Merging(m, n, b)
  BY <1>2, <1>3, <1>4 DEF AtWork
<1>6. PICK list : list = b.names
  OBVIOUS
<1>7. /\ list.len \in Nat /\ list.len = Len(Names(n))
      /\ b.k \in 1 .. list.len + 1 /\ ListKept(m, n, n, list)
  <2>1. b.k \in 1 .. list.len + 1 /\ ListKept(m, n, n, list)
    BY <1>5, <1>6 DEF Merging
  <2>2. IsNames(m, list, n)
    BY <1>5, <2>1, NameIs
  <2> QED BY <2>1, <2>2 DEF IsNames
<1>8. b.k - 1 = Len(Names(n))
  BY <1>1, <1>4, <1>6, <1>7
<1>9. PICK l : l = job.nodes[n].spec
  OBVIOUS
<1>10. IsFileSpec(l) /\ DecodedTo("node", n, l)
  BY <1>5, <1>9, JobIs, DecodedIs
<1>11. PICK src : src = NodeSpec
  OBVIOUS
<1>12. src = SpecAt("node", n, l)
  BY <1>3, <1>9, <1>11 DEF NodeSpec, Node
<1>13. IsLayer(m, src) /\ Said(m, src) = l
  BY <1>5, <1>10, <1>12, SpecAtIs
<1>14. PICK more : more = Layers(n)
  OBVIOUS
<1>15. OneMore(more, LayersTo(n, b.k - 1), l)
  BY <1>5, <1>8, <1>9, <1>14, NodeLayer
<1>16. PICK h : h = [mem |-> mem, spec |-> build.spec]
  OBVIOUS
<1>17. IsWork(h, m, b.spec)
  BY <1>4, <1>16 DEF IsWork
<1>18. PICK r : r = MergeSpecs(h, src)
  OBVIOUS
<1>19. r = Merged(NodeSpec)
  BY <1>11, <1>16, <1>18 DEF Merged
<1>20. Laid(r, m, n, b, more)
  BY <1>5, <1>10, <1>13, <1>15, <1>17, <1>18, LayerLaid
<1>21. PICK m2, sp2 : m2 = r.mem /\ sp2 = r.spec
  OBVIOUS
<1>22. /\ IsMemory(m2) /\ FilesKept(m2) /\ Owned(m2, sp2) /\ KeepsBeside(b.spec, m2, m)
       /\ Grown(sp2, b.spec, m) /\ ListKept(m2, n, n, list)
       /\ Layered(Layers(n), Said(m2, sp2))
  BY <1>6, <1>14, <1>20, <1>21 DEF Laid, Amounts
<1>23. PICK x : x = [from |-> at, spec |-> sp2, profiles |-> list]
  OBVIOUS
<1>24. x.from = n /\ x.spec = sp2 /\ x.profiles = list
  BY <1>3, <1>23
<1>25. \A a \in DOMAIN m2 : ~CellOf(a, EmptySpec)
  <2>1. Nil \notin DOMAIN m2
    BY <1>22, FreshIsFree
  <2> QED BY <2>1 DEF CellOf, EmptySpec, NilSlice
<1>26. NodeOk(m2, EmptySpec, n, x)
  <2>1. \A a : CellOf(a, sp2) => a # ListAddr
    BY <1>22 DEF Owned, Decoded
  <2>2. Told(n, Said(m2, sp2))
    BY <1>5, <1>22 DEF Told, Merging
  <2> QED BY <1>22, <1>24, <1>25, <2>1, <2>2 DEF NodeOk, Owned
<1>27. \A k \in 1 .. Len(nodes) : nodes[k].from \in 1 .. n - 1 /\ NodeOk(m2, EmptySpec, n, nodes[k])
  <2>1. ASSUME NEW k \in 1 .. Len(nodes)
        PROVE  nodes[k].from \in 1 .. n - 1 /\ NodeOk(m2, EmptySpec, n, nodes[k])
    <3>1. PICK node, sp : node = nodes[k] /\ sp = b.spec
      OBVIOUS
    <3>2. node.from \in 1 .. n - 1 /\ NodeOk(m, sp, n, node)
      BY <1>2, <1>3, <1>4, <3>1
    <3>3. NodeOk(m2, sp2, n, node)
      BY <1>5, <1>22, <3>1, <3>2, NodeBesideWork
    <3>4. NodeOk(m2, EmptySpec, n, node)
      BY <1>25, <3>3 DEF NodeOk
    <3> QED BY <3>1, <3>2, <3>4
  <2> QED BY <2>1
<1>28. PICK done : done = nodes' /\ IsLonger(done, nodes, x)
  BY <1>1, <1>4, <1>6, <1>19, <1>21, <1>23 DEF IsLonger
<1>29. n \in Nat /\ n # 0 /\ IsList(nodes)
  BY <1>2 DEF AtWork
<1>30. /\ IsList(done)
       /\ \A k \in 1 .. Len(done) : done[k].from \in 1 .. n /\ NodeOk(m2, EmptySpec, n, done[k])
  BY <1>5, <1>24, <1>26, <1>27, <1>28, <1>29, SoundNode
<1>31. Sound("expand", profiles, n + 1, done, NoBuild, m2)
  <2>1. Reached("expand", n + 1) = n /\ (n + 1) - 1 = n /\ n + 1 \in 1 .. Len(job.nodes) + 1
    BY <1>2 DEF Reached, AtWork
  <2> QED BY <1>2, <1>22, <1>30, <2>1 DEF Sound, AtWork
<1>32. pc' = "expand" /\ profiles' = profiles /\ at' = n + 1 /\ nodes' = done /\ build' = NoBuild /\ mem' = m2
  BY <1>1, <1>3, <1>19, <1>21, <1>28
<1> QED BY <1>1, <1>5, <1>31, <1>32, SoundStep

-----------------------------------------------------------------------------
(* The invariant.                                                          *)

LEMMA ExpandStep ==
  ASSUME IInv, Next
  PROVE  IInv'
<1>1. Running
  BY DEF IInv, Ended, Next, LoadProfiles, KeepNode, SkipDisabled, StartNode, MergeProfile, UnknownProfile, FinishNode, Return
<1> QED BY <1>1, LoadStep, KeepStep, SkipStep, StartStep, MergeStep, UnknownStep, FinishStep, ReturnStep DEF Next

LEMMA StillStep ==
  ASSUME IInv, UNCHANGED vars
  PROVE  IInv'
<1>1. CASE Running
  <2>1. Sound(pc', profiles', at', nodes', build', mem') /\ job' = job /\ job \in Jobs
    BY <1>1 DEF Running, vars
  <2> QED BY <2>1, SoundStep
<1>2. CASE Ended
  BY <1>2 DEF Ended, IInv, vars
<1> QED BY <1>1, <1>2 DEF IInv

LEMMA InventoryInvariant == DeploymentSpec => []IInv
<1>1. DeploymentInit => IInv
  BY InventoryInit DEF DeploymentInit
<1>2. IInv /\ [DeploymentNext]_deploymentVars => IInv'
  <2>1. ASSUME IInv, Deploy PROVE IInv'
    BY <2>1 DEF IInv, Ended, Deploy, Running, Sound
  <2>2. ASSUME IInv, Expand PROVE IInv'
    BY <2>2, ExpandStep DEF Expand
  <2>3. ASSUME IInv, UNCHANGED vars PROVE IInv'
    BY <2>3, StillStep
  <2> QED BY <2>1, <2>2, <2>3 DEF DeploymentNext, Look, deploymentVars
<1> QED BY <1>1, <1>2, PTL DEF DeploymentSpec

\* Every variable keeps its type, over all jobs.
THEOREM InventoryTypeTheorem == DeploymentSpec => []TypeOK
<1>1. IInv => TypeOK
  <2>1. ASSUME Ended PROVE TypeOK
    BY <2>1 DEF Ended, TypeOK, Gone, NoBuild, EmptySpec, NilSlice, InMemory, Cap
  <2>2. ASSUME Running PROVE TypeOK
    <3>1. /\ job \in Jobs \cup {Gone} /\ pc \in {"load", "expand", "merge", "done", "failed", "gone"}
          /\ DOMAIN profiles \subseteq Loaded /\ (pc = "failed" => nodes = <<>>)
          /\ at \in 1 .. Len(job.nodes) + 1
      BY <2>2 DEF Running, Sound, ProfilesOk
    <3>2. /\ build.k \in 1 .. build.names.len + 1 /\ (pc # "merge" => build = NoBuild)
          /\ build.spec.flags \in DOMAIN mem \cup {Nil} /\ InMemory(build.spec.rules)
          /\ InMemory(build.spec.gateways) /\ InMemory(build.names)
      <4>1. CASE pc = "merge"
        BY <2>2, <4>1 DEF Running, Sound, Merging, Owned, IsTable, IsSlice, InMemory, ListKept
      <4>2. CASE pc # "merge"
        BY <2>2, <4>2 DEF Running, Sound, NoBuild, EmptySpec, NilSlice, InMemory, Cap
      <4> QED BY <4>1, <4>2
    <3>3. DOMAIN nodes = 1 .. Len(nodes)
      BY <2>2, ListIs DEF Running, Sound
    <3>4. ASSUME NEW k \in DOMAIN nodes
          PROVE  /\ nodes[k].from \in 1 .. at - 1
                 /\ nodes[k].spec.flags \in DOMAIN mem \cup {Nil} /\ InMemory(nodes[k].spec.rules)
                 /\ InMemory(nodes[k].spec.gateways) /\ InMemory(nodes[k].profiles)
      BY <2>2, <3>3 DEF Running, Sound, NodeOk, IsTable, IsSlice, InMemory, ListKept
    <3> QED BY <3>1, <3>2, <3>4 DEF TypeOK
  <2> QED BY <2>1, <2>2 DEF IInv
<1> QED BY <1>1, InventoryInvariant, PTL

\* The list a node is returned with is its own unless a later node has overwritten it.
THEOREM ListsAreOwnTheorem == DeploymentSpec => []ListsAreOwn
<1>1. IInv => ListsAreOwn
  <2>1. ASSUME Ended PROVE ListsAreOwn
    BY <2>1 DEF Ended, ListsAreOwn
  <2>2. ASSUME Running PROVE ListsAreOwn
    <3>1. DOMAIN nodes = 1 .. Len(nodes)
      BY <2>2, ListIs DEF Running, Sound
    <3> QED BY <2>2, <3>1 DEF Running, Sound, NodeOk, ListKept, Lost, Own, Reached, ListsAreOwn
  <2> QED BY <2>1, <2>2 DEF IInv
<1> QED BY <1>1, InventoryInvariant, PTL

\* Later layers win, for every node, when its merge ends and for good.
THEOREM SpecsAreLayeredTheorem == DeploymentSpec => []SpecsAreLayered
<1>1. IInv => SpecsAreLayered
  <2>1. ASSUME Ended PROVE SpecsAreLayered
    BY <2>1 DEF Ended, SpecsAreLayered
  <2>2. ASSUME Running PROVE SpecsAreLayered
    <3>1. DOMAIN nodes = 1 .. Len(nodes)
      BY <2>2, ListIs DEF Running, Sound
    <3> QED BY <2>2, <3>1 DEF Running, Sound, NodeOk, Told, SpecsAreLayered
  <2> QED BY <2>1, <2>2 DEF IInv
<1> QED BY <1>1, InventoryInvariant, PTL

-----------------------------------------------------------------------------
(* DNS registration: the types and the invariant.                          *)

DnsPlaces == {"idle", "load", "old", "delete", "look", "upsert", "save", "write"}
DnsPass == [pc : DnsPlaces, host : Hosts \cup {None}, ip : Addresses \cup {None},
            prev : Hosts \cup {None}, seen : Addresses \cup {None}, live : BOOLEAN]

\* A pass has an old name, another one, only while it deletes it, and a name and an address while it runs.
Proper(p) ==
  /\ p \in DnsPass
  /\ p.prev # None <=> p.pc \in {"old", "delete"}
  /\ p.prev # None => p.prev # p.host
  /\ p.pc # "idle" => p.host \in Hosts /\ p.ip \in Addresses

PassesProper == w \in [Passes -> DnsPass] /\ \A x \in Passes : Proper(w[x])

ZoneTyped == zone \in [Hosts -> Addresses \cup {None}]
StateTyped == state \in [Nodes -> Hosts \cup {None}]
LeakedTyped == leaked \subseteq Hosts

\* A node has moved at most as often as anything has changed.
NodesTyped ==
  /\ client \in [Nodes -> Clients]
  /\ ip \in [Nodes -> Addresses]
  /\ \A n \in Nodes : ip[n][1] = n /\ ip[n][2] <= budget.changes
  /\ budget \in [requests : 0 .. MaxRequests, changes : 0 .. MaxChanges, troubles : 0 .. MaxTroubles]

ToolTyped ==
  /\ tool \in [pc : {"next", "delete"}, todo : SUBSET Hosts, host : Hosts \cup {None},
               seen : Addresses \cup {None}]
  /\ tool.pc = "delete" => tool.host \in Hosts

DnsTyped == PassesProper /\ ZoneTyped /\ StateTyped /\ LeakedTyped /\ NodesTyped /\ ToolTyped

\* Node n will delete the record of h before its state file forgets that name: no pass of it
\* is at work that has not seen it there.
Holds(n, h) ==
  /\ state[n] = h
  /\ \A x \in Passes : NodeOf(x) = n => w[x].pc \in {"idle", "load"} \/ h \in {w[x].host, w[x].prev}

Saves(x, h) == w[x].pc \in {"save", "write"} /\ w[x].host = h

Explained ==
  \A h \in Hosts :
    zone[h] # None => \/ h \in leaked
                      \/ \E n \in Nodes : Holds(n, h)
                      \/ \E x \in Passes : Saves(x, h)

DnsInv == DnsTyped /\ Explained

LEMMA NodeOfPass == \A x \in Passes : NodeOf(x) \in Nodes
BY SetsAssumption DEF Passes, NodeOf

LEMMA AgentHostIsHost == \A c \in Clients : AgentHost(c) \in Hosts
BY DEF AgentHost, Hostname, Hosts

LEMMA IdleIsProper == Proper(Idle)
BY DEF Proper, Idle, DnsPass, DnsPlaces

LEMMA DnsTypedImplies == DnsTyped => DnsTypeOK
BY DEF DnsTyped, DnsTypeOK, PassesProper, Proper, ZoneTyped, StateTyped, LeakedTyped, NodesTyped,
       ToolTyped, DnsPass, DnsPlaces

\* A step replaces what one pass knows.
Becomes(x, r) == Proper(r) /\ w' = [w EXCEPT ![x] = r]

LEMMA BecomesProper ==
  ASSUME PassesProper, NEW x \in Passes, NEW r, Becomes(x, r)
  PROVE  /\ PassesProper'
         /\ w'[x] = r
         /\ \A y \in Passes \ {x} : w'[y] = w[y]
<1>1. r \in DnsPass /\ w \in [Passes -> DnsPass] /\ w' = [w EXCEPT ![x] = r]
  BY DEF Becomes, Proper, PassesProper
<1>2. /\ w' \in [Passes -> DnsPass]
      /\ w'[x] = r
      /\ \A y \in Passes \ {x} : w'[y] = w[y]
  BY <1>1
<1>3. \A y \in Passes : Proper(w'[y])
  <2> SUFFICES ASSUME NEW y \in Passes PROVE Proper(w'[y])
    OBVIOUS
  <2>1. CASE y = x
    BY <1>2, <2>1 DEF Becomes
  <2>2. CASE y # x
    BY <1>2, <2>2 DEF PassesProper
  <2> QED BY <2>1, <2>2
<1>4. \A y \in Passes : Proper(w[y])'
  BY <1>3 DEF Proper
<1> QED BY <1>2, <1>4 DEF PassesProper

LEMMA BeginBecomes ==
  ASSUME DnsTyped, NEW x \in Passes, Begin(x)
  PROVE  \E r : Becomes(x, r) /\ r.pc = "load"
<1>1. PICK h \in Hosts, a \in Addresses : h = AgentHost(client[NodeOf(x)]) /\ a = ip[NodeOf(x)]
  BY NodeOfPass, AgentHostIsHost DEF DnsTyped, NodesTyped
<1>i. Idle \in DnsPass /\ Idle.prev = None
  BY DEF Idle, DnsPass, DnsPlaces
<1>2. PICK p \in DnsPass : p = Idle /\ p.prev = None
  BY <1>i
<1> DEFINE r == [p EXCEPT !.pc = "load", !.host = h, !.ip = a]
<1>3. Proper(r) /\ r.pc = "load"
  BY <1>2 DEF Proper, DnsPass, DnsPlaces
<1>4. w' = [w EXCEPT ![x] = r]
  BY <1>1, <1>2 DEF Begin
<1> QED BY <1>3, <1>4 DEF Becomes

\* Where the pass goes on to, with the old name it still has.
LEMMA LoadStateBecomes ==
  ASSUME DnsTyped, NEW x \in Passes, LoadState(x)
  PROVE  \E r : /\ Becomes(x, r) /\ r.host = w[x].host /\ r.pc \notin {"save", "write"}
                /\ state[NodeOf(x)] \in Hosts => state[NodeOf(x)] \in {r.host, r.prev}
<1>1. PICK s \in Hosts \cup {None} : s = state[NodeOf(x)]
  BY NodeOfPass DEF DnsTyped, StateTyped
<1>2. PICK p \in DnsPass : p = w[x] /\ Proper(p) /\ p.pc = "load"
  BY DEF DnsTyped, PassesProper, LoadState, At
<1>3. CASE s \in {None, p.host}
  <2> DEFINE r == [p EXCEPT !.pc = "look"]
  <2>1. Proper(r) /\ r.host = p.host /\ r.pc = "look"
    BY <1>2 DEF Proper, DnsPass, DnsPlaces
  <2>2. w' = [w EXCEPT ![x] = r]
    BY <1>1, <1>2, <1>3 DEF LoadState
  <2> QED BY <1>1, <1>2, <1>3, <2>1, <2>2, NoneAssumption DEF Becomes
<1>4. CASE s \notin {None, p.host}
  <2> DEFINE r == [p EXCEPT !.pc = "old", !.prev = s]
  <2>1. Proper(r) /\ r.host = p.host /\ r.pc = "old" /\ r.prev = s
    BY <1>2, <1>4 DEF Proper, DnsPass, DnsPlaces
  <2>2. w' = [w EXCEPT ![x] = r]
    BY <1>1, <1>2, <1>4 DEF LoadState
  <2> QED BY <1>1, <1>2, <2>1, <2>2 DEF Becomes
<1> QED BY <1>3, <1>4

LEMMA ForgetOldBecomes ==
  ASSUME DnsTyped, NEW x \in Passes, w[x].pc \in {"old", "delete"}, ForgetOld(x)
  PROVE  \E r : Becomes(x, r) /\ r.pc = "look" /\ r.host = w[x].host
<1>1. PICK p \in DnsPass : p = w[x] /\ Proper(p) /\ p.pc # "idle"
  BY DEF DnsTyped, PassesProper
<1> DEFINE r == [p EXCEPT !.pc = "look", !.prev = None, !.seen = None]
<1>2. Proper(r) /\ r.host = p.host /\ r.pc = "look"
  BY <1>1 DEF Proper, DnsPass, DnsPlaces
<1>3. w' = [w EXCEPT ![x] = r]
  BY <1>1 DEF ForgetOld
<1> QED BY <1>1, <1>2, <1>3 DEF Becomes

LEMMA GotoBecomes ==
  ASSUME DnsTyped, NEW x \in Passes, w[x].pc \in {"look", "upsert", "save"},
         NEW place \in {"upsert", "save", "write"},
         Goto(x, place)
  PROVE  \E r : Becomes(x, r) /\ r = [w[x] EXCEPT !.pc = place] /\ r.pc = place /\ r.host = w[x].host
<1>1. PICK p \in DnsPass : p = w[x] /\ Proper(p) /\ p.pc \notin {"idle", "old", "delete"}
  BY DEF DnsTyped, PassesProper
<1> DEFINE r == [p EXCEPT !.pc = place]
<1>2. Proper(r) /\ r.host = p.host /\ r.pc = place
  BY <1>1 DEF Proper, DnsPass, DnsPlaces
<1>3. w' = [w EXCEPT ![x] = r]
  BY <1>1 DEF Goto
<1> QED BY <1>1, <1>2, <1>3 DEF Becomes

LEMMA LookOldBecomes ==
  ASSUME DnsTyped, NEW x \in Passes, LookOld(x), ~ForgetOld(x)
  PROVE  \E r : Becomes(x, r) /\ r.pc = "delete" /\ r.host = w[x].host /\ r.prev = w[x].prev
<1>1. PICK p \in DnsPass : p = w[x] /\ Proper(p) /\ p.pc = "old"
  BY DEF DnsTyped, PassesProper, LookOld, At
<1>2. p.prev \in Hosts
  BY <1>1 DEF Proper, DnsPass
<1>3. PICK a \in Addresses \cup {None} : a = zone[p.prev]
  BY <1>2 DEF DnsTyped, ZoneTyped
<1> DEFINE r == [p EXCEPT !.pc = "delete", !.seen = a]
<1>4. Proper(r) /\ r.pc = "delete" /\ r.host = p.host /\ r.prev = p.prev
  BY <1>1 DEF Proper, DnsPass, DnsPlaces
<1>5. w' = [w EXCEPT ![x] = r]
  BY <1>1, <1>3 DEF LookOld
<1> QED BY <1>1, <1>4, <1>5 DEF Becomes

LEMMA LoseRequestBecomes ==
  ASSUME DnsTyped, NEW x \in Passes, LoseRequest(x)
  PROVE  \E r : Becomes(x, r) /\ r.pc = w[x].pc /\ r.host = w[x].host /\ r.prev = w[x].prev
<1>1. PICK p \in DnsPass : p = w[x] /\ Proper(p)
  BY DEF DnsTyped, PassesProper
<1> DEFINE r == [p EXCEPT !.live = FALSE]
<1>2. Proper(r) /\ r.pc = p.pc /\ r.host = p.host /\ r.prev = p.prev
  BY <1>1 DEF Proper, DnsPass, DnsPlaces
<1>3. w' = [w EXCEPT ![x] = r]
  BY <1>1 DEF LoseRequest
<1> QED BY <1>1, <1>2, <1>3 DEF Becomes

-----------------------------------------------------------------------------
(* Types.                                                                  *)

LEMMA WithoutTyped ==
  ASSUME ZoneTyped, NEW h, NEW value
  PROVE  /\ Without(h, value) \in [Hosts -> Addresses \cup {None}]
         /\ \A g \in Hosts : Without(h, value)[g] # None => zone[g] # None
<1>1. CASE Without(h, value) = zone
  BY <1>1 DEF ZoneTyped
<1>2. CASE Without(h, value) = [zone EXCEPT ![h] = None]
  BY <1>2 DEF ZoneTyped
<1> QED BY <1>1, <1>2 DEF Without

LEMMA SpendTyped ==
  ASSUME NEW b \in [requests : 0 .. MaxRequests, changes : 0 .. MaxChanges, troubles : 0 .. MaxTroubles],
         b = budget,
         \/ UNCHANGED budget \/ Trouble
         \/ Spend("requests", MaxRequests) \/ Spend("changes", MaxChanges)
  PROVE  /\ budget' \in [requests : 0 .. MaxRequests, changes : 0 .. MaxChanges, troubles : 0 .. MaxTroubles]
         /\ budget'.changes >= b.changes
         /\ Spend("changes", MaxChanges) => budget'.changes = b.changes + 1
BY BoundsAssumption DEF Trouble, Spend

LEMMA NodesStep == ASSUME DnsTyped, DnsNext PROVE NodesTyped'
<1>t. NodesTyped
  BY DEF DnsTyped
<1>1. PICK b \in [requests : 0 .. MaxRequests, changes : 0 .. MaxChanges, troubles : 0 .. MaxTroubles] :
        b = budget
  BY <1>t DEF NodesTyped
<1>2. ASSUME UNCHANGED <<client, ip>>,
             UNCHANGED budget \/ Trouble \/ Spend("requests", MaxRequests)
      PROVE  NodesTyped'
  <2>1. /\ budget' \in [requests : 0 .. MaxRequests, changes : 0 .. MaxChanges, troubles : 0 .. MaxTroubles]
        /\ budget'.changes >= b.changes
    BY <1>1, <1>2, SpendTyped
  <2>2. \A n \in Nodes : ip[n][2] \in Nat
    BY <1>t DEF NodesTyped, Addresses
  <2> QED BY <1>t, <1>1, <1>2, <2>1, <2>2, BoundsAssumption DEF NodesTyped
<1>3. ASSUME NEW n \in Nodes, SwapClient(n) PROVE NodesTyped'
  <2>1. /\ budget' \in [requests : 0 .. MaxRequests, changes : 0 .. MaxChanges, troubles : 0 .. MaxTroubles]
        /\ budget'.changes >= b.changes
    BY <1>1, <1>3, SpendTyped DEF SwapClient
  <2>2. \A m \in Nodes : ip[m][2] \in Nat
    BY <1>t DEF NodesTyped, Addresses
  <2>3. client' \in [Nodes -> Clients] /\ ip' = ip
    BY <1>t, <1>3 DEF SwapClient, NodesTyped
  <2> QED BY <1>t, <1>1, <2>1, <2>2, <2>3, BoundsAssumption DEF NodesTyped
<1>4. ASSUME NEW n \in Nodes, MoveNode(n) PROVE NodesTyped'
  <2>1. /\ budget' \in [requests : 0 .. MaxRequests, changes : 0 .. MaxChanges, troubles : 0 .. MaxTroubles]
        /\ budget'.changes = b.changes + 1
    BY <1>1, <1>4, SpendTyped DEF MoveNode
  <2>2. \A m \in Nodes : ip[m][2] \in Nat /\ ip[m][1] = m /\ ip[m][2] <= b.changes
    BY <1>t, <1>1 DEF NodesTyped, Addresses
  <2>3. <<n, ip[n][2] + 1>> \in Addresses
    BY <2>1, <2>2, BoundsAssumption DEF Addresses
  <2>4. ip' \in [Nodes -> Addresses] /\ \A m \in Nodes : ip'[m] = IF m = n THEN <<n, ip[n][2] + 1>> ELSE ip[m]
    BY <1>t, <1>4, <2>3 DEF MoveNode, NodesTyped
  <2>5. \A m \in Nodes : ip'[m][1] = m /\ ip'[m][2] <= b.changes + 1
    BY <2>2, <2>4, BoundsAssumption
  <2>6. client' = client
    BY <1>4 DEF MoveNode
  <2> QED BY <1>t, <2>1, <2>4, <2>5, <2>6 DEF NodesTyped
<1> QED
  BY <1>2, <1>3, <1>4
  DEF DnsNext, PassStep, Begin, LoadState, LookOld, DeleteOld, LookWanted, Upsert, TruncateState,
      WriteState,
      LoseRequest, Crash, Cleanup, Decommission, ToolLook, ToolDelete, nodeVars, Works, Fails

LEMMA ToolStep == ASSUME DnsTyped, DnsNext PROVE ToolTyped'
<1>t. ToolTyped /\ ZoneTyped /\ NodesTyped
  BY DEF DnsTyped
<1>1. PICK t \in [pc : {"next", "delete"}, todo : SUBSET Hosts, host : Hosts \cup {None},
                  seen : Addresses \cup {None}] : t = tool /\ (t.pc = "delete" => t.host \in Hosts)
  BY <1>t DEF ToolTyped
<1>2. CASE UNCHANGED tool
  BY <1>t, <1>2 DEF ToolTyped
<1>3. CASE Cleanup
  <2>1. PICK stale \in SUBSET Hosts : tool' = [NoTool EXCEPT !.todo = stale]
    BY <1>3 DEF Cleanup
  <2> QED BY <2>1 DEF ToolTyped, NoTool
<1>4. ASSUME NEW n \in Nodes, Decommission(n) PROVE ToolTyped'
  <2>1. Hostname(n, client[n]) \in Hosts
    BY <1>t DEF NodesTyped, Hostname, Hosts
  <2>2. tool' = [NoTool EXCEPT !.todo = {Hostname(n, client[n])}]
    BY <1>4 DEF Decommission
  <2> QED BY <2>1, <2>2 DEF ToolTyped, NoTool
<1>5. CASE ToolLook
  <2>1. PICK h \in t.todo :
          \/ tool' = [pc |-> "delete", todo |-> t.todo \ {h}, host |-> h, seen |-> zone[h]]
          \/ tool' = [t EXCEPT !.todo = t.todo \ {h}]
    BY <1>1, <1>5 DEF ToolLook
  <2>2. h \in Hosts /\ zone[h] \in Addresses \cup {None}
    BY <1>t, <1>1 DEF ZoneTyped
  <2>3. CASE tool' = [pc |-> "delete", todo |-> t.todo \ {h}, host |-> h, seen |-> zone[h]]
    BY <1>1, <2>2, <2>3 DEF ToolTyped
  <2>4. CASE tool' = [t EXCEPT !.todo = t.todo \ {h}]
    BY <1>1, <2>4 DEF ToolTyped
  <2> QED BY <2>1, <2>3, <2>4
<1>6. CASE ToolDelete
  <2>1. tool' = [NoTool EXCEPT !.todo = t.todo]
    BY <1>1, <1>6 DEF ToolDelete
  <2> QED BY <1>1, <2>1 DEF ToolTyped, NoTool
<1> QED
  BY <1>2, <1>3, <1>4, <1>5, <1>6
  DEF DnsNext, PassStep, Begin, LoadState, LookOld, DeleteOld, LookWanted, Upsert, TruncateState,
      WriteState,
      LoseRequest, Crash, SwapClient, MoveNode

\* Every step gives one pass another place, ends those of a node that crashes, or is of others.
LEMMA PassesStep == ASSUME DnsTyped, DnsNext PROVE PassesProper'
<1>t. PassesProper /\ \A x \in Passes : w[x] \in DnsPass
  BY DEF DnsTyped, PassesProper
<1>1. CASE UNCHANGED w
  BY <1>t, <1>1 DEF PassesProper, Proper
<1>2. ASSUME NEW x \in Passes, NEW r, Becomes(x, r) PROVE PassesProper'
  BY <1>t, <1>2, BecomesProper
<1>3. ASSUME NEW x \in Passes, w' = [w EXCEPT ![x] = Idle] PROVE PassesProper'
  BY <1>2, <1>3, IdleIsProper DEF Becomes
<1>4. ASSUME NEW x \in Passes, Begin(x) \/ LoadState(x) \/ LoseRequest(x)
      PROVE  PassesProper'
  BY <1>2, <1>4, BeginBecomes, LoadStateBecomes, LoseRequestBecomes
<1>5. ASSUME NEW x \in Passes, DeleteOld(x) PROVE PassesProper'
  BY <1>2, <1>5, ForgetOldBecomes DEF DeleteOld, At
<1>6. ASSUME NEW x \in Passes, LookOld(x) PROVE PassesProper'
  <2>1. CASE ForgetOld(x)
    BY <1>2, <1>6, <2>1, ForgetOldBecomes DEF LookOld, At
  <2>2. CASE ~ForgetOld(x)
    BY <1>2, <1>6, <2>2, LookOldBecomes
  <2> QED BY <2>1, <2>2
<1>7. ASSUME NEW x \in Passes, LookWanted(x) \/ Upsert(x) \/ TruncateState(x) \/ WriteState(x)
      PROVE  PassesProper'
  <2>1. \/ w' = [w EXCEPT ![x] = Idle]
        \/ /\ w[x].pc \in {"look", "upsert", "save"}
           /\ Goto(x, "upsert") \/ Goto(x, "save") \/ Goto(x, "write")
    <3>1. CASE LookWanted(x)
      BY <3>1 DEF LookWanted, At
    <3>2. CASE Upsert(x)
      BY <3>2 DEF Upsert, At
    <3>3. CASE TruncateState(x)
      BY <3>3 DEF TruncateState, At
    <3>4. CASE WriteState(x)
      BY <3>4 DEF WriteState
    <3> QED BY <1>7, <3>1, <3>2, <3>3, <3>4
  <2> QED BY <1>2, <1>3, <2>1, GotoBecomes
<1>8. ASSUME NEW n \in Nodes, Crash(n) PROVE PassesProper'
  <2>1. \A x \in Passes : w'[x] \in {Idle, w[x]}
    BY <1>8 DEF Crash
  <2>2. \A x \in Passes : Proper(w'[x]) /\ w'[x] \in DnsPass
    BY <1>t, <2>1, IdleIsProper DEF PassesProper, Proper
  <2>3. w' = [x \in Passes |-> w'[x]]
    BY <1>8 DEF Crash
  <2>4. \A x \in Passes : Proper(w[x])'
    BY <2>2 DEF Proper
  <2> QED BY <2>2, <2>3, <2>4 DEF PassesProper
<1> QED
  BY <1>1, <1>4, <1>5, <1>6, <1>7, <1>8
  DEF DnsNext, PassStep, Cleanup, Decommission, ToolLook, ToolDelete, SwapClient, MoveNode

LEMMA ZoneStep == ASSUME DnsTyped, DnsNext PROVE ZoneTyped'
<1>t. ZoneTyped
  BY DEF DnsTyped
<1>1. CASE UNCHANGED zone
  BY <1>t, <1>1 DEF ZoneTyped
<1>2. ASSUME NEW h, NEW value, zone' = Without(h, value) PROVE ZoneTyped'
  BY <1>t, <1>2, WithoutTyped DEF ZoneTyped
<1>3. ASSUME NEW x \in Passes, Upsert(x) PROVE ZoneTyped'
  <2>1. w[x].ip \in Addresses
    BY <1>3 DEF Upsert, At, DnsTyped, PassesProper, Proper
  <2>2. zone' = zone \/ zone' = [zone EXCEPT ![w[x].host] = w[x].ip]
    BY <1>3 DEF Upsert
  <2> QED BY <1>t, <1>1, <2>1, <2>2 DEF ZoneTyped
<1>4. ASSUME NEW x \in Passes, DeleteOld(x) PROVE ZoneTyped'
  BY <1>1, <1>2, <1>4 DEF DeleteOld
<1>5. CASE ToolDelete
  BY <1>1, <1>2, <1>5 DEF ToolDelete
<1> QED
  BY <1>1, <1>3, <1>4, <1>5
  DEF DnsNext, PassStep, Begin, LoadState, LookOld, LookWanted, TruncateState, WriteState, LoseRequest, Crash,
      Cleanup, Decommission, ToolLook, SwapClient, MoveNode

LEMMA StateStep == ASSUME DnsTyped, DnsNext PROVE StateTyped'
<1>t. StateTyped
  BY DEF DnsTyped
<1>1. CASE UNCHANGED state
  BY <1>t, <1>1 DEF StateTyped
<1>2. ASSUME NEW x \in Passes, TruncateState(x) \/ WriteState(x) PROVE StateTyped'
  <2>1. w[x].host \in Hosts
    BY <1>2 DEF TruncateState, WriteState, At, DnsTyped, PassesProper, Proper
  <2>2. \E s \in {w[x].host, None} : state' = state \/ state' = [state EXCEPT ![NodeOf(x)] = s]
    <3>1. CASE TruncateState(x)
      BY <3>1 DEF TruncateState
    <3>2. CASE WriteState(x)
      BY <3>2 DEF WriteState
    <3> QED BY <1>2, <3>1, <3>2
  <2> QED BY <1>t, <2>1, <2>2 DEF StateTyped
<1> QED
  BY <1>1, <1>2
  DEF DnsNext, PassStep, Begin, LoadState, LookOld, DeleteOld, LookWanted, Upsert, LoseRequest,
      Crash, Cleanup, Decommission, ToolLook, ToolDelete, SwapClient, MoveNode, nodeVars

LEMMA LeakedStep == ASSUME DnsTyped, DnsNext PROVE LeakedTyped'
<1>t. LeakedTyped /\ StateTyped
  BY DEF DnsTyped
<1>p. \A x \in Passes : /\ w[x].pc # "idle" => w[x].host \in Hosts
                        /\ w[x].pc \in {"old", "delete"} => w[x].prev \in Hosts
  BY DEF DnsTyped, PassesProper, Proper, DnsPass
<1>1. CASE UNCHANGED leaked
  BY <1>t, <1>1 DEF LeakedTyped
<1>2. ASSUME NEW x \in Passes, LookOld(x) PROVE LeakedTyped'
  BY <1>t, <1>p, <1>2 DEF LookOld, At, LeakedTyped
<1>3. ASSUME NEW x \in Passes, DeleteOld(x) PROVE LeakedTyped'
  BY <1>t, <1>p, <1>3 DEF DeleteOld, At, LeakedTyped
<1>4. ASSUME NEW x \in Passes, LookWanted(x) \/ Upsert(x) PROVE LeakedTyped'
  BY <1>t, <1>p, <1>4 DEF LookWanted, Upsert, At, LeakedTyped
<1>5. ASSUME NEW x \in Passes, TruncateState(x) \/ WriteState(x) PROVE LeakedTyped'
  <2>1. w[x].host \in Hosts
    BY <1>p, <1>5 DEF TruncateState, WriteState, At
  <2> QED BY <1>t, <1>5, <2>1 DEF TruncateState, WriteState, LeakedTyped
<1>6. ASSUME NEW n \in Nodes, Crash(n) PROVE LeakedTyped'
  <2>1. leaked' \subseteq leaked \cup {w[x].host : x \in {y \in Passes : Saving(y)}}
    BY <1>6 DEF Crash
  <2> QED BY <1>t, <1>p, <2>1 DEF Saving, At, LeakedTyped
<1> QED
  BY <1>1, <1>2, <1>3, <1>4, <1>5, <1>6
  DEF DnsNext, PassStep, Begin, LoadState, LoseRequest, Cleanup, Decommission, ToolLook,
      ToolDelete, SwapClient, MoveNode

LEMMA TypedStep == ASSUME DnsTyped, DnsNext PROVE DnsTyped'
BY PassesStep, ZoneStep, StateStep, LeakedStep, NodesStep, ToolStep DEF DnsTyped

-----------------------------------------------------------------------------
(* What a step makes of the causes for a record.                           *)

\* A step of one pass that leaves the state files alone keeps every record explained: one it
\* makes, or one that its node no longer holds, is lost or about to be saved.
LEMMA ExplainedOn ==
  ASSUME DnsTyped, Explained, NEW x \in Passes, NEW r, Becomes(x, r), state' = state,
         \A h \in Hosts :
           zone'[h] # None =>
             \/ h \in leaked'
             \/ r.pc \in {"save", "write"} /\ r.host = h
             \/ /\ zone[h] # None /\ h \notin leaked /\ ~Saves(x, h)
                /\ Holds(NodeOf(x), h) => r.pc \in {"idle", "load"} \/ h \in {r.host, r.prev},
         leaked \subseteq leaked' \cup {h \in Hosts : zone'[h] = None}
  PROVE  Explained'
<1>1. w'[x] = r /\ \A y \in Passes \ {x} : w'[y] = w[y]
  BY BecomesProper DEF DnsTyped
<1> SUFFICES ASSUME NEW h \in Hosts, zone'[h] # None, h \notin leaked', ~(r.pc \in {"save", "write"} /\ r.host = h)
             PROVE  \/ \E n \in Nodes : Holds(n, h)'
                    \/ \E y \in Passes : Saves(y, h)'
  BY <1>1 DEF Explained, Saves
<1>2. /\ zone[h] # None /\ h \notin leaked /\ ~Saves(x, h)
      /\ Holds(NodeOf(x), h) => r.pc \in {"idle", "load"} \/ h \in {r.host, r.prev}
  OBVIOUS
<1>3. CASE \E y \in Passes : Saves(y, h)
  BY <1>1, <1>2, <1>3 DEF Saves
<1>4. ASSUME NEW n \in Nodes, Holds(n, h) PROVE Holds(n, h)'
  <2> SUFFICES ASSUME NEW y \in Passes, NodeOf(y) = n
               PROVE  w'[y].pc \in {"idle", "load"} \/ h \in {w'[y].host, w'[y].prev}
    BY <1>4 DEF Holds
  <2>1. CASE y = x
    BY <1>1, <1>2, <1>4, <2>1
  <2>2. CASE y # x
    BY <1>1, <1>4, <2>2 DEF Holds
  <2> QED BY <2>1, <2>2
<1> QED BY <1>2, <1>3, <1>4 DEF Explained

\* A step that leaves the passes and the state files alone and makes no record.
LEMMA ExplainedStays ==
  ASSUME Explained, UNCHANGED <<w, state, leaked>>,
         \A h \in Hosts : zone'[h] # None => zone[h] # None
  PROVE  Explained'
BY DEF Explained, Holds, Saves

LEMMA DeletionExplained ==
  ASSUME DnsTyped, Explained, NEW x \in Passes, LookOld(x) \/ DeleteOld(x)
  PROVE  Explained'
<1>1. PICK prev \in Hosts : prev = w[x].prev
  BY DEF DnsTyped, PassesProper, Proper, DnsPass, LookOld, DeleteOld, At
<1>2. w[x].pc \in {"old", "delete"} /\ \A h : ~Saves(x, h)
  BY DEF LookOld, DeleteOld, At, Saves
<1>3. \A h : Holds(NodeOf(x), h) => h \in {w[x].host, prev}
  BY <1>1, <1>2 DEF Holds
<1>4. CASE LookOld(x)
  <2>1. CASE ForgetOld(x)
    <3>1. PICK r : Becomes(x, r) /\ r.pc = "look" /\ r.host = w[x].host
      BY <1>2, <2>1, ForgetOldBecomes
    <3>2. zone' = zone /\ state' = state /\ leaked \subseteq leaked'
          /\ (zone[prev] = None \/ prev \in leaked')
      <4>1. w'[x].pc = "look"
        BY <3>1, BecomesProper DEF DnsTyped
      <4>2. w' # [w EXCEPT ![x].pc = "delete", ![x].seen = zone[prev]]
        BY <4>1 DEF DnsTyped, PassesProper, DnsPass
      <4> QED BY <1>1, <1>4, <4>2 DEF LookOld, nodeVars
    <3> QED BY <1>2, <1>3, <3>1, <3>2, ExplainedOn
  <2>2. CASE ~ForgetOld(x)
    <3>1. PICK r : Becomes(x, r) /\ r.pc = "delete" /\ r.host = w[x].host /\ r.prev = w[x].prev
      BY <1>4, <2>2, LookOldBecomes
    <3>2. zone' = zone /\ state' = state /\ leaked' = leaked
      BY <1>4, <2>2 DEF LookOld, nodeVars
    <3> QED BY <1>1, <1>2, <1>3, <3>1, <3>2, ExplainedOn
  <2> QED BY <2>1, <2>2
<1>5. CASE DeleteOld(x)
  <2>1. PICK r : Becomes(x, r) /\ r.pc = "look" /\ r.host = w[x].host
    BY <1>2, <1>5, ForgetOldBecomes DEF DeleteOld
  <2>2. state' = state /\ \A h \in Hosts : zone'[h] # None => zone[h] # None
    BY <1>5, WithoutTyped DEF DeleteOld, nodeVars, DnsTyped
  <2>3. leaked' = IF zone'[prev] = None THEN leaked \ {prev} ELSE leaked \cup {prev}
    BY <1>1, <1>5 DEF DeleteOld
  <2> QED BY <1>2, <1>3, <2>1, <2>2, <2>3, ExplainedOn
<1> QED BY <1>4, <1>5

LEMMA RegistrationExplained ==
  ASSUME DnsTyped, Explained, NEW x \in Passes, LookWanted(x) \/ Upsert(x)
  PROVE  Explained'
<1>1. PICK host \in Hosts : host = w[x].host
  BY DEF DnsTyped, PassesProper, Proper, LookWanted, Upsert, At
<1>2. w[x].pc \in {"look", "upsert"} /\ w[x].prev = None /\ \A h : ~Saves(x, h)
  BY DEF LookWanted, Upsert, At, Saves, DnsTyped, PassesProper, Proper
<1>3. \A h \in Hosts : Holds(NodeOf(x), h) => h = host
  BY <1>1, <1>2, NoneAssumption DEF Holds
<1>4. state' = state /\ leaked \subseteq leaked'
  <2>1. CASE LookWanted(x)
    BY <2>1 DEF LookWanted, nodeVars
  <2>2. CASE Upsert(x)
    BY <2>2 DEF Upsert, nodeVars
  <2> QED BY <2>1, <2>2
<1>5. \A h \in Hosts : h # host => zone'[h] = zone[h]
  <2>1. CASE LookWanted(x)
    BY <2>1 DEF LookWanted
  <2>2. CASE Upsert(x)
    BY <1>1, <2>2 DEF Upsert, DnsTyped, ZoneTyped
  <2> QED BY <2>1, <2>2
<1>6. CASE w' = [w EXCEPT ![x] = Idle]
  <2>1. Becomes(x, Idle) /\ Idle.pc = "idle"
    BY <1>6, IdleIsProper DEF Becomes, Idle
  <2>2. host \in leaked' \/ zone' = zone
    <3>1. CASE LookWanted(x)
      BY <3>1 DEF LookWanted
    <3>2. CASE Upsert(x)
      <4>1. ~Goto(x, "save")
        <5>1. w'[x].pc = "idle"
          BY <1>6 DEF DnsTyped, PassesProper, Idle
        <5>2. Goto(x, "save") => w'[x].pc = "save"
          BY DEF Goto, DnsTyped, PassesProper, DnsPass
        <5> QED BY <5>1, <5>2
      <4> QED BY <1>1, <3>2, <4>1 DEF Upsert
    <3> QED BY <3>1, <3>2
  <2> QED BY <1>2, <1>4, <1>5, <2>1, <2>2, ExplainedOn
<1>7. CASE LookWanted(x) /\ Goto(x, "upsert")
  <2>1. PICK r : Becomes(x, r) /\ r.host = w[x].host
    BY <1>2, <1>7, GotoBecomes
  <2>2. zone' = zone
    BY <1>7 DEF LookWanted
  <2> QED BY <1>1, <1>2, <1>3, <1>4, <2>1, <2>2, ExplainedOn
<1>8. CASE Upsert(x) /\ Goto(x, "save")
  <2>1. PICK r : Becomes(x, r) /\ r.pc = "save" /\ r.host = w[x].host
    BY <1>2, <1>8, GotoBecomes
  <2> QED BY <1>1, <1>2, <1>3, <1>4, <1>5, <2>1, ExplainedOn
<1> QED
  <2>1. CASE LookWanted(x)
    BY <1>6, <1>7, <2>1 DEF LookWanted
  <2>2. CASE Upsert(x)
    BY <1>6, <1>8, <2>2 DEF Upsert
  <2> QED BY <2>1, <2>2

\* A pass that truncates the state file has the name that is lost with it, and will write it.
LEMMA TruncateExplained ==
  ASSUME DnsTyped, Explained, NEW x \in Passes, TruncateState(x)
  PROVE  Explained'
<1>1. PICK n \in Nodes, host \in Hosts : n = NodeOf(x) /\ host = w[x].host
  BY NodeOfPass DEF DnsTyped, PassesProper, Proper, TruncateState, At
<1>2. w[x].pc = "save" /\ w[x].prev = None /\ zone' = zone
  BY DEF TruncateState, At, DnsTyped, PassesProper, Proper
<1>3. \A h \in Hosts : Holds(n, h) => h = host
  BY <1>1, <1>2, NoneAssumption DEF Holds
<1>4. CASE w' = [w EXCEPT ![x] = Idle]
  <2>1. Becomes(x, Idle) /\ Idle.pc = "idle"
    BY <1>4, IdleIsProper DEF Becomes, Idle
  <2>2. w'[x] = Idle
    BY <2>1, BecomesProper DEF DnsTyped
  <2>3. ~Goto(x, "write")
    <3>1. Goto(x, "write") => w'[x].pc = "write"
      BY DEF Goto, DnsTyped, PassesProper, DnsPass
    <3> QED BY <2>1, <2>2, <3>1
  <2>4. state' = state /\ leaked' = leaked \cup {host}
    BY <1>1, <2>3 DEF TruncateState
  <2>5. \A h \in Hosts : Saves(x, h) => h = host
    BY <1>1 DEF Saves
  <2> QED BY <1>2, <2>1, <2>4, <2>5, ExplainedOn
<1>5. CASE Goto(x, "write") /\ leaked' = leaked /\ state' = [state EXCEPT ![n] = None]
  <2>1. PICK r : Becomes(x, r) /\ r.pc = "write" /\ r.host = host
    BY <1>1, <1>2, <1>5, GotoBecomes
  <2>2. w'[x] = r /\ \A y \in Passes \ {x} : w'[y] = w[y]
    BY <2>1, BecomesProper DEF DnsTyped
  <2> SUFFICES ASSUME NEW h \in Hosts, zone[h] # None, h \notin leaked
               PROVE  \/ \E m \in Nodes : Holds(m, h)'
                      \/ \E y \in Passes : Saves(y, h)'
    BY <1>2, <1>5 DEF Explained
  <2>3. CASE h = host
    BY <2>1, <2>2, <2>3 DEF Saves
  <2>4. ASSUME NEW m \in Nodes \ {n}, Holds(m, h) PROVE Holds(m, h)'
    <3>1. state'[m] = h
      BY <1>5, <2>4 DEF Holds, DnsTyped, StateTyped
    <3>2. \A y \in Passes : NodeOf(y) = m => w'[y] = w[y]
      BY <1>1, <2>2
    <3> QED BY <2>4, <3>1, <3>2 DEF Holds
  <2>5. ASSUME NEW y \in Passes, Saves(y, h) PROVE Saves(y, h)'
    BY <1>1, <2>1, <2>2, <2>5 DEF Saves
  <2> QED BY <1>3, <2>3, <2>4, <2>5 DEF Explained
<1> QED BY <1>1, <1>4, <1>5 DEF TruncateState

\* A name that is saved is held: no pass of the node is at work that has not seen it.
LEMMA WriteExplained ==
  ASSUME DnsTyped, Explained, NEW x \in Passes, WriteState(x)
  PROVE  Explained'
<1>1. PICK n \in Nodes, host \in Hosts : n = NodeOf(x) /\ host = w[x].host
  BY NodeOfPass DEF DnsTyped, PassesProper, Proper, WriteState, At
<1>2. w[x].pc = "write" /\ w[x].prev = None /\ zone' = zone
  BY DEF WriteState, At, DnsTyped, PassesProper, Proper
<1>3. w'[x].pc = "idle" /\ \A y \in Passes \ {x} : w'[y] = w[y]
  <2>1. Becomes(x, Idle) /\ Idle.pc = "idle"
    BY IdleIsProper DEF WriteState, Becomes, Idle
  <2> QED BY <2>1, BecomesProper DEF DnsTyped
<1>4. \A h \in Hosts : Holds(n, h) => h = host
  BY <1>1, <1>2, NoneAssumption DEF Holds
<1>5. \A m \in Nodes \ {n} : state'[m] = state[m]
  BY <1>1 DEF WriteState, DnsTyped, StateTyped
<1> SUFFICES ASSUME NEW h \in Hosts, zone[h] # None, h \notin leaked'
             PROVE  \/ \E m \in Nodes : Holds(m, h)'
                    \/ \E y \in Passes : Saves(y, h)'
  BY <1>2 DEF Explained
<1>6. ASSUME NEW m \in Nodes \ {n}, Holds(m, h) PROVE Holds(m, h)'
  <2>1. state'[m] = h
    BY <1>5, <1>6 DEF Holds
  <2>2. \A y \in Passes : NodeOf(y) = m => w'[y] = w[y]
    BY <1>1, <1>3
  <2> QED BY <1>6, <2>1, <2>2 DEF Holds
<1>7. ASSUME NEW y \in Passes \ {x}, Saves(y, h) PROVE Saves(y, h)'
  BY <1>3, <1>7 DEF Saves
<1>8. CASE h = host
  <2>1. state' = [state EXCEPT ![n] = host] /\ ~Overlapped(x)
    BY <1>1, <1>8, NoneAssumption DEF WriteState
  <2>2. state'[n] = h
    BY <1>8, <2>1 DEF DnsTyped, StateTyped
  <2>3. \A y \in Passes : NodeOf(y) = n => w'[y].pc \in {"idle", "load"}
    BY <1>1, <1>3, <2>1 DEF Overlapped
  <2>4. Holds(n, h)'
    BY <2>2, <2>3 DEF Holds
  <2> QED BY <2>4
<1>9. CASE h # host
  <2>1. h \notin leaked
    BY <1>1, <1>9 DEF WriteState
  <2>2. ~Saves(x, h) /\ ~Holds(n, h)
    BY <1>1, <1>4, <1>9 DEF Saves
  <2> QED BY <1>6, <1>7, <2>1, <2>2 DEF Explained
<1> QED BY <1>8, <1>9

\* A crash ends the passes of one node: what they were about to save is lost.
LEMMA CrashExplained ==
  ASSUME DnsTyped, Explained, NEW n \in Nodes, Crash(n)
  PROVE  Explained'
<1>1. /\ zone' = zone /\ state' = state /\ leaked \subseteq leaked'
      /\ \A x \in Passes : w'[x] \in {Idle, w[x]}
      /\ \A x \in Passes : w'[x] # w[x] /\ w[x].pc \in {"save", "write"} => w[x].host \in leaked'
  BY DEF Crash, nodeVars, At, Saving
<1>2. ASSUME NEW h \in Hosts, NEW m \in Nodes, Holds(m, h) PROVE Holds(m, h)'
  BY <1>1, <1>2 DEF Holds, Idle
<1>3. ASSUME NEW h \in Hosts, NEW x \in Passes, Saves(x, h), h \notin leaked' PROVE Saves(x, h)'
  BY <1>1, <1>3 DEF Saves
<1> QED
  BY <1>1, <1>2, <1>3 DEF Explained

LEMMA ExplainedStep == ASSUME DnsTyped, Explained, DnsNext PROVE Explained'
<1>1. ASSUME NEW x \in Passes, Begin(x) PROVE Explained'
  <2>1. PICK r : Becomes(x, r) /\ r.pc = "load"
    BY <1>1, BeginBecomes
  <2>2. zone' = zone /\ state' = state /\ leaked' = leaked /\ w[x].pc = "idle"
    BY <1>1 DEF Begin, nodeVars, At
  <2> QED BY <2>1, <2>2, ExplainedOn DEF Saves
<1>2. ASSUME NEW x \in Passes, LoadState(x) PROVE Explained'
  <2>1. PICK r : /\ Becomes(x, r)
                 /\ state[NodeOf(x)] \in Hosts => state[NodeOf(x)] \in {r.host, r.prev}
    BY <1>2, LoadStateBecomes
  <2>2. zone' = zone /\ state' = state /\ leaked' = leaked /\ w[x].pc = "load"
    BY <1>2 DEF LoadState, nodeVars, At
  <2> QED BY <2>1, <2>2, ExplainedOn DEF Saves, Holds
<1>3. ASSUME NEW x \in Passes, LoseRequest(x) PROVE Explained'
  <2>1. PICK r : Becomes(x, r) /\ r.pc = w[x].pc /\ r.host = w[x].host /\ r.prev = w[x].prev
    BY <1>3, LoseRequestBecomes
  <2>2. zone' = zone /\ state' = state /\ leaked' = leaked
    BY <1>3 DEF LoseRequest, nodeVars
  <2>3. \A h : Holds(NodeOf(x), h) => r.pc \in {"idle", "load"} \/ h \in {r.host, r.prev}
    BY <2>1 DEF Holds
  <2> QED BY <2>1, <2>2, <2>3, ExplainedOn DEF Saves
<1>4. CASE Cleanup \/ ToolLook \/ \E n \in Nodes : Decommission(n) \/ SwapClient(n) \/ MoveNode(n)
  BY <1>4, ExplainedStays DEF Cleanup, ToolLook, Decommission, SwapClient, MoveNode, nodeVars
<1>5. CASE ToolDelete
  <2>1. \A h \in Hosts : zone'[h] # None => zone[h] # None
    BY <1>5, WithoutTyped DEF ToolDelete, DnsTyped
  <2> QED BY <1>5, <2>1, ExplainedStays DEF ToolDelete, nodeVars
<1> QED
  BY <1>1, <1>2, <1>3, <1>4, <1>5, DeletionExplained, RegistrationExplained, TruncateExplained,
     WriteExplained, CrashExplained
  DEF DnsNext, PassStep

LEMMA DnsInitInv == DnsInit => DnsInv
<1> SUFFICES ASSUME DnsInit PROVE DnsInv
  OBVIOUS
<1>1. PassesProper
  BY IdleIsProper DEF DnsInit, PassesProper, Proper
<1>2. ZoneTyped /\ StateTyped /\ LeakedTyped
  BY DEF DnsInit, ZoneTyped, StateTyped, LeakedTyped
<1>3. NodesTyped
  BY BoundsAssumption DEF DnsInit, NodesTyped, Addresses
<1>4. ToolTyped
  BY DEF DnsInit, ToolTyped, NoTool
<1>5. Explained
  BY DEF DnsInit, Explained
<1> QED BY <1>1, <1>2, <1>3, <1>4, <1>5 DEF DnsInv, DnsTyped

LEMMA DnsInvStep == DnsInv /\ [DnsNext]_dnsVars => DnsInv'
<1>1. ASSUME DnsInv, DnsNext PROVE DnsInv'
  BY <1>1, TypedStep, ExplainedStep DEF DnsInv
<1>2. ASSUME DnsInv, UNCHANGED dnsVars PROVE DnsInv'
  BY <1>2 DEF dnsVars, DnsInv, DnsTyped, PassesProper, Proper, ZoneTyped, StateTyped, LeakedTyped,
              NodesTyped, ToolTyped, Explained, Holds, Saves
<1> QED BY <1>1, <1>2

LEMMA DnsInvImplies == DnsInv => DnsTypeOK /\ LeftBehindIsExplained
BY DnsTypedImplies DEF DnsInv, Explained, Holds, Saves, LeftBehindIsExplained, Saving, At

\* Whatever passes, nodes and ethctl do, every variable of the registration keeps its type.
THEOREM DnsTypeTheorem == DnsSpec => []DnsTypeOK
BY DnsInitInv, DnsInvStep, DnsInvImplies, PTL DEF DnsSpec

\* Whatever the nodes, their clients and their passes, a record nobody will delete has one of
\* the causes LeftBehindIsExplained names.
THEOREM LeftBehindTheorem == DnsSpec => []LeftBehindIsExplained
BY DnsInitInv, DnsInvStep, DnsInvImplies, PTL DEF DnsSpec
=============================================================================
