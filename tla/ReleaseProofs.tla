---------------------------- MODULE ReleaseProofs ---------------------------
(***************************************************************************)
(* Theorems about what keeps an installation going.  Backups, for any number *)
(* of concurrent ones: a reported backup can be restored, whatever failed or *)
(* was cleaned up after it, and a restore gives the board back.  The        *)
(* self-update, for any builds, migrations, retention and faults: the build *)
(* to fall back to is kept, no acknowledged write is lost unless a promoted *)
(* build's database was put back, and a server serves the schema of its own *)
(* build.  The import of a team's archive, for any history before the export *)
(* and any number of imports: the rows and the files have the shape of what  *)
(* was exported.                                                           *)
(***************************************************************************)
EXTENDS Release, Backup, TenantImport, Counting, TLAPS

Name == Nat \X (Nat \ {0})
JobPC == {"idle", "create", "sprints", "tasks", "runs", "close"}
Underway(b) == job[b].pc \notin {"idle", "create"}

JobOK(j) ==
    /\ DOMAIN j = {"pc", "name", "got", "was", "from"}
    /\ j.pc \in JobPC /\ (j.pc # "idle" => j.name \in Name)

(* Archives have different names: os.Create replaces one of the same name.   *)
StoreOK(S) ==
    /\ IsFiniteSet(S) /\ \A a \in S : a.name \in Name /\ a.whole \in BOOLEAN
    /\ \A a, c \in S : a.name = c.name => a = c

(* An archive that is not whole is underway or was left by one of the       *)
(* failures, whose names are F.                                             *)
CutOff(F) ==
    \A a \in store : ~a.whole => a.name \in F \/ \E b \in Backups : Underway(b) /\ a.name = job[b].name
Partials == \E F : IsFiniteSet(F) /\ Cardinality(F) <= failures /\ CutOff(F)

BackupInv ==
    /\ second \in Nat /\ failures \in 0..MaxFailures
    /\ DOMAIN job = Backups /\ \A b \in Backups : JobOK(job[b])
    /\ StoreOK(store) /\ Partials /\ SomeBackupIsWhole

(* The names of archives sort strictly and totally.                         *)
LEMMA NamesSort ==
    /\ \A x \in Name : ~Before(x, x)
    /\ \A x, y \in Name : x # y => Before(x, y) \/ Before(y, x)
    /\ \A x, y, z \in Name : Before(x, y) /\ Before(y, z) => Before(x, z)
<1>1. ASSUME NEW x \in Name PROVE x[1] \in Nat /\ x[2] \in Nat /\ x[2] # 0 /\ x = <<x[1], x[2]>>
  BY DEF Name
<1>2. \A x \in Name : ~Before(x, x)
  BY <1>1 DEF Before
<1>3. ASSUME NEW x \in Name, NEW y \in Name, x # y PROVE Before(x, y) \/ Before(y, x)
  <2>1. x[1] # y[1] \/ x[2] # y[2]
    BY <1>1, <1>3
  <2> QED BY <1>1, <2>1 DEF Before
<1>4. \A x, y, z \in Name : Before(x, y) /\ Before(y, z) => Before(x, z)
  BY <1>1 DEF Before
<1> QED BY <1>2, <1>3, <1>4

(* The last of some archives.                                               *)
LEMMA LastArchive ==
    ASSUME NEW S, StoreOK(S), NEW W \in SUBSET S, W # {}
    PROVE  \E w \in W : \A a \in W : ~Before(w.name, a.name)
<1> DEFINE After(a) == {c \in W : Before(a.name, c.name)}
           N == {Cardinality(After(a)) : a \in W}
<1>1. IsFiniteSet(W) /\ \A a \in W : a.name \in Name
  BY FS_Subset DEF StoreOK
<1>2. \A a \in W : IsFiniteSet(After(a)) /\ Cardinality(After(a)) \in Nat
  BY <1>1, FS_Subset, FS_CardinalityType
<1>3. N \in SUBSET Nat /\ N # {}
  BY <1>2
<1>4. PICK n \in N : \A m \in N : n <= m
  <2> HIDE DEF N
  <2> QED BY <1>3, LeastNat
<1>5. PICK w \in W : n = Cardinality(After(w))
  OBVIOUS
<1>6. ASSUME NEW a \in W, Before(w.name, a.name) PROVE FALSE
  <2>1. After(a) \in SUBSET After(w)
    BY <1>1, <1>6, NamesSort
  <2>2. a \in After(w) /\ a \notin After(a)
    BY <1>1, <1>6, NamesSort
  <2>3. Cardinality(After(a)) \in N
    OBVIOUS
  <2> HIDE DEF After, N
  <2>4. Cardinality(After(a)) <= Cardinality(After(w)) /\ Cardinality(After(a)) # Cardinality(After(w))
    BY <1>2, <2>1, <2>2, FS_Subset
  <2>5. n <= Cardinality(After(a)) /\ Cardinality(After(a)) \in Nat
    BY <1>2, <1>4, <2>3
  <2> QED BY <1>2, <1>5, <2>4, <2>5
<1> QED BY <1>6

(* A clean-up of archives among which one is whole, and fewer than Keep are   *)
(* not, leaves a whole one: the last, after which there are only the others. *)
LEMMA CleanedKeeps ==
    ASSUME NEW S, StoreOK(S), \E a \in S : a.whole,
           NEW P, IsFiniteSet(P), Cardinality(P) < Keep, \A a \in S : ~a.whole => a.name \in P
    PROVE  \E a \in Cleaned(S) : a.whole
<1> DEFINE W == {a \in S : a.whole}
<1>1. PICK w \in W : \A a \in W : ~Before(w.name, a.name)
  <2>1. W \in SUBSET S /\ W # {}
    OBVIOUS
  <2> HIDE DEF W
  <2> QED BY <2>1, LastArchive
<1> DEFINE C == {c \in S : Before(w.name, c.name)}
           names == [c \in C |-> c.name]
<1>2. \A c \in C : c.name \in P
  BY <1>1
<1>3. names \in [C -> P]
  BY <1>2
<1>4. \A c, d \in C : names[c] = names[d] => c = d
  BY DEF StoreOK
<1>5. IsFiniteSet(C)
  <2>1. C \in SUBSET S /\ IsFiniteSet(S)
    BY DEF StoreOK
  <2> HIDE DEF C
  <2> QED BY <2>1, FS_Subset
<1> HIDE DEF C, names
<1>6. names \in Injection(C, P)
  BY <1>3, <1>4 DEF Injection, IsInjective
<1>7. Cardinality(C) <= Cardinality(P)
  BY <1>6, FS_Injection
<1>8. Cardinality(C) \in Nat /\ Cardinality(P) \in Nat /\ Keep \in Nat
  BY <1>5, FS_CardinalityType, KeepAssumption
<1>9. Cardinality(C) < Keep
  BY <1>7, <1>8
<1>10. w \in Cleaned(S)
  BY <1>1, <1>9 DEF Cleaned, C
<1> QED BY <1>1, <1>10

LEMMA BackupStart == BackupInit => BackupInv
<1> SUFFICES ASSUME BackupInit PROVE BackupInv
  OBVIOUS
<1>1. second \in Nat /\ failures \in 0..MaxFailures /\ failures = 0 /\ store = {} /\ reported = FALSE
  BY KeepAssumption DEF BackupInit
<1>2. DOMAIN job = Backups /\ \A b \in Backups : job[b] = Idle
  BY DEF BackupInit
<1>3. JobOK(Idle)
  BY DEF JobOK, Idle, JobPC
<1>4. StoreOK(store)
  BY <1>1, FS_EmptySet DEF StoreOK
<1>5. Partials
  <2>1. IsFiniteSet({}) /\ Cardinality({}) <= failures
    BY <1>1, FS_EmptySet
  <2>2. CutOff({})
    BY <1>1 DEF CutOff
  <2> QED BY <2>1, <2>2 DEF Partials
<1>6. SomeBackupIsWhole
  BY <1>1 DEF SomeBackupIsWhole
<1> QED BY <1>1, <1>2, <1>3, <1>4, <1>5, <1>6 DEF BackupInv

(* A job goes on, or is over; an archive it had open stays as it is.          *)
LEMMA JobMoves ==
    ASSUME BackupInv, NEW b \in Backups, NEW j, JobOK(j), job' = [job EXCEPT ![b] = j]
    PROVE  DOMAIN job' = Backups /\ job'[b] = j /\ (\A c \in Backups \ {b} : job'[c] = job[c])
           /\ \A c \in Backups : JobOK(job'[c])
BY DEF BackupInv

(* ChooseName finds a name that no archive has: one of the first numbers,    *)
(* of which there is one more than archives.                                *)
LEMMA FreeName ==
    ASSUME BackupInv
    PROVE  \E n \in 1..(1 + Cardinality(store)) :
              <<second, n>> \notin Names /\ \A j \in 1..(n - 1) : <<second, j>> \in Names
<1> DEFINE m == 1 + Cardinality(store)
           free == {k \in Nat : k # 0 /\ <<second, k>> \notin Names}
           by == [a \in store |-> a.name]
<1>1. IsFiniteSet(store) /\ Cardinality(store) \in Nat /\ second \in Nat
  BY FS_CardinalityType DEF BackupInv, StoreOK
<1>2. \E k \in 1..m : <<second, k>> \notin Names
  <2> SUFFICES ASSUME \A k \in 1..m : <<second, k>> \in Names PROVE FALSE
    OBVIOUS
  <2> DEFINE of == [k \in 1..m |-> CHOOSE a \in store : a.name = <<second, k>>]
  <2>1. \A k \in 1..m : of[k] \in store /\ of[k].name = <<second, k>>
    BY DEF Names
  <2>2. m \in Nat /\ Cardinality(store) < m
    BY <1>1
  <2>3. IsFiniteSet(1..m) /\ Cardinality(1..m) = m
    BY <2>2, CardUpto
  <2>4. of \in [1..m -> store]
    BY <2>1
  <2> HIDE DEF of, m
  <2>5. PICK x \in 1..m, y \in 1..m : x # y /\ of[x] = of[y]
    BY <1>1, <2>2, <2>3, <2>4, FS_PigeonHole
  <2>6. <<second, x>> = <<second, y>>
    BY <2>1, <2>5
  <2> QED BY <2>5, <2>6
<1>3. free \in SUBSET Nat /\ free # {}
  <2>1. PICK k \in 1..m : <<second, k>> \notin Names
    BY <1>2
  <2>2. k \in free
    BY <1>1, <2>1
  <2> QED BY <2>2
<1>4. PICK n \in free : \A k \in free : n <= k
  <2> HIDE DEF free
  <2> QED BY <1>3, LeastNat
<1>5. PICK k \in 1..m : <<second, k>> \notin Names
  BY <1>2
<1>6. n \in 1..m
  <2>1. k \in free
    BY <1>1, <1>5
  <2> QED BY <1>1, <1>4, <2>1
<1>7. ASSUME NEW j \in 1..(n - 1) PROVE <<second, j>> \in Names
  <2>1. j \in Nat /\ j # 0 /\ ~(n <= j)
    BY <1>4, <1>7
  <2> QED BY <1>4, <2>1
<1> QED BY <1>4, <1>6, <1>7

LEMMA ChooseNameKeeps ==
    ASSUME BackupInv, NEW b \in Backups, ChooseName(b)
    PROVE  BackupInv'
<1> DEFINE n == CHOOSE k \in 1..(1 + Cardinality(store)) :
                  <<second, k>> \notin Names /\ \A j \in 1..(k - 1) : <<second, j>> \in Names
           nm == <<second, n>>
           j == [pc |-> "create", name |-> nm, got |-> Empty, was |-> Empty, from |-> 0]
<1>1. job[b].pc = "idle" /\ job' = [job EXCEPT ![b] = j] /\ UNCHANGED <<store, failures, reported, clash, second>>
  BY DEF ChooseName, jobFrame
<1>2. n \in 1..(1 + Cardinality(store))
  BY FreeName
<1>3. Cardinality(store) \in Nat /\ second \in Nat
  BY FS_CardinalityType DEF BackupInv, StoreOK
<1> HIDE DEF n
<1>4. nm \in Name
  BY <1>2, <1>3 DEF Name
<1> HIDE DEF nm
<1>5. JobOK(j) /\ j.pc = "create"
  BY <1>4 DEF JobOK, JobPC
<1> HIDE DEF j
<1>6. /\ DOMAIN job' = Backups /\ job'[b] = j /\ (\A c \in Backups \ {b} : job'[c] = job[c])
      /\ \A c \in Backups : JobOK(job'[c])
  BY <1>1, <1>5, JobMoves
<1>7. \A c \in Backups : Underway(c) => Underway(c)' /\ job'[c] = job[c]
  BY <1>1, <1>6 DEF Underway
<1>8. Partials'
  <2>1. PICK F : IsFiniteSet(F) /\ Cardinality(F) <= failures /\ CutOff(F)
    BY DEF BackupInv, Partials
  <2>2. CutOff(F)'
    BY <1>1, <1>7, <2>1 DEF CutOff
  <2> QED BY <1>1, <2>1, <2>2 DEF Partials
<1> QED BY <1>1, <1>6, <1>8 DEF BackupInv, StoreOK, SomeBackupIsWhole

(* Steps that leave the archives and the names of those underway as they are. *)
LEMMA ArchivesKept ==
    ASSUME BackupInv, UNCHANGED <<store, failures, reported>>, clash => clash', second' \in Nat,
           DOMAIN job' = Backups, \A b \in Backups : JobOK(job'[b]),
           \A b \in Backups : Underway(b) => Underway(b)' /\ job'[b].name = job[b].name
    PROVE  BackupInv'
<1>1. Partials'
  <2>1. PICK F : IsFiniteSet(F) /\ Cardinality(F) <= failures /\ CutOff(F)
    BY DEF BackupInv, Partials
  <2>2. CutOff(F)'
    BY <2>1 DEF CutOff
  <2> QED BY <2>1, <2>2 DEF Partials
<1> QED BY <1>1 DEF BackupInv, StoreOK, SomeBackupIsWhole

LEMMA ReadTableKeeps ==
    ASSUME BackupInv, NEW b \in Backups, NEW t \in {"sprints", "tasks", "runs"},
           NEW next \in {"tasks", "runs", "close"}, ReadTable(b, t, next)
    PROVE  BackupInv'
<1> DEFINE got == [job[b].got EXCEPT ![t] = board[t]]
           j == [[job[b] EXCEPT !.pc = next] EXCEPT !.got = got]
<1>1. job[b].pc = t /\ UNCHANGED <<store, failures, reported, clash, second>>
  BY DEF ReadTable, jobFrame
<1>2. job' = [job EXCEPT ![b] = j]
  BY DEF ReadTable, BackupInv
<1>3. JobOK(job[b]) /\ Underway(b)
  BY <1>1 DEF BackupInv, Underway
<1> HIDE DEF got
<1>4. JobOK(j) /\ j.pc = next /\ j.name = job[b].name
  BY <1>1, <1>3 DEF JobOK, JobPC
<1> HIDE DEF j
<1>5. /\ DOMAIN job' = Backups /\ job'[b] = j /\ (\A c \in Backups \ {b} : job'[c] = job[c])
      /\ \A c \in Backups : JobOK(job'[c])
  BY <1>2, <1>4, JobMoves
<1>6. \A c \in Backups : Underway(c) => Underway(c)' /\ job'[c].name = job[c].name
  BY <1>4, <1>5 DEF Underway
<1> QED BY <1>1, <1>5, <1>6, ArchivesKept DEF BackupInv

(* A new archive is its job's; it may take the name, and the place, of an     *)
(* older one only when two backups chose the same.                          *)
LEMMA CreateKeeps ==
    ASSUME BackupInv, NEW b \in Backups, CreateArchive(b)
    PROVE  BackupInv'
<1> DEFINE taken == {a \in store : a.name = job[b].name}
           new == [name |-> job[b].name, whole |-> FALSE, got |-> Empty, was |-> Empty, quiet |-> FALSE]
           j == [[[job[b] EXCEPT !.pc = "sprints"] EXCEPT !.was = board] EXCEPT !.from = writes]
<1>1. job[b].pc = "create" /\ UNCHANGED <<failures, reported, second>> /\ (clash' <=> clash \/ taken # {})
  BY DEF CreateArchive, jobFrame
<1>2. store' = (store \ taken) \cup {new}
  BY DEF CreateArchive
<1>3. job' = [job EXCEPT ![b] = j]
  BY DEF CreateArchive, BackupInv
<1>4. JobOK(job[b]) /\ job[b].name \in Name
  BY <1>1 DEF BackupInv, JobOK
<1>5. JobOK(j) /\ j.pc = "sprints" /\ j.name = job[b].name
  BY <1>1, <1>4 DEF JobOK, JobPC
<1> HIDE DEF j
<1>6. /\ DOMAIN job' = Backups /\ job'[b] = j /\ (\A c \in Backups \ {b} : job'[c] = job[c])
      /\ \A c \in Backups : JobOK(job'[c])
  BY <1>3, <1>5, JobMoves
<1>7. new.name = job[b].name /\ new.whole = FALSE
  OBVIOUS
<1> HIDE DEF new
<1>8. StoreOK(store')
  <2>1. IsFiniteSet(store')
    <3>1. store \ taken \in SUBSET store /\ IsFiniteSet(store)
      BY DEF BackupInv, StoreOK
    <3>2. IsFiniteSet(store \ taken)
      BY <3>1, FS_Subset
    <3> HIDE DEF taken
    <3> QED BY <1>2, <3>2, FS_AddElement
  <2>2. \A a \in store' : a.name \in Name /\ a.whole \in BOOLEAN
    BY <1>2, <1>4, <1>7 DEF BackupInv, StoreOK
  <2>3. \A a, c \in store' : a.name = c.name => a = c
    BY <1>2, <1>7 DEF BackupInv, StoreOK
  <2> QED BY <2>1, <2>2, <2>3 DEF StoreOK
<1>9. \A c \in Backups : Underway(c) => Underway(c)' /\ job'[c].name = job[c].name
  BY <1>1, <1>6 DEF Underway
<1>10. Underway(b)' /\ job'[b].name = new.name
  BY <1>5, <1>6, <1>7 DEF Underway
<1>11. Partials'
  <2>1. PICK F : IsFiniteSet(F) /\ Cardinality(F) <= failures /\ CutOff(F)
    BY DEF BackupInv, Partials
  <2>2. CutOff(F)'
    BY <1>2, <1>9, <1>10, <2>1 DEF CutOff
  <2> QED BY <1>1, <2>1, <2>2 DEF Partials
<1>12. SomeBackupIsWhole'
  BY <1>1, <1>2 DEF BackupInv, SomeBackupIsWhole
<1> QED BY <1>1, <1>6, <1>8, <1>11, <1>12 DEF BackupInv

(* A failure adds the name of its archive to those that were cut off.         *)
LEMMA FailKeeps ==
    ASSUME BackupInv, NEW b \in Backups, FailBackup(b)
    PROVE  BackupInv'
<1>1. /\ UNCHANGED <<store, reported, clash, second>> /\ failures < MaxFailures /\ failures' = failures + 1
      /\ job' = [job EXCEPT ![b] = Idle]
  BY DEF FailBackup, jobFrame
<1>2. JobOK(Idle) /\ Idle.pc = "idle"
  BY DEF JobOK, Idle, JobPC
<1>3. /\ DOMAIN job' = Backups /\ (\A c \in Backups \ {b} : job'[c] = job[c])
      /\ \A c \in Backups : JobOK(job'[c])
  BY <1>1, <1>2, JobMoves
<1>4. failures \in Nat /\ failures' \in 0..MaxFailures
  BY <1>1, KeepAssumption DEF BackupInv
<1>5. Partials'
  <2>1. PICK F : IsFiniteSet(F) /\ Cardinality(F) <= failures /\ CutOff(F)
    BY DEF BackupInv, Partials
  <2>0. PICK name : name = job[b].name
    OBVIOUS
  <2> DEFINE G == F \cup {name}
  <2>2. IsFiniteSet(G) /\ Cardinality(G) \in Nat /\ Cardinality(F) \in Nat /\ Cardinality(G) <= Cardinality(F) + 1
    BY <2>1, FS_AddElement, FS_CardinalityType
  <2>3. \A c \in Backups : Underway(c) => c = b \/ (Underway(c)' /\ job'[c].name = job[c].name)
    BY <1>3 DEF Underway
  <2>4. CutOff(G)'
    <3> SUFFICES ASSUME NEW a \in store, ~a.whole
                 PROVE  a.name \in G \/ \E c \in Backups : Underway(c)' /\ a.name = job'[c].name
      BY <1>1 DEF CutOff
    <3>1. a.name \in F \/ \E c \in Backups : Underway(c) /\ a.name = job[c].name
      BY <2>1 DEF CutOff
    <3> QED BY <2>0, <2>3, <3>1
  <2> HIDE DEF G
  <2>5. Cardinality(G) <= failures'
    BY <1>1, <1>4, <2>1, <2>2
  <2> QED BY <2>2, <2>4, <2>5 DEF Partials
<1> QED BY <1>1, <1>3, <1>4, <1>5 DEF BackupInv, StoreOK, SomeBackupIsWhole

(* The clean-up after a backup: its archive is whole, and of the others no    *)
(* more are not than jobs are underway besides and failed.                  *)
LEMMA FinishKeeps ==
    ASSUME BackupInv, NEW b \in Backups, FinishBackup(b)
    PROVE  BackupInv'
<1>1. /\ UNCHANGED <<failures, clash, second>> /\ job' = [job EXCEPT ![b] = Idle] /\ job[b].pc = "close"
  BY DEF FinishBackup, jobFrame
<1>2. PICK a : /\ store' = Cleaned({x \in store : x.name # a.name} \cup {a})
               /\ a.name = job[b].name /\ a.whole = TRUE
  <2> DEFINE g == job[b].got
             got == [g EXCEPT !.runs = {r \in @ : r.task \in RowIds(g.tasks)}]
             new == [name |-> job[b].name, whole |-> TRUE, got |-> got, was |-> job[b].was,
                     quiet |-> job[b].from = writes]
  <2>1. store' = Cleaned({x \in store : x.name # new.name} \cup {new})
    BY DEF FinishBackup
  <2>2. new.name = job[b].name /\ new.whole = TRUE
    <3> HIDE DEF got
    <3> QED OBVIOUS
  <2> HIDE DEF new
  <2> QED BY <2>1, <2>2
<1> DEFINE Others == {x \in store : x.name # a.name}
           S == Others \cup {a}
<1>3. JobOK(Idle) /\ Idle.pc = "idle" /\ job[b].name \in Name /\ Underway(b)
  BY <1>1 DEF JobOK, Idle, JobPC, BackupInv, Underway
<1>4. /\ DOMAIN job' = Backups /\ (\A c \in Backups \ {b} : job'[c] = job[c])
      /\ \A c \in Backups : JobOK(job'[c])
  BY <1>1, <1>3, JobMoves
<1>5. StoreOK(S)
  <2>1. IsFiniteSet(S)
    <3>1. Others \in SUBSET store /\ IsFiniteSet(store)
      BY DEF BackupInv, StoreOK
    <3>2. IsFiniteSet(Others)
      BY <3>1, FS_Subset
    <3> HIDE DEF Others
    <3> QED BY <3>2, FS_AddElement
  <2>2. \A x \in S : x.name \in Name /\ x.whole \in BOOLEAN
    BY <1>2, <1>3 DEF BackupInv, StoreOK
  <2>3. \A x, y \in S : x.name = y.name => x = y
    BY DEF BackupInv, StoreOK
  <2> QED BY <2>1, <2>2, <2>3 DEF StoreOK
<1>6. PICK F : IsFiniteSet(F) /\ Cardinality(F) <= failures /\ CutOff(F)
  BY DEF BackupInv, Partials
<1>7. \A x \in S : ~x.whole => x.name \in F \/ \E c \in Backups \ {b} : Underway(c) /\ x.name = job[c].name
  BY <1>2, <1>6 DEF CutOff
<1>8. store' \in SUBSET S
  BY <1>2 DEF Cleaned
<1>9. StoreOK(store')
  <2> HIDE DEF S
  <2>1. IsFiniteSet(store')
    BY <1>5, <1>8, FS_Subset DEF StoreOK
  <2> QED BY <1>5, <1>8, <2>1 DEF StoreOK
<1> HIDE DEF S, Others
<1>10. Partials'
  <2>1. \A c \in Backups \ {b} : Underway(c) => Underway(c)' /\ job'[c].name = job[c].name
    BY <1>4 DEF Underway
  <2>2. CutOff(F)'
    BY <1>7, <1>8, <2>1 DEF CutOff
  <2> QED BY <1>1, <1>6, <2>2 DEF Partials
<1>11. \E x \in store' : x.whole
  <2> DEFINE B == Backups \ {b}
             N == {job[c].name : c \in B}
             P == F \cup N
             names == [c \in B |-> job[c].name]
  <2>1. IsFiniteSet(B) /\ Cardinality(B) = Cardinality(Backups) - 1
    BY FS_RemoveElement, KeepAssumption
  <2>2. names \in Surjection(B, N)
    BY DEF Surjection
  <2> HIDE DEF names, B
  <2>3. IsFiniteSet(N) /\ Cardinality(N) <= Cardinality(B)
    <3> HIDE DEF N
    <3> QED BY <2>1, <2>2, FS_Surjection
  <2>4. /\ Cardinality(B) \in Nat /\ Cardinality(N) \in Nat /\ Cardinality(F) \in Nat
        /\ Cardinality(Backups) \in Nat /\ IsFiniteSet(F \cap N) /\ Cardinality(F \cap N) \in Nat
    <3>1. IsFiniteSet(F \cap N)
      <4>1. F \cap N \in SUBSET F
        OBVIOUS
      <4> HIDE DEF N
      <4> QED BY <1>6, <4>1, FS_Subset
    <3> HIDE DEF N
    <3> QED BY <1>6, <2>1, <2>3, <3>1, FS_CardinalityType, KeepAssumption
  <2>5. IsFiniteSet(P) /\ Cardinality(P) = Cardinality(F) + Cardinality(N) - Cardinality(F \cap N)
    <3> HIDE DEF N
    <3> QED BY <1>6, <2>3, FS_Union
  <2>6. Cardinality(P) < Keep
    <3>1. failures \in Nat /\ failures <= MaxFailures /\ MaxFailures \in Nat /\ Keep \in Nat
          /\ Cardinality(Backups) + MaxFailures <= Keep
      BY KeepAssumption DEF BackupInv
    <3> HIDE DEF N, P
    <3> QED BY <1>6, <2>1, <2>3, <2>4, <2>5, <3>1
  <2>7. \A x \in S : ~x.whole => x.name \in P
    BY <1>7 DEF B
  <2>8. \E x \in S : x.whole
    BY <1>2 DEF S
  <2> HIDE DEF P
  <2>9. \E x \in Cleaned(S) : x.whole
    BY <1>5, <2>5, <2>6, <2>7, <2>8, CleanedKeeps
  <2> QED BY <1>2, <2>9 DEF S, Others
<1> QED BY <1>1, <1>4, <1>9, <1>10, <1>11 DEF BackupInv, SomeBackupIsWhole

(* The server at work, time, and restores.                                  *)
LEMMA BackupStep == BackupInv /\ [BackupNext]_backupVars => BackupInv'
<1> SUFFICES ASSUME BackupInv, [BackupNext]_backupVars PROVE BackupInv'
  OBVIOUS
<1>1. ASSUME UNCHANGED <<job, store, failures, reported, clash>>, second' \in Nat PROVE BackupInv'
  <2>1. \A c \in Backups : Underway(c) => Underway(c)' /\ job'[c].name = job[c].name
    BY <1>1 DEF Underway
  <2> QED BY <1>1, <2>1, ArchivesKept DEF BackupInv
<1>2. second \in Nat
  BY DEF BackupInv
<1>3. ASSUME UNCHANGED changeFrame PROVE BackupInv'
  BY <1>1, <1>2, <1>3 DEF changeFrame
<1>7. CASE NewSprint \/ \E s \in board.sprints : NewTask(s)
  BY <1>3, <1>7, Zenon DEF NewSprint, NewTask
<1>8. CASE Tick
  BY <1>1, <1>2, <1>8 DEF Tick
<1>9. ASSUME NEW t \in board.tasks,
             StartRun(t) \/ \E s \in board.sprints, p \in {0} \cup RowIds(board.tasks) : MoveTask(t, s, p)
      PROVE  BackupInv'
  BY <1>3, <1>9, Zenon DEF StartRun, MoveTask
<1>10. CASE \E r \in board.runs : PauseRun(r)
  BY <1>3, <1>10, Zenon DEF PauseRun
<1>4. CASE \/ (\E a \in store : BeginRestore(a)) \/ Wipe \/ InsertSprints \/ InsertRuns
          \/ \E t \in restore.todo : InsertTask(t)
  BY <1>1, <1>2, <1>4 DEF BeginRestore, Wipe, InsertSprints, InsertTask, InsertRuns, restoreFrame
<1>5. ASSUME NEW b \in Backups, ReadTable(b, "sprints", "tasks") \/ ReadTable(b, "tasks", "runs") \/ ReadTable(b, "runs", "close")
      PROVE  BackupInv'
  BY <1>5, ReadTableKeeps
<1>6. CASE UNCHANGED backupVars
  BY <1>1, <1>2, <1>6 DEF backupVars
<1> QED BY <1>4, <1>5, <1>6, <1>7, <1>8, <1>9, <1>10, ChooseNameKeeps, CreateKeeps, FinishKeeps, FailKeeps DEF BackupNext

(* Once a backup was reported there is always one that can be restored: the   *)
(* last whole archive has fewer than Keep after it, all of them underway or  *)
(* cut off, so no clean-up takes it; only a backup that chose the same name  *)
(* at the same instant overwrites it (CreateBackup, cleanupOldBackups).      *)
THEOREM SomeBackupIsWholeAlways == BackupSpec => []SomeBackupIsWhole
<1>1. BackupInv => SomeBackupIsWhole
  BY DEF BackupInv
<1> QED BY <1>1, BackupStart, BackupStep, PTL DEF BackupSpec
----------------------------------------------------------------------------
(* A restore.                                                              *)

Tables == {"sprints", "tasks", "runs"}
TaskRow == [id : Nat, sprint : Nat, par : Nat]

(* What the foreign keys and the primary key of tasks keep.                 *)
SoundBoard(B) ==
    /\ DOMAIN B = Tables
    /\ IsFiniteSet(B.sprints) /\ B.sprints \subseteq Nat
    /\ IsFiniteSet(B.tasks) /\ B.tasks \subseteq TaskRow
    /\ \A t, u \in B.tasks : t.id = u.id => t = u
    /\ \A t \in B.tasks : t.sprint \in B.sprints
    /\ \A r \in B.runs : DOMAIN r = {"id", "task", "st"}

(* An archive that holds the board it was begun on.                        *)
Faithful(a) ==
    /\ SoundBoard(a.was) /\ DOMAIN a.got = Tables
    /\ a.got.sprints = a.was.sprints /\ a.got.tasks = a.was.tasks
    /\ a.got.runs = {r \in a.was.runs : r.task \in RowIds(a.was.tasks)}

(* A backup beside which nothing changed has read what the board still is.  *)
ReadSoFar(j, B) ==
    /\ j.was = B
    /\ j.pc \in {"tasks", "runs", "close"} => j.got.sprints = B.sprints
    /\ j.pc \in {"runs", "close"} => j.got.tasks = B.tasks
    /\ j.pc = "close" => j.got.runs = B.runs

JobTimed(j) ==
    /\ DOMAIN j = {"pc", "name", "got", "was", "from"} /\ DOMAIN j.got = Tables
    /\ j.from \in 0..writes
TimesOK ==
    /\ writes \in Nat /\ \A b \in Backups : JobTimed(job[b])
    /\ DOMAIN restore = {"pc", "arch", "from", "todo"} /\ restore.from \in 0..writes

SourcesOK ==
    /\ SoundBoard(board)
    /\ \A b \in Backups : Underway(b) /\ job[b].from = writes => ReadSoFar(job[b], board)
    /\ \A a \in store : a.whole /\ a.quiet => Faithful(a)

(* The tasks inserted so far are those of the rows seen so far that can be   *)
(* put back at all.                                                        *)
PutBackSoFar(was) ==
    /\ board.sprints = was.sprints /\ board.runs = {} /\ DOMAIN board = Tables
    /\ restore.todo \subseteq was.tasks
    /\ \A d \in was.tasks \ restore.todo, u \in restore.todo : d.id < u.id
    /\ board.tasks = (was.tasks \ restore.todo) \cap Restorable(was.tasks)

RestorePC == {"idle", "wipe", "sprints", "tasks", "done"}
RestoreOK ==
    Quiet =>
        /\ Faithful(restore.arch)
        /\ restore.pc = "sprints" => board = Empty
        /\ restore.pc = "tasks" => PutBackSoFar(restore.arch.was)
        /\ RestoreGivesBack

RestoreInv ==
    /\ DOMAIN job = Backups /\ TimesOK /\ restore.pc \in RestorePC
    /\ restore.pc = "idle" => SourcesOK
    /\ restore.pc # "idle" => RestoreOK

(* The rows that can be put back are rooted, and hold every rooted set.     *)
LEMMA RestorableRooted ==
    ASSUME NEW T
    PROVE  /\ Restorable(T) \subseteq T /\ Rooted(Restorable(T))
           /\ \A S \in SUBSET T : Rooted(S) => S \subseteq Restorable(T)
<1>1. ASSUME NEW t \in Restorable(T), t.par # 0 PROVE \E q \in Restorable(T) : q.id = t.par /\ q.id < t.id
  <2>1. PICK S \in SUBSET T : Rooted(S) /\ t \in S
    BY DEF Restorable
  <2>2. PICK q \in S : q.id = t.par /\ q.id < t.id
    BY <1>1, <2>1 DEF Rooted
  <2> QED BY <2>1, <2>2 DEF Restorable
<1>2. Rooted(Restorable(T))
  BY <1>1, Zenon DEF Rooted
<1> QED BY <1>2 DEF Restorable

(* The next row by id is accepted exactly when it can be put back at all:    *)
(* a parent has the smaller id, so its turn was before.                     *)
LEMMA NextRow ==
    ASSUME NEW T, T \subseteq TaskRow, \A x, y \in T : x.id = y.id => x = y,
           NEW todo \in SUBSET T, \A d \in T \ todo, u \in todo : d.id < u.id,
           NEW t \in todo, \A u \in todo : t.id <= u.id,
           NEW P, P = (T \ todo) \cap Restorable(T)
    PROVE  /\ t.id \notin RowIds(P)
           /\ (t.par = 0 \/ t.par \in RowIds(P)) <=> t \in Restorable(T)
<1>1. \A x \in T : x.id \in Nat
  BY DEF TaskRow
<1>2. t.id \notin RowIds(P)
  BY <1>1 DEF RowIds
<1>3. ASSUME t \in Restorable(T), t.par # 0 PROVE t.par \in RowIds(P)
  <2>1. PICK q \in Restorable(T) : q.id = t.par /\ q.id < t.id
    BY <1>3, RestorableRooted DEF Rooted
  <2>2. q \in T /\ q \notin todo
    BY <1>1, <2>1, RestorableRooted
  <2> QED BY <2>1, <2>2 DEF RowIds
<1>4. ASSUME t.par = 0 \/ t.par \in RowIds(P) PROVE t \in Restorable(T)
  <2> DEFINE S == Restorable(T) \cup {t}
  <2>1. S \subseteq T
    BY RestorableRooted
  <2>2. t.par = 0 \/ \E q \in S : q.id = t.par /\ q.id < t.id
    <3>1. CASE t.par \in RowIds(P)
      <4>1. PICK q \in P : q.id = t.par
        BY <3>1 DEF RowIds
      <4>2. q \in S /\ q.id < t.id
        OBVIOUS
      <4> QED BY <4>1, <4>2
    <3> QED BY <1>4, <3>1
  <2>3. \A u \in Restorable(T) : u.par = 0 \/ \E q \in S : q.id = u.par /\ q.id < u.id
    BY RestorableRooted DEF Rooted
  <2>4. Rooted(S)
    BY <2>2, <2>3 DEF Rooted
  <2>5. S \subseteq Restorable(T)
    <3> HIDE DEF S
    <3> QED BY <2>1, <2>4, RestorableRooted
  <2> QED BY <2>5
<1> QED BY <1>2, <1>3, <1>4

LEMMA NextIdIsNumber == ASSUME NEW R, IsFiniteSet(R) PROVE 1 + Cardinality(R) \in Nat
BY FS_CardinalityType

LEMMA RestoreStart == BackupInit => RestoreInv
<1> SUFFICES ASSUME BackupInit PROVE RestoreInv
  OBVIOUS
<1>1. \A b \in Backups : JobTimed(job[b]) /\ ~Underway(b)
  BY DEF BackupInit, Idle, Underway, Empty, Tables, JobTimed
<1>2. restore.pc = "idle" /\ DOMAIN restore = {"pc", "arch", "from", "todo"} /\ restore.from = 0
  BY DEF BackupInit, NoRestore
<1>3. SoundBoard(board)
  <2>1. DOMAIN board = Tables /\ board.sprints = {1} /\ board.tasks = {} /\ board.runs = {}
    BY DEF BackupInit, Empty, Tables
  <2>2. IsFiniteSet({1}) /\ IsFiniteSet({})
    BY FS_EmptySet, FS_Singleton
  <2> QED BY <2>1, <2>2 DEF SoundBoard
<1> QED BY <1>1, <1>2, <1>3 DEF BackupInit, RestoreInv, TimesOK, SourcesOK, RestorePC

(* While no restore runs, a board that changed makes no backup look quiet.   *)
LEMMA ChangeKeeps ==
    ASSUME RestoreInv, Change, UNCHANGED changeFrame, restore.pc = "idle" => SoundBoard(board')
    PROVE  RestoreInv'
<1>1. writes \in Nat /\ writes' = writes + 1 /\ UNCHANGED <<job, store, restore>>
  BY Zenon DEF Change, changeFrame, RestoreInv, TimesOK
<1>2. TimesOK'
  BY <1>1 DEF RestoreInv, TimesOK, JobTimed
<1>3. \A b \in Backups : job[b].from # writes'
  BY <1>1 DEF RestoreInv, TimesOK, JobTimed
<1>4. restore.from # writes'
  BY <1>1 DEF RestoreInv, TimesOK
<1>5. restore.pc # "idle" => RestoreOK'
  BY <1>1, <1>4 DEF RestoreOK, Quiet
<1>6. restore.pc = "idle" => SourcesOK'
  BY <1>1, <1>3 DEF SourcesOK, RestoreInv, Underway
<1> QED BY <1>1, <1>2, <1>5, <1>6 DEF RestoreInv

LEMMA SprintSound ==
    ASSUME SoundBoard(board), board' = [board EXCEPT !.sprints = @ \cup {1 + Cardinality(@)}]
    PROVE  SoundBoard(board')
<1>1. IsFiniteSet(board'.sprints) /\ board'.sprints \subseteq Nat /\ board.sprints \subseteq board'.sprints
  <2>1. board'.sprints = board.sprints \cup {1 + Cardinality(board.sprints)}
    BY DEF SoundBoard, Tables
  <2>2. IsFiniteSet(board.sprints) /\ board.sprints \subseteq Nat
    BY DEF SoundBoard
  <2>3. 1 + Cardinality(board.sprints) \in Nat
    BY <2>2, NextIdIsNumber
  <2> QED BY <2>1, <2>2, <2>3, FS_AddElement
<1>2. board'.tasks = board.tasks /\ board'.runs = board.runs /\ DOMAIN board' = Tables
  BY DEF SoundBoard, Tables
<1> QED BY <1>1, <1>2 DEF SoundBoard

LEMMA TasksSound ==
    ASSUME SoundBoard(board), NEW T \in SUBSET board.tasks, NEW t \in TaskRow,
           \A u \in T : u.id # t.id, t.sprint \in board.sprints,
           board' = [board EXCEPT !.tasks = T \cup {t}]
    PROVE  SoundBoard(board')
<1>1. board'.tasks = T \cup {t} /\ board'.sprints = board.sprints /\ board'.runs = board.runs /\ DOMAIN board' = Tables
  BY DEF SoundBoard, Tables
<1>2. IsFiniteSet(board'.tasks)
  <2>1. IsFiniteSet(T)
    BY FS_Subset DEF SoundBoard
  <2> QED BY <1>1, <2>1, FS_AddElement
<1> QED BY <1>1, <1>2 DEF SoundBoard

LEMMA RunsSound ==
    ASSUME SoundBoard(board), NEW R, \A r \in R : DOMAIN r = {"id", "task", "st"},
           board' = [board EXCEPT !.runs = R]
    PROVE  SoundBoard(board')
<1>1. board'.runs = R /\ board'.sprints = board.sprints /\ board'.tasks = board.tasks /\ DOMAIN board' = Tables
  BY DEF SoundBoard, Tables
<1> QED BY <1>1 DEF SoundBoard


LEMMA WorkKeeps ==
    ASSUME RestoreInv,
           \/ NewSprint \/ \E s \in board.sprints : NewTask(s)
           \/ \E t \in board.tasks : StartRun(t) \/ \E s \in board.sprints, p \in {0} \cup RowIds(board.tasks) : MoveTask(t, s, p)
           \/ \E r \in board.runs : PauseRun(r)
    PROVE  RestoreInv'
<1>1. CASE NewSprint
  <2>1. Change /\ UNCHANGED changeFrame /\ board' = [board EXCEPT !.sprints = @ \cup {1 + Cardinality(@)}]
    BY <1>1, Zenon DEF NewSprint
  <2> QED BY <2>1, SprintSound, ChangeKeeps DEF RestoreInv, SourcesOK
<1>2. ASSUME NEW s \in board.sprints, NewTask(s) PROVE RestoreInv'
  <2> DEFINE t == [id |-> Next1(board.tasks), sprint |-> s, par |-> 0]
  <2>1. /\ Change /\ UNCHANGED changeFrame /\ t.id \notin RowIds(board.tasks)
        /\ board' = [board EXCEPT !.tasks = board.tasks \cup {t}]
    BY <1>2 DEF NewTask
  <2>2. SUFFICES ASSUME SoundBoard(board) PROVE SoundBoard(board')
    BY <2>1, ChangeKeeps DEF RestoreInv, SourcesOK
  <2>3. IsFiniteSet(board.tasks) /\ board.sprints \subseteq Nat
    BY <2>2 DEF SoundBoard
  <2>4. t \in TaskRow /\ t.sprint = s
    <3>1. Next1(board.tasks) \in Nat
      BY <2>3, NextIdIsNumber DEF Next1
    <3> QED BY <2>3, <3>1 DEF TaskRow
  <2>5. \A u \in board.tasks : u.id # t.id
    BY <2>1, Zenon DEF RowIds
  <2> HIDE DEF t
  <2> QED BY <2>1, <2>2, <2>4, <2>5, TasksSound
<1>3. ASSUME NEW t \in board.tasks, StartRun(t) PROVE RestoreInv'
  <2> DEFINE x == [id |-> Next1(board.runs), task |-> t.id, st |-> "running"]
  <2>1. Change /\ UNCHANGED changeFrame /\ board' = [board EXCEPT !.runs = board.runs \cup {x}]
    BY <1>3 DEF StartRun
  <2>2. SUFFICES ASSUME SoundBoard(board) PROVE SoundBoard(board')
    BY <2>1, ChangeKeeps DEF RestoreInv, SourcesOK
  <2>3. \A r \in board.runs \cup {x} : DOMAIN r = {"id", "task", "st"}
    BY <2>2 DEF SoundBoard
  <2> HIDE DEF x
  <2> QED BY <2>1, <2>2, <2>3, RunsSound
<1>4. ASSUME NEW t \in board.tasks, NEW s \in board.sprints, NEW p \in {0} \cup RowIds(board.tasks), MoveTask(t, s, p)
      PROVE  RestoreInv'
  <2> DEFINE u == [t EXCEPT !.sprint = s, !.par = p]
             T == board.tasks \ {t}
  <2>1. Change /\ UNCHANGED changeFrame /\ board' = [board EXCEPT !.tasks = T \cup {u}]
    BY <1>4 DEF MoveTask
  <2>2. SUFFICES ASSUME SoundBoard(board) PROVE SoundBoard(board')
    BY <2>1, ChangeKeeps DEF RestoreInv, SourcesOK
  <2>3. p \in Nat /\ s \in Nat /\ t \in TaskRow
    BY <2>2 DEF SoundBoard, RowIds, TaskRow
  <2>4. u \in TaskRow /\ u.sprint = s /\ u.id = t.id
    BY <2>3 DEF TaskRow
  <2>5. T \in SUBSET board.tasks /\ \A y \in T : y.id # u.id
    BY <2>2, <2>4 DEF SoundBoard
  <2> HIDE DEF u, T
  <2> QED BY <2>1, <2>2, <2>4, <2>5, TasksSound
<1>5. ASSUME NEW r \in board.runs, PauseRun(r) PROVE RestoreInv'
  <2> DEFINE x == [r EXCEPT !.st = "paused"]
             R == (board.runs \ {r}) \cup {x}
  <2>1. Change /\ UNCHANGED changeFrame /\ board' = [board EXCEPT !.runs = R]
    BY <1>5 DEF PauseRun
  <2>2. SUFFICES ASSUME SoundBoard(board) PROVE SoundBoard(board')
    BY <2>1, ChangeKeeps DEF RestoreInv, SourcesOK
  <2>3. \A y \in R : DOMAIN y = {"id", "task", "st"}
    BY <2>2 DEF SoundBoard
  <2> HIDE DEF R
  <2> QED BY <2>1, <2>2, <2>3, RunsSound
<1> QED BY <1>1, <1>2, <1>3, <1>4, <1>5

(* A step of one backup: what it has read so far, and what it leaves.       *)
LEMMA JobKeeps ==
    ASSUME RestoreInv, NEW b \in Backups, NEW j, job' = [job EXCEPT ![b] = j], UNCHANGED <<board, writes, restore>>,
           JobTimed(j),
           restore.pc = "idle" /\ j.pc \notin {"idle", "create"} /\ j.from = writes => ReadSoFar(j, board),
           restore.pc = "idle" => \A a \in store' : a.whole /\ a.quiet => a \in store \/ Faithful(a)
    PROVE  RestoreInv'
<1>1. DOMAIN job = Backups
  BY DEF RestoreInv
<1>2. DOMAIN job' = Backups /\ job'[b] = j /\ \A c \in Backups \ {b} : job'[c] = job[c]
  BY <1>1
<1>3. TimesOK'
  BY <1>2 DEF RestoreInv, TimesOK, JobTimed
<1>4. restore.pc # "idle" => RestoreOK'
  <2>1. RestoreOK => RestoreOK'
    BY DEF RestoreOK, Quiet, PutBackSoFar, RestoreGivesBack
  <2> QED BY <2>1 DEF RestoreInv
<1>5. ASSUME restore.pc = "idle" PROVE SourcesOK'
  <2>1. SourcesOK
    BY <1>5 DEF RestoreInv
  <2>2. ASSUME NEW c \in Backups, Underway(c)', job'[c].from = writes' PROVE ReadSoFar(job'[c], board')
    <3>1. CASE c = b
      BY <1>2, <1>5, <2>2, <3>1 DEF Underway
    <3>2. CASE c # b
      <4>1. Underway(c) /\ job[c].from = writes
        BY <1>2, <2>2, <3>2 DEF Underway
      <4> QED BY <1>2, <2>1, <3>2, <4>1 DEF SourcesOK
    <3> QED BY <3>1, <3>2
  <2>3. \A a \in store' : a.whole /\ a.quiet => Faithful(a)
    BY <1>5, <2>1 DEF SourcesOK
  <2> QED BY <2>1, <2>2, <2>3 DEF SourcesOK
<1> QED BY <1>2, <1>3, <1>4, <1>5 DEF RestoreInv

LEMMA BackupKeeps ==
    ASSUME RestoreInv, NEW b \in Backups,
           \/ ChooseName(b) \/ CreateArchive(b) \/ FinishBackup(b) \/ FailBackup(b)
           \/ ReadTable(b, "sprints", "tasks") \/ ReadTable(b, "tasks", "runs") \/ ReadTable(b, "runs", "close")
    PROVE  RestoreInv'
<1>1. JobTimed(job[b]) /\ writes \in Nat
  BY DEF RestoreInv, TimesOK
<1>2. JobTimed(Idle) /\ Idle.pc = "idle"
  BY <1>1 DEF JobTimed, Idle, Empty, Tables
<1>3. CASE ChooseName(b)
  <2>1. PICK nm : /\ job' = [job EXCEPT ![b] = [pc |-> "create", name |-> nm, got |-> Empty, was |-> Empty, from |-> 0]]
                  /\ UNCHANGED <<store, board, writes, restore>>
    BY <1>3 DEF ChooseName, jobFrame
  <2> DEFINE j == [pc |-> "create", name |-> nm, got |-> Empty, was |-> Empty, from |-> 0]
  <2>2. JobTimed(j) /\ j.pc = "create"
    BY <1>1 DEF JobTimed, Empty, Tables
  <2>3. job' = [job EXCEPT ![b] = j]
    BY <2>1
  <2> HIDE DEF j
  <2> QED BY <2>1, <2>2, <2>3, JobKeeps
<1>4. CASE CreateArchive(b)
  <2> DEFINE j == [job[b] EXCEPT !.pc = "sprints", !.was = board, !.from = writes]
  <2>1. job' = [job EXCEPT ![b] = j] /\ UNCHANGED <<board, writes, restore>>
    BY <1>4 DEF CreateArchive, jobFrame
  <2>2. \A a \in store' : a.whole => a \in store
    BY <1>4 DEF CreateArchive
  <2>3. JobTimed(j) /\ j.pc = "sprints" /\ ReadSoFar(j, board)
    BY <1>1 DEF JobTimed, ReadSoFar
  <2> HIDE DEF j
  <2> QED BY <2>1, <2>2, <2>3, JobKeeps
<1>5. CASE FinishBackup(b)
  <2> DEFINE g == job[b].got
             got == [g EXCEPT !.runs = {r \in @ : r.task \in RowIds(g.tasks)}]
             a == [name |-> job[b].name, whole |-> TRUE, got |-> got, was |-> job[b].was, quiet |-> job[b].from = writes]
  <2>1. /\ job' = [job EXCEPT ![b] = Idle] /\ UNCHANGED <<board, writes, restore>>
        /\ job[b].pc = "close" /\ store' = Cleaned({x \in store : x.name # a.name} \cup {a})
    BY <1>5 DEF FinishBackup, jobFrame
  <2>2. \A x \in store' : x \in store \/ x = a
    BY <2>1 DEF Cleaned
  <2>3. ASSUME restore.pc = "idle", job[b].from = writes PROVE Faithful(a)
    <3>1. ReadSoFar(job[b], board) /\ SoundBoard(board)
      BY <2>1, <2>3 DEF RestoreInv, SourcesOK, Underway
    <3>2. job[b].was = board /\ g.sprints = board.sprints /\ g.tasks = board.tasks /\ g.runs = board.runs
      BY <2>1, <3>1 DEF ReadSoFar
    <3>3. a.was = board /\ a.got = got
      BY <3>2
    <3>4. /\ DOMAIN got = Tables /\ got.sprints = g.sprints /\ got.tasks = g.tasks
          /\ got.runs = {r \in g.runs : r.task \in RowIds(g.tasks)}
      BY <1>1 DEF JobTimed, Tables
    <3> HIDE DEF g, got, a
    <3> QED BY <3>1, <3>2, <3>3, <3>4 DEF Faithful
  <2>4. a.quiet => job[b].from = writes
    OBVIOUS
  <2> HIDE DEF a
  <2> QED BY <1>2, <2>1, <2>2, <2>3, <2>4, JobKeeps
<1>6. CASE FailBackup(b)
  BY <1>2, <1>6, JobKeeps DEF FailBackup, jobFrame
<1>7. ASSUME NEW t \in Tables, NEW next \in {"tasks", "runs", "close"}, ReadTable(b, t, next),
             <<t, next>> \in {<<"sprints", "tasks">>, <<"tasks", "runs">>, <<"runs", "close">>}
      PROVE  RestoreInv'
  <2> DEFINE j == [job[b] EXCEPT !.pc = next, !.got[t] = board[t]]
  <2>1. job[b].pc = t /\ job' = [job EXCEPT ![b] = j] /\ UNCHANGED <<store, board, writes, restore>>
    BY <1>7 DEF ReadTable, jobFrame
  <2>2. /\ DOMAIN j = DOMAIN job[b] /\ j.pc = next /\ j.was = job[b].was /\ j.from = job[b].from
        /\ j.got = [job[b].got EXCEPT ![t] = board[t]]
    BY <1>1 DEF JobTimed
  <2>3. JobTimed(j)
    BY <1>1, <2>2 DEF JobTimed
  <2>4. ASSUME restore.pc = "idle", j.from = writes PROVE ReadSoFar(j, board)
    <3>1. ReadSoFar(job[b], board)
      BY <2>1, <2>2, <2>4 DEF RestoreInv, SourcesOK, Underway, Tables
    <3>2. j.got[t] = board[t] /\ \A u \in Tables \ {t} : j.got[u] = job[b].got[u]
      BY <1>1, <2>2 DEF JobTimed
    <3>3. CASE t = "sprints" /\ next = "tasks"
      BY <2>2, <3>1, <3>2, <3>3 DEF ReadSoFar, Tables
    <3>4. CASE t = "tasks" /\ next = "runs"
      BY <2>1, <2>2, <3>1, <3>2, <3>4 DEF ReadSoFar, Tables
    <3>5. CASE t = "runs" /\ next = "close"
      BY <2>1, <2>2, <3>1, <3>2, <3>5 DEF ReadSoFar, Tables
    <3> QED BY <1>7, <3>3, <3>4, <3>5
  <2> HIDE DEF j
  <2> QED BY <2>1, <2>3, <2>4, JobKeeps
<1> QED BY <1>3, <1>4, <1>5, <1>6, <1>7 DEF Tables

LEMMA RestoreKeeps ==
    ASSUME RestoreInv,
           (\E a \in store : BeginRestore(a)) \/ Wipe \/ InsertSprints \/ InsertRuns \/ (\E t \in restore.todo : InsertTask(t))
    PROVE  RestoreInv'
<1> DEFINE was == restore.arch.was
           got == restore.arch.got
<1>1. DOMAIN restore = {"pc", "arch", "from", "todo"} /\ restore.from \in 0..writes /\ writes \in Nat
  BY DEF RestoreInv, TimesOK
<1>2. ASSUME UNCHANGED <<job, writes>>, DOMAIN restore' = {"pc", "arch", "from", "todo"}, restore'.from \in 0..writes,
             restore'.pc \in RestorePC \ {"idle"}, RestoreOK'
      PROVE  RestoreInv'
  BY <1>2 DEF RestoreInv, TimesOK, JobTimed
<1>3. ASSUME NEW a \in store, BeginRestore(a) PROVE RestoreInv'
  <2>1. restore.pc = "idle" /\ a.whole /\ UNCHANGED <<job, writes>>
    BY <1>3 DEF BeginRestore, restoreFrame
  <2>2. /\ DOMAIN restore' = {"pc", "arch", "from", "todo"} /\ restore'.pc = "wipe" /\ restore'.from = writes
        /\ restore'.arch = a
    BY <1>3 DEF BeginRestore
  <2>3. a.quiet => Faithful(a)
    BY <2>1 DEF RestoreInv, SourcesOK
  <2>4. RestoreOK'
    BY <2>2, <2>3 DEF RestoreOK, Quiet, RestoreGivesBack
  <2> QED BY <1>1, <1>2, <2>1, <2>2, <2>4 DEF RestorePC
<1>4. CASE Wipe
  <2>1. restore.pc = "wipe" /\ UNCHANGED <<job, writes>> /\ board' = Empty
    BY <1>4 DEF Wipe, restoreFrame
  <2>2. /\ DOMAIN restore' = {"pc", "arch", "from", "todo"} /\ restore'.pc = "sprints" /\ restore'.from = restore.from
        /\ restore'.arch = restore.arch
    BY <1>1, <1>4 DEF Wipe
  <2>3. RestoreOK'
    BY <2>1, <2>2 DEF RestoreInv, RestoreOK, Quiet, RestoreGivesBack
  <2> QED BY <1>1, <1>2, <2>1, <2>2, <2>3 DEF RestorePC
<1>5. CASE InsertSprints
  <2>1. /\ restore.pc = "sprints" /\ UNCHANGED <<job, writes>>
        /\ board' = [board EXCEPT !.sprints = board.sprints \cup got.sprints]
    BY <1>5 DEF InsertSprints, restoreFrame
  <2>2. /\ DOMAIN restore' = {"pc", "arch", "from", "todo"} /\ restore'.pc = "tasks" /\ restore'.from = restore.from
        /\ restore'.arch = restore.arch /\ restore'.todo = got.tasks
    BY <1>1, <1>5 DEF InsertSprints
  <2>3. ASSUME Quiet PROVE Faithful(restore.arch) /\ PutBackSoFar(was)'
    <3>1. Faithful(restore.arch) /\ board = Empty
      BY <2>1, <2>3 DEF RestoreInv, RestoreOK
    <3>2. board'.sprints = was.sprints /\ board'.tasks = {} /\ board'.runs = {} /\ DOMAIN board' = Tables
      BY <2>1, <3>1 DEF Faithful, Empty, Tables
    <3>3. restore'.todo = was.tasks
      BY <2>2, <3>1 DEF Faithful
    <3> QED BY <2>2, <3>1, <3>2, <3>3 DEF PutBackSoFar
  <2>4. RestoreOK'
    BY <2>1, <2>2, <2>3 DEF RestoreOK, Quiet, RestoreGivesBack
  <2> QED BY <1>1, <1>2, <2>1, <2>2, <2>4 DEF RestorePC
<1>6. ASSUME NEW t \in restore.todo, InsertTask(t) PROVE RestoreInv'
  <2>1. /\ restore.pc = "tasks" /\ UNCHANGED <<job, writes>> /\ \A u \in restore.todo : t.id <= u.id
        /\ board' = [board EXCEPT !.tasks = IF Accepted(board.tasks, t) THEN board.tasks \cup {t} ELSE board.tasks]
    BY <1>6 DEF InsertTask, restoreFrame
  <2>2. /\ DOMAIN restore' = {"pc", "arch", "from", "todo"} /\ restore'.pc = "tasks" /\ restore'.from = restore.from
        /\ restore'.arch = restore.arch /\ restore'.todo = restore.todo \ {t}
    BY <1>1, <1>6 DEF InsertTask
  <2>3. ASSUME Quiet PROVE Faithful(restore.arch) /\ PutBackSoFar(was)'
    <3>1. Faithful(restore.arch) /\ PutBackSoFar(was)
      BY <2>1, <2>3 DEF RestoreInv, RestoreOK
    <3>2. was.tasks \subseteq TaskRow /\ (\A x, y \in was.tasks : x.id = y.id => x = y) /\ t.sprint \in was.sprints
      BY <3>1 DEF Faithful, SoundBoard, PutBackSoFar
    <3>3. Accepted(board.tasks, t) <=> t \in Restorable(was.tasks)
      <4> DEFINE T == was.tasks
      <4>1. /\ restore.todo \in SUBSET T /\ (\A d \in T \ restore.todo, u \in restore.todo : d.id < u.id)
            /\ board.tasks = (T \ restore.todo) \cap Restorable(T) /\ t.sprint \in board.sprints
        BY <3>1, <3>2 DEF PutBackSoFar
      <4>2. T \subseteq TaskRow /\ \A x, y \in T : x.id = y.id => x = y
        BY <3>2
      <4> HIDE DEF T
      <4>3. t.id \notin RowIds(board.tasks) /\ ((t.par = 0 \/ t.par \in RowIds(board.tasks)) <=> t \in Restorable(T))
        BY <2>1, <4>1, <4>2, NextRow
      <4>4. Accepted(board.tasks, t) <=> t \in Restorable(T)
        BY <4>1, <4>3 DEF Accepted
      <4> QED BY <4>4 DEF T
    <3>4. /\ board'.sprints = board.sprints /\ board'.runs = board.runs /\ DOMAIN board' = Tables
          /\ board'.tasks = IF Accepted(board.tasks, t) THEN board.tasks \cup {t} ELSE board.tasks
      BY <2>1, <3>1 DEF PutBackSoFar, Tables
    <3>5. t \in was.tasks
      BY <3>1 DEF PutBackSoFar
    <3>6. board'.tasks = (was.tasks \ restore'.todo) \cap Restorable(was.tasks)
      <4>1. board.tasks = (was.tasks \ restore.todo) \cap Restorable(was.tasks)
        BY <3>1 DEF PutBackSoFar
      <4> QED BY <2>2, <3>3, <3>4, <3>5, <4>1
    <3>7. \A d \in was.tasks \ restore'.todo, u \in restore'.todo : d.id < u.id
      <4>1. \A x \in was.tasks : x.id \in Nat
        BY <3>2 DEF TaskRow
      <4>2. ASSUME NEW u \in restore'.todo PROVE t.id < u.id
        <5>1. u \in was.tasks /\ u # t /\ u \in restore.todo
          BY <2>2, <3>1 DEF PutBackSoFar
        <5>2. t.id # u.id /\ t.id <= u.id
          BY <2>1, <3>2, <3>5, <5>1
        <5> QED BY <3>5, <4>1, <5>1, <5>2
      <4>3. \A d \in was.tasks \ restore.todo, u \in restore.todo : d.id < u.id
        BY <3>1 DEF PutBackSoFar
      <4> QED BY <2>2, <4>2, <4>3
    <3>8. restore'.todo \subseteq was.tasks /\ restore'.arch.was = was
      BY <2>2, <3>1 DEF PutBackSoFar
    <3> QED BY <3>1, <3>4, <3>6, <3>7, <3>8 DEF PutBackSoFar
  <2>4. RestoreOK'
    BY <2>1, <2>2, <2>3 DEF RestoreOK, Quiet, RestoreGivesBack
  <2> QED BY <1>1, <1>2, <2>1, <2>2, <2>4 DEF RestorePC
<1>7. CASE InsertRuns
  <2> DEFINE in == {x \in got.runs : x.task \in RowIds(board.tasks) /\ x.id \notin RowIds(board.runs)}
  <2>1. /\ restore.pc = "tasks" /\ restore.todo = {} /\ UNCHANGED <<job, writes>>
        /\ board' = [board EXCEPT !.runs = board.runs \cup {Normalized(r) : r \in in}]
    BY <1>7 DEF InsertRuns, restoreFrame
  <2>2. /\ DOMAIN restore' = {"pc", "arch", "from", "todo"} /\ restore'.pc = "done" /\ restore'.from = restore.from
        /\ restore'.arch = restore.arch
    BY <1>1, <1>7 DEF InsertRuns
  <2>3. ASSUME Quiet PROVE Faithful(restore.arch) /\ RestoreGivesBack'
    <3>1. Faithful(restore.arch) /\ PutBackSoFar(was)
      BY <2>1, <2>3 DEF RestoreInv, RestoreOK
    <3>2. board.tasks = Restorable(was.tasks) /\ board.tasks \subseteq was.tasks
      BY <2>1, <3>1, RestorableRooted DEF PutBackSoFar
    <3>3. /\ board'.sprints = was.sprints /\ board'.tasks = board.tasks
          /\ board'.runs = {Normalized(r) : r \in in}
      BY <2>1, <3>1 DEF PutBackSoFar, Tables
    <3>4. ASSUME NEW r \in was.runs, r.task \in RowIds(board.tasks)
          PROVE  \E x \in board'.runs : x.id = r.id /\ x.st = (IF r.st = "running" THEN "interrupted" ELSE r.st)
      <4>1. r \in in
        <5>1. r.task \in RowIds(was.tasks)
          BY <3>2, <3>4 DEF RowIds
        <5>2. board.runs = {}
          BY <3>1 DEF PutBackSoFar
        <5> QED BY <3>1, <3>4, <5>1, <5>2 DEF Faithful, RowIds
      <4>2. DOMAIN r = {"id", "task", "st"}
        BY <3>1 DEF Faithful, SoundBoard
      <4>3. Normalized(r).id = r.id /\ Normalized(r).st = (IF r.st = "running" THEN "interrupted" ELSE r.st)
        BY <4>2 DEF Normalized
      <4> HIDE DEF in
      <4> QED BY <3>3, <4>1, <4>3
    <3>5. restore'.arch.was = was
      BY <2>2
    <3> QED BY <3>1, <3>2, <3>3, <3>4, <3>5 DEF RestoreGivesBack
  <2>4. RestoreOK'
    BY <2>1, <2>2, <2>3 DEF RestoreOK, Quiet
  <2> QED BY <1>1, <1>2, <2>1, <2>2, <2>4 DEF RestorePC
<1> QED BY <1>3, <1>4, <1>5, <1>6, <1>7

LEMMA RestoreStep == RestoreInv /\ [BackupNext]_backupVars => RestoreInv'
<1> SUFFICES ASSUME RestoreInv, [BackupNext]_backupVars PROVE RestoreInv'
  OBVIOUS
<1>1. CASE Tick \/ UNCHANGED backupVars
  <2>1. UNCHANGED <<board, writes, job, store, restore>>
    BY <1>1 DEF Tick, backupVars
  <2> QED BY <2>1 DEF RestoreInv, TimesOK, JobTimed, SourcesOK, Underway, RestoreOK, Quiet, PutBackSoFar, RestoreGivesBack
<1> QED BY <1>1, WorkKeeps, BackupKeeps, RestoreKeeps DEF BackupNext

(* A restore of a backup that nobody worked beside gives the board back as    *)
(* it was when the backup began, to the last task whose parents were made    *)
(* before it; rows go in one by one, and none that could be put back is      *)
(* refused (RestoreBackup, restoreEntities).                               *)
THEOREM RestoreGivesBackAlways == BackupSpec => []RestoreGivesBack
<1>1. RestoreInv => RestoreGivesBack
  BY DEF RestoreInv, RestoreOK, RestoreGivesBack
<1> QED BY <1>1, RestoreStart, RestoreStep, PTL DEF BackupSpec
----------------------------------------------------------------------------
(* The self-update.                                                        *)

Phase == {"none", "staged", "migrating", "starting", "promoted", "failed", "needs_manual_recovery"}
DeploymentID == {<<>>} \cup (Build \X {"deploy", "restart"})
Path == Build \cup {NoBuild}
Entry == [id : DeploymentID, path : Path]
Journal == [phase : Phase, target : Path, id : DeploymentID, cand : Path, prev : Path,
            snap : BOOLEAN, schema : BOOLEAN, succ : Seq(Entry)]
Revision == [v : Nat, h : {"baseline", "public", "shadow"}]
Database == [revs : Seq(Revision), data : Int]
Booting == {"boot", "mark", "plan", "down", "up", "starting", "listen", "failed"}
ChildPC == Booting \cup {"none", "serving", "exit0", "exit1", "exit75", "exit76"}
Child == [pc : ChildPC, build : Build, cand : BOOLEAN, pre : BOOLEAN, todo : Seq(Nat)]
Updater == [dep : {"no", "fetching", "saved", "armed"}, target : Path, pending : Path,
            restarts : {"no", "armed", "saved"}]

FilesTyped == journal \in Journal /\ files \subseteq Build /\ manifest \in Path
DataTyped ==
    /\ db \in Database /\ shadow \in Database /\ snap \in Database
    /\ pg \in BOOLEAN /\ undone \in BOOLEAN /\ acked \in Int
ProcessesTyped ==
    /\ sup \in [pc : {"down", "choose", "wait"}, cur : Build, cand : BOOLEAN]
    /\ child \in Child
    /\ upd \in Updater /\ (upd.dep # "no" => upd.target \in Build)
ReleaseTypeOK == FilesTyped /\ DataTyped /\ ProcessesTyped

LEMMA BuildsAreNumbers == Build \subseteq Nat /\ 0 \in Build /\ NoBuild \notin Build /\ NoBuild = -1
BY ReleaseAssumption DEF NoBuild

LEMMA EntriesSeq == ASSUME NEW succ \in Seq(Entry), NEW id \in DeploymentID, NEW path \in Path
                    PROVE  Appended(succ, id, path) \in Seq(Entry)
<1> DEFINE at == {i \in DOMAIN succ : succ[i].id = id}
           e == [id |-> id, path |-> path]
           all == IF at = {} THEN Append(succ, e) ELSE [succ EXCEPT ![CHOOSE i \in at : TRUE] = e]
<1>1. e \in Entry
  BY DEF Entry
<1>2. Appended(succ, id, path) =
        IF Len(all) > Retention THEN SubSeq(all, Len(all) + 1 - Retention, Len(all)) ELSE all
  BY DEF Appended
<1>3. all \in Seq(Entry)
  <2> HIDE DEF e
  <2>1. Append(succ, e) \in Seq(Entry)
    BY <1>1
  <2>2. ASSUME NEW i PROVE [succ EXCEPT ![i] = e] \in Seq(Entry)
    <3>1. succ \in [1..Len(succ) -> Entry] /\ Len(succ) \in Nat
      OBVIOUS
    <3>2. [succ EXCEPT ![i] = e] \in [1..Len(succ) -> Entry]
      BY <1>1, <3>1
    <3> QED BY <3>1, <3>2
  <2> QED BY <2>1, <2>2
<1>4. Retention \in Nat \ {0}
  BY ReleaseAssumption
<1> HIDE DEF all
<1>5. Len(all) > Retention => SubSeq(all, Len(all) + 1 - Retention, Len(all)) \in Seq(Entry)
  BY <1>3, <1>4
<1> QED BY <1>2, <1>3, <1>5

----------------------------------------------------------------------------
(* Where a build stands in the revisions.                                  *)

LEMMA BaselineBounds ==
    ASSUME NEW revs \in Seq(Revision), NEW b \in Build
    PROVE  /\ Baseline(revs, b).revs \in 0..Len(revs) /\ Baseline(revs, b).own \in 0..Len(Mig[b])
           /\ Mig[b] \in Seq(Nat) /\ Len(Mig[b]) \in Nat /\ Len(revs) \in Nat
<1>1. Mig[b] \in Seq(Nat) /\ Len(Mig[b]) \in Nat /\ Len(revs) \in Nat /\ DOMAIN Mig[b] = 1..Len(Mig[b])
  BY ReleaseAssumption
<1>2. CASE revs # <<>> /\ revs[1].h = "baseline" /\ \E i \in DOMAIN Mig[b] : Mig[b][i] = revs[1].v
  <2> DEFINE at == CHOOSE i \in DOMAIN Mig[b] : Mig[b][i] = revs[1].v
  <2>1. at \in DOMAIN Mig[b]
    BY <1>2
  <2>2. Baseline(revs, b) = [revs |-> 1, own |-> at]
    BY <1>2 DEF Baseline
  <2>3. Len(revs) # 0
    BY <1>2
  <2> QED BY <1>1, <2>1, <2>2, <2>3
<1>3. CASE ~(revs # <<>> /\ revs[1].h = "baseline" /\ \E i \in DOMAIN Mig[b] : Mig[b][i] = revs[1].v)
  <2>1. Baseline(revs, b) = [revs |-> 0, own |-> 0]
    BY <1>3 DEF Baseline
  <2> QED BY <1>1, <2>1
<1> QED BY <1>2, <1>3

(* The first revision decides on the baseline.                             *)
LEMMA SameBaseline ==
    ASSUME NEW revs, NEW other, NEW b, revs # <<>>, other # <<>>, revs[1] = other[1]
    PROVE  Baseline(other, b) = Baseline(revs, b)
BY DEF Baseline

LEMMA ShorterPrefix ==
    ASSUME NEW revs \in Seq(Revision), NEW b \in Build, NEW n \in Nat, NEW m \in Nat, m <= n,
           SameVersion(revs, b, n)
    PROVE  SameVersion(revs, b, m)
<1>1. /\ Baseline(revs, b).revs \in Int /\ Baseline(revs, b).own \in Int
      /\ Len(revs) \in Int /\ Len(Mig[b]) \in Int
  BY BaselineBounds
<1> QED BY <1>1 DEF SameVersion

LEMMA CommonIs ==
    ASSUME NEW revs \in Seq(Revision), NEW b \in Build, NEW n \in Nat,
           SameVersion(revs, b, n), ~SameVersion(revs, b, n + 1)
    PROVE  Common(revs, b) = n
<1>1. n \in 0..Len(revs)
  <2>1. Baseline(revs, b).revs \in Nat /\ Len(revs) \in Nat
    BY BaselineBounds
  <2>2. Baseline(revs, b).revs + n <= Len(revs)
    BY DEF SameVersion
  <2> QED BY <2>1, <2>2
<1>2. ASSUME NEW m \in 0..Len(revs), SameVersion(revs, b, m), ~SameVersion(revs, b, m + 1)
      PROVE  m = n
  <2>1. m \in Nat /\ m + 1 \in Nat /\ n + 1 \in Nat /\ (m < n => m + 1 <= n) /\ (n < m => n + 1 <= m)
    BY BaselineBounds
  <2>2. ~(m + 1 <= n)
    BY <1>2, <2>1, ShorterPrefix
  <2>3. ~(n + 1 <= m)
    BY <1>2, <2>1, ShorterPrefix
  <2> QED BY <2>1, <2>2, <2>3
<1> QED BY <1>1, <1>2 DEF Common

LEMMA CommonExists ==
    ASSUME NEW revs \in Seq(Revision), NEW b \in Build
    PROVE  /\ Common(revs, b) \in Nat
           /\ SameVersion(revs, b, Common(revs, b)) /\ ~SameVersion(revs, b, Common(revs, b) + 1)
<1> DEFINE N == {n \in Nat : ~SameVersion(revs, b, n + 1)}
<1>1. /\ Baseline(revs, b).revs \in 0..Len(revs) /\ Baseline(revs, b).own \in 0..Len(Mig[b])
      /\ Len(revs) \in Nat /\ Len(Mig[b]) \in Nat
  BY BaselineBounds
<1>2. ~SameVersion(revs, b, Len(revs) + 1)
  BY <1>1 DEF SameVersion
<1>3. Len(revs) \in N /\ N \in SUBSET Nat /\ N # {}
  BY <1>1, <1>2
<1>4. PICK n \in N : \A m \in N : n <= m
  <2> HIDE DEF N
  <2> QED BY <1>3, LeastNat
<1>5. SameVersion(revs, b, n)
  <2>1. CASE n = 0
    BY <1>1, <2>1 DEF SameVersion
  <2>2. CASE n # 0
    <3>1. n - 1 \in Nat /\ n - 1 + 1 = n /\ ~(n <= n - 1)
      BY <2>2
    <3>2. n - 1 \notin N
      BY <1>4, <3>1
    <3> QED BY <3>1, <3>2
  <2> QED BY <2>1, <2>2
<1>6. Common(revs, b) = n
  BY <1>5, CommonIs
<1> QED BY <1>5, <1>6

(* How many revisions are the build's own: its prefix.                     *)
OwnRevs(revs, b) == Baseline(revs, b).revs + Common(revs, b)

LEMMA BeyondPrefix ==
    ASSUME NEW revs \in Seq(Revision), NEW b \in Build
    PROVE  /\ OwnRevs(revs, b) \in 0..Len(revs) /\ Len(revs) \in Nat
           /\ Beyond(revs, b) \in Seq(Nat) /\ Len(Beyond(revs, b)) = Len(revs) - OwnRevs(revs, b)
           /\ Beyond(revs, b) = [i \in 1..(Len(revs) - OwnRevs(revs, b)) |-> revs[Len(revs) + 1 - i].v]
<1>1. /\ Baseline(revs, b).revs \in Int /\ Len(revs) \in Nat /\ Common(revs, b) \in Nat
      /\ Baseline(revs, b).revs \in 0..Len(revs)
  BY BaselineBounds, CommonExists
<1>2. Baseline(revs, b).revs + Common(revs, b) <= Len(revs)
  BY CommonExists DEF SameVersion
<1> DEFINE k == OwnRevs(revs, b)
           n == Len(revs) - k
<1>3. k \in 0..Len(revs)
  BY <1>1, <1>2 DEF OwnRevs
<1>4. n \in Nat
  BY <1>1, <1>3
<1>5. Beyond(revs, b) = [i \in 1..n |-> revs[Len(revs) + 1 - i].v]
  BY DEF Beyond, OwnRevs
<1> HIDE DEF k
<1>6. ASSUME NEW i \in 1..n PROVE revs[Len(revs) + 1 - i].v \in Nat
  <2>1. Len(revs) + 1 - i \in 1..Len(revs)
    BY <1>1, <1>3, <1>6
  <2>2. revs[Len(revs) + 1 - i] \in Revision
    BY <2>1
  <2> QED BY <2>2 DEF Revision
<1> HIDE DEF n
<1>7. Beyond(revs, b) \in [1..n -> Nat]
  BY <1>5, <1>6
<1>8. Beyond(revs, b) \in Seq(Nat) /\ Len(Beyond(revs, b)) = n
  BY <1>4, <1>7
<1> QED BY <1>1, <1>3, <1>5, <1>8 DEF n, k

(* ApplyDown takes the last revision off: the prefix stays, and what is      *)
(* beyond it loses its first.                                              *)
LEMMA DownRemoves ==
    ASSUME NEW revs \in Seq(Revision), NEW b \in Build, Beyond(revs, b) # <<>>
    PROVE  /\ SubSeq(revs, 1, Len(revs) - 1) \in Seq(Revision)
           /\ Beyond(SubSeq(revs, 1, Len(revs) - 1), b) = Tail(Beyond(revs, b))
<1> DEFINE n == Len(revs)
           rest0 == SubSeq(revs, 1, n - 1)
           own == Common(revs, b)
           base == Baseline(revs, b)
<1>1. /\ OwnRevs(revs, b) \in 0..n /\ n \in Nat
      /\ Beyond(revs, b) \in Seq(Nat) /\ Len(Beyond(revs, b)) = n - OwnRevs(revs, b)
      /\ Beyond(revs, b) = [i \in 1..(n - OwnRevs(revs, b)) |-> revs[n + 1 - i].v]
  BY BeyondPrefix
<1>2. Len(Beyond(revs, b)) # 0
  BY <1>1
<1>3. OwnRevs(revs, b) <= n - 1 /\ n >= 1
  BY <1>1, <1>2
<1>4. rest0 \in Seq(Revision) /\ Len(rest0) = n - 1 /\ \A i \in 1..(n - 1) : rest0[i] = revs[i]
  <2>1. n - 1 \in 0..Len(revs) /\ \A i \in 1..(n - 1) : i \in 1..Len(revs)
    BY <1>1, <1>3
  <2>2. rest0 = [i \in 1..(n - 1) |-> revs[i]]
    BY <2>1
  <2> DEFINE m == n - 1
  <2>3. m \in Nat
    BY <1>1, <1>3
  <2>4. \A i \in 1..m : revs[i] \in Revision
    BY <2>1
  <2> HIDE DEF m
  <2>5. rest0 = [i \in 1..m |-> revs[i]]
    BY <2>2 DEF m
  <2> HIDE DEF rest0
  <2>6. rest0 \in [1..m -> Revision] /\ \A i \in 1..m : rest0[i] = revs[i]
    BY <2>4, <2>5
  <2>7. rest0 \in Seq(Revision) /\ Len(rest0) = m
    BY <2>3, <2>6
  <2> QED BY <2>6, <2>7 DEF m
<1>5. /\ base.revs \in Nat /\ base.own \in Nat /\ own \in Nat
      /\ SameVersion(revs, b, own) /\ ~SameVersion(revs, b, own + 1)
      /\ Len(Mig[b]) \in Nat /\ Len(revs) \in Nat
  BY BaselineBounds, CommonExists
<1>6. OwnRevs(revs, b) = base.revs + own
  BY DEF OwnRevs
<1> HIDE DEF rest0
<1>7. Baseline(rest0, b) = base
  <2>1. CASE n > 1
    <3>1. revs # <<>> /\ rest0 # <<>> /\ revs[1] = rest0[1]
      BY <1>4, <2>1
    <3> QED BY <3>1, SameBaseline
  <2>2. CASE n = 1
    <3>1. base.revs = 0
      BY <1>3, <1>5, <1>6, <2>2
    <3>2. base = [revs |-> 0, own |-> 0]
      BY <3>1 DEF Baseline
    <3>3. rest0 = <<>>
      BY <1>4, <2>2
    <3> QED BY <3>2, <3>3 DEF Baseline
  <2>3. n > 1 \/ n = 1
    <3>1. n \in Nat
      BY <1>1
    <3> HIDE DEF n
    <3> QED BY <1>3, <3>1
  <2> QED BY <2>1, <2>2, <2>3
<1>8. SameVersion(rest0, b, own)
  <2>1. /\ base.revs + own <= Len(revs) /\ base.own + own <= Len(Mig[b])
        /\ \A i \in 1..own : revs[base.revs + i].v = Mig[b][base.own + i]
    BY <1>5 DEF SameVersion
  <2> HIDE DEF base, own
  <2>2. base.revs + own <= Len(rest0)
    BY <1>3, <1>4, <1>6
  <2>3. base.revs \in Nat /\ own \in Nat /\ n \in Nat /\ base.revs + own <= n - 1
    BY <1>1, <1>3, <1>5, <1>6
  <2>4. \A i \in 1..own : base.revs + i \in 1..(n - 1)
    BY <2>3
  <2>5. \A i \in 1..own : rest0[base.revs + i] = revs[base.revs + i]
    BY <1>4, <2>4
  <2> QED BY <1>7, <2>1, <2>2, <2>5 DEF SameVersion, base
<1>9. ~SameVersion(rest0, b, own + 1)
  <2> SUFFICES ASSUME SameVersion(rest0, b, own + 1) PROVE SameVersion(revs, b, own + 1)
    BY <1>5
  <2>1. /\ base.revs + (own + 1) <= Len(rest0) /\ base.own + (own + 1) <= Len(Mig[b])
        /\ \A i \in 1..(own + 1) : rest0[base.revs + i].v = Mig[b][base.own + i]
    BY <1>7 DEF SameVersion
  <2> HIDE DEF base, own
  <2>2. base.revs + (own + 1) <= Len(revs)
    BY <1>4, <1>5, <2>1
  <2>3. base.revs \in Nat /\ own \in Nat /\ n \in Nat /\ base.revs + (own + 1) <= n - 1
    BY <1>1, <1>4, <1>5, <2>1
  <2>4. \A i \in 1..(own + 1) : base.revs + i \in 1..(n - 1)
    BY <2>3
  <2>5. \A i \in 1..(own + 1) : rest0[base.revs + i] = revs[base.revs + i]
    BY <1>4, <2>4
  <2>6. \A i \in 1..(own + 1) : revs[base.revs + i].v = Mig[b][base.own + i]
    BY <2>1, <2>5
  <2> QED BY <2>1, <2>2, <2>6 DEF SameVersion, base
<1>10. Common(rest0, b) = own
  <2> HIDE DEF own
  <2> QED BY <1>4, <1>5, <1>8, <1>9, CommonIs
<1>11. OwnRevs(rest0, b) = OwnRevs(revs, b)
  BY <1>7, <1>10 DEF OwnRevs
<1> DEFINE k == OwnRevs(revs, b)
<1>12. Beyond(rest0, b) = [i \in 1..(n - 1 - k) |-> rest0[n - i].v]
  <2>1. Beyond(rest0, b) = [i \in 1..(Len(rest0) - OwnRevs(rest0, b)) |-> rest0[Len(rest0) + 1 - i].v]
    BY <1>4, BeyondPrefix
  <2>2. Beyond(rest0, b) = [i \in 1..(n - 1 - k) |-> rest0[n - 1 + 1 - i].v]
    BY <1>4, <1>11, <2>1
  <2> HIDE DEF k, n
  <2>3. \A i \in 1..(n - 1 - k) : n - 1 + 1 - i = n - i
    BY <1>1
  <2> QED BY <2>2, <2>3
<1>13. /\ Tail(Beyond(revs, b)) \in Seq(Nat) /\ Len(Tail(Beyond(revs, b))) = n - k - 1
       /\ \A i \in 1..(n - k - 1) : Tail(Beyond(revs, b))[i] = Beyond(revs, b)[i + 1]
  BY <1>1, <1>2
<1>14. \A i \in 1..(n - k - 1) : Tail(Beyond(revs, b))[i] = rest0[n - i].v
  <2> TAKE i \in 1..(n - k - 1)
  <2> HIDE DEF k, n
  <2>1. i + 1 \in 1..(n - k) /\ n - i \in 1..(n - 1) /\ n + 1 - (i + 1) = n - i
    BY <1>1 DEF k
  <2>2. Beyond(revs, b)[i + 1] = revs[n - i].v
    BY <1>1, <2>1 DEF k
  <2> QED BY <1>4, <1>13, <2>1, <2>2
<1>15. Tail(Beyond(revs, b)) = Beyond(rest0, b)
  <2>1. Beyond(rest0, b) \in Seq(Nat) /\ Len(Beyond(rest0, b)) = n - 1 - k
    BY <1>4, <1>11, BeyondPrefix
  <2>2. \A i \in 1..(n - 1 - k) : Beyond(rest0, b)[i] = rest0[n - i].v
    BY <1>12
  <2> DEFINE a == Tail(Beyond(revs, b))
             c == Beyond(rest0, b)
  <2>3. n - 1 - k = n - k - 1 /\ n - k - 1 \in Nat
    BY <1>1, <1>3
  <2>4. \A i \in 1..(n - k - 1) : a[i] = c[i]
    BY <1>14, <2>2, <2>3
  <2>5. a \in Seq(Nat) /\ c \in Seq(Nat) /\ Len(a) = n - k - 1 /\ Len(c) = n - k - 1
    BY <1>13, <2>1, <2>3
  <2> HIDE DEF a, c, k, n
  <2>6. a = c
    BY <2>3, <2>4, <2>5
  <2> QED BY <2>6 DEF a, c
<1> QED BY <1>4, <1>15 DEF rest0

(* executeFileTransaction appends the next of the build's migrations: what  *)
(* is beyond the prefix stays empty.                                       *)
LEMMA UpAppends ==
    ASSUME NEW revs \in Seq(Revision), NEW b \in Build, NEW h \in {"public", "shadow"},
           Beyond(revs, b) = <<>>, Pending(revs, b)
    PROVE  /\ Append(revs, Rev(NextUp(revs, b), h)) \in Seq(Revision)
           /\ Beyond(Append(revs, Rev(NextUp(revs, b), h)), b) = <<>>
<1> DEFINE n == Len(revs)
           next == Rev(NextUp(revs, b), h)
           more == Append(revs, next)
           own == Common(revs, b)
           base == Baseline(revs, b)
<1>1. OwnRevs(revs, b) \in 0..n /\ n \in Nat /\ Len(Beyond(revs, b)) = n - OwnRevs(revs, b)
  BY BeyondPrefix
<1>2. /\ base.revs \in Nat /\ base.own \in Nat /\ own \in Nat
      /\ SameVersion(revs, b, own) /\ ~SameVersion(revs, b, own + 1)
      /\ Mig[b] \in Seq(Nat) /\ Len(Mig[b]) \in Nat
  BY BaselineBounds, CommonExists
<1> DEFINE bo == base.own
           br == base.revs
<1> HIDE DEF bo, br
<1>0. bo \in Nat /\ br \in Nat /\ own \in Nat /\ bo = base.own /\ br = base.revs
  BY <1>2 DEF bo, br
<1>3. OwnRevs(revs, b) = n /\ base.revs + own = n
  <2>1. Len(Beyond(revs, b)) = 0
    OBVIOUS
  <2> QED BY <1>1, <2>1 DEF OwnRevs
<1>4. base.own + own < Len(Mig[b])
  BY DEF Pending
<1>5. next = [v |-> Mig[b][base.own + own + 1], h |-> h]
  BY DEF Rev, NextUp
<1> HIDE DEF next
<1>6. next \in Revision /\ next.v = Mig[b][base.own + own + 1] /\ next.h = h
  <2> HIDE DEF base, own
  <2>1. base.own + own + 1 \in 1..Len(Mig[b])
    BY <1>2, <1>4
  <2>2. Mig[b][base.own + own + 1] \in Nat
    <3> DEFINE k == base.own + own + 1
    <3> HIDE DEF k
    <3>1. \A i \in 1..Len(Mig[b]) : Mig[b][i] \in Nat
      BY <1>2
    <3>2. k \in 1..Len(Mig[b])
      BY <2>1 DEF k
    <3>3. Mig[b][k] \in Nat
      BY <3>1, <3>2
    <3> QED BY <3>3 DEF k
  <2> QED BY <1>5, <2>2 DEF Revision
<1>7. /\ more \in Seq(Revision) /\ Len(more) = n + 1 /\ more[n + 1] = next
      /\ \A i \in 1..n : more[i] = revs[i]
  BY <1>1, <1>6
<1> HIDE DEF more
<1>8. Baseline(more, b) = base
  <2>1. CASE n > 0
    <3>1. revs # <<>> /\ more # <<>> /\ revs[1] = more[1]
      BY <1>7, <2>1
    <3> QED BY <3>1, SameBaseline
  <2>2. CASE n = 0
    <3>1. revs = <<>>
      BY <2>2
    <3>2. base = [revs |-> 0, own |-> 0]
      BY <3>1 DEF Baseline
    <3>3. more[1].h = h /\ h # "baseline"
      BY <1>6, <1>7, <2>2
    <3> QED BY <3>2, <3>3 DEF Baseline
  <2> QED BY <1>1, <2>1, <2>2
<1>9. SameVersion(more, b, own + 1)
  <2>1. \A i \in 1..own : revs[base.revs + i].v = Mig[b][base.own + i]
    BY <1>2 DEF SameVersion
  <2> HIDE DEF base, own
  <2>2. \A i \in 1..own : more[base.revs + i] = revs[base.revs + i]
    BY <1>1, <1>2, <1>3, <1>7
  <2>3. more[base.revs + (own + 1)].v = Mig[b][base.own + (own + 1)]
    <3>1. br + own = n /\ br \in Nat /\ bo \in Nat /\ own \in Nat /\ n \in Nat
      BY <1>0, <1>1, <1>3
    <3> HIDE DEF n
    <3>2. br + (own + 1) = n + 1 /\ bo + (own + 1) = bo + own + 1
      BY <3>1
    <3>3. more[br + (own + 1)].v = Mig[b][bo + (own + 1)]
      BY <1>0, <1>6, <1>7, <3>2
    <3> QED BY <1>0, <3>3
  <2>4. \A i \in 1..(own + 1) : more[base.revs + i].v = Mig[b][base.own + i]
    <3> TAKE i \in 1..(own + 1)
    <3>1. CASE i = own + 1
      BY <2>3, <3>1
    <3>2. CASE i # own + 1
      <4>1. i \in 1..own
        BY <1>2, <3>2
      <4> QED BY <2>1, <2>2, <4>1
    <3> QED BY <3>1, <3>2
  <2>5. base.revs + (own + 1) <= Len(more) /\ base.own + (own + 1) <= Len(Mig[b])
    <3>1. PICK m, k : m = Len(more) /\ k = Len(Mig[b])
      OBVIOUS
    <3>2. br + own = n /\ bo + own < k /\ m = n + 1 /\ k \in Nat /\ n \in Nat
      BY <1>0, <1>1, <1>2, <1>3, <1>4, <1>7, <3>1
    <3> HIDE DEF n
    <3>3. br + (own + 1) <= m /\ bo + (own + 1) <= k
      BY <1>0, <3>2
    <3> QED BY <1>0, <3>1, <3>3
  <2> QED BY <1>8, <2>4, <2>5 DEF SameVersion
<1>10. ~SameVersion(more, b, own + 1 + 1)
  <2>1. SameVersion(more, b, own + 1 + 1) => base.revs + (own + 1 + 1) <= Len(more)
    BY <1>8 DEF SameVersion
  <2>2. Len(more) = n + 1 /\ br + own = n /\ n \in Nat
    BY <1>0, <1>1, <1>3, <1>7
  <2>3. SameVersion(more, b, own + 1 + 1) => br + (own + 1 + 1) <= n + 1
    BY <1>0, <2>1, <2>2
  <2> HIDE DEF base, own, n
  <2> QED BY <1>0, <2>2, <2>3
<1>11. Common(more, b) = own + 1
  <2> HIDE DEF own
  <2>1. own + 1 \in Nat
    BY <1>2
  <2> QED BY <1>7, <1>9, <1>10, <2>1, CommonIs
<1>12. OwnRevs(more, b) = n + 1
  <2>1. OwnRevs(more, b) = base.revs + (own + 1)
    BY <1>8, <1>11 DEF OwnRevs
  <2> HIDE DEF base, own
  <2> QED BY <1>0, <1>1, <1>3, <2>1
<1>13. Beyond(more, b) \in Seq(Nat) /\ Len(Beyond(more, b)) = 0
  BY <1>1, <1>7, <1>12, BeyondPrefix
<1>14. Beyond(more, b) = <<>>
  BY <1>13
<1> QED BY <1>7, <1>14 DEF more, next

----------------------------------------------------------------------------
(* The types.                                                              *)

LEMMA TypesStart == ReleaseInit => ReleaseTypeOK
<1> SUFFICES ASSUME ReleaseInit PROVE ReleaseTypeOK
  OBVIOUS
<1>1. <<>> \in Seq(Entry) /\ <<>> \in Seq(Revision) /\ <<>> \in Seq(Nat)
  OBVIOUS
<1>2. FilesTyped
  <2>1. NoJournal \in Journal
    BY <1>1, BuildsAreNumbers DEF NoJournal, Journal, Phase, Path, DeploymentID
  <2> QED BY <2>1 DEF ReleaseInit, FilesTyped, Path
<1>3. NoDb \in Database
  BY <1>1 DEF NoDb, Database
<1>4. db \in Database
  <2>1. PICK l \in Histories :
          db = [revs |-> IF l THEN <<Rev(Mig[0][Len(Mig[0])], "baseline")>> ELSE <<>>, data |-> 0]
    BY DEF ReleaseInit
  <2>2. CASE l
    <3>1. Mig[0] \in Seq(Nat) /\ Mig[0] # <<>>
      BY <2>2, ReleaseAssumption
    <3>2. Mig[0][Len(Mig[0])] \in Nat
      BY <3>1
    <3>3. Rev(Mig[0][Len(Mig[0])], "baseline") \in Revision
      BY <3>2 DEF Rev, Revision
    <3>4. <<Rev(Mig[0][Len(Mig[0])], "baseline")>> \in Seq(Revision)
      BY <3>3
    <3> QED BY <2>1, <2>2, <3>4 DEF Database
  <2>3. CASE ~l
    BY <1>1, <2>1, <2>3 DEF Database
  <2> QED BY <2>2, <2>3
<1>5. DataTyped
  <2>1. snap = NoDb /\ shadow = NoDb /\ undone = FALSE /\ acked = 0 /\ pg \in Engines
    BY DEF ReleaseInit
  <2>2. pg \in BOOLEAN
    BY <2>1, ReleaseAssumption
  <2>3. undone \in BOOLEAN /\ acked \in Int
    <3>1. undone \in BOOLEAN
      BY <2>1, Zenon
    <3>2. acked \in Int
      BY <2>1
    <3> QED BY <3>1, <3>2
  <2>4. snap \in Database /\ shadow \in Database
    BY <1>3, <2>1
  <2> QED BY <1>4, <2>2, <2>3, <2>4 DEF DataTyped
<1>6. ProcessesTyped
  BY <1>1, BuildsAreNumbers
  DEF ReleaseInit, ProcessesTyped, NoChild, Child, ChildPC, FreshUpdater, Updater, Path
<1> QED BY <1>2, <1>5, <1>6 DEF ReleaseTypeOK

(* The journal as the handlers rewrite it.                                 *)
LEMMA JournalEdits ==
    ASSUME journal \in Journal
    PROVE  /\ \A phase \in Phase : [journal EXCEPT !.phase = phase] \in Journal
           /\ \A snap0, schema0 \in BOOLEAN : [journal EXCEPT !.snap = snap0, !.schema = schema0] \in Journal
           /\ [journal EXCEPT !.schema = FALSE, !.phase = "staged"] \in Journal
           /\ Appended(journal.succ, journal.id, journal.cand) \in Seq(Entry)
           /\ [journal EXCEPT !.phase = "promoted", !.succ = Appended(@, journal.id, journal.cand)]
                \in Journal
<1>1. Appended(journal.succ, journal.id, journal.cand) \in Seq(Entry)
  <2>1. journal.succ \in Seq(Entry) /\ journal.id \in DeploymentID /\ journal.cand \in Path
    BY DEF Journal
  <2> QED BY <2>1, EntriesSeq
<1> DEFINE succ == Appended(journal.succ, journal.id, journal.cand)
<1> HIDE DEF succ
<1>2. [journal EXCEPT !.phase = "promoted", !.succ = succ] \in Journal
  BY <1>1 DEF Journal, Phase, succ
<1>3. \A phase \in Phase : [journal EXCEPT !.phase = phase] \in Journal
  BY DEF Journal
<1>4. \A snap0, schema0 \in BOOLEAN : [journal EXCEPT !.snap = snap0, !.schema = schema0] \in Journal
  BY DEF Journal
<1>5. [journal EXCEPT !.schema = FALSE, !.phase = "staged"] \in Journal
  BY DEF Journal, Phase
<1> QED BY <1>1, <1>2, <1>3, <1>4, <1>5 DEF succ

Anew(b, by, prev, succ) ==
    [NoJournal EXCEPT !.phase = "staged", !.target = b, !.id = deploymentID(b, by),
                      !.cand = b, !.prev = prev, !.succ = succ]

LEMMA JournalAnew ==
    ASSUME NEW b \in Build, NEW by \in {"deploy", "restart"}, NEW prev \in Build, NEW succ \in Seq(Entry)
    PROVE  LET j == Anew(b, by, prev, succ) IN
           /\ j \in Journal
           /\ j.phase = "staged" /\ j.target = b /\ j.cand = b /\ j.prev = prev
           /\ ~j.snap /\ ~j.schema
<1>1. NoJournal \in Journal
  <2>1. <<>> \in Seq(Entry)
    OBVIOUS
  <2> QED BY <2>1, BuildsAreNumbers DEF NoJournal, Journal, Phase, Path, DeploymentID
<1>2. ~NoJournal.snap /\ ~NoJournal.schema
  BY DEF NoJournal
<1>3. deploymentID(b, by) \in DeploymentID
  BY DEF deploymentID, DeploymentID
<1> QED BY <1>1, <1>2, <1>3 DEF Journal, Phase, Path, Anew

(* What the migrations of a step leave is typed, and the other database is   *)
(* left alone.                                                             *)
LEMMA SetRevsTyped ==
    ASSUME db \in Database, shadow \in Database, NEW revs \in Seq(Revision), SetRevs(revs)
    PROVE  /\ db' \in Database /\ shadow' \in Database /\ db'.data = db.data
           /\ IF child.pre THEN db' = db /\ shadow'.revs = revs ELSE shadow' = shadow /\ db'.revs = revs
BY DEF SetRevs, Database

(* A child that only moves on.                                             *)
LEMMA GotoTyped ==
    ASSUME child \in Child, NEW pc \in ChildPC, Goto(pc)
    PROVE  /\ child' \in Child /\ child'.pc = pc /\ child'.build = child.build
           /\ child'.cand = child.cand /\ child'.pre = child.pre /\ child'.todo = child.todo
BY DEF Goto, Child

LEMMA MarkTyped ==
    ASSUME journal \in Journal, NEW phase \in Phase, Mark(phase)
    PROVE  journal' \in Journal
BY JournalEdits DEF Mark, SaveState

LEMMA MigrateTyped ==
    ASSUME ReleaseTypeOK, Plan \/ Down \/ Up \/ StartupFailure
    PROVE  ReleaseTypeOK'
<1> USE DEF ReleaseTypeOK
<1>1. /\ Own.revs \in Seq(Revision) /\ child \in Child /\ child.build \in Build
      /\ manifest \in Path /\ journal \in Journal /\ files \subseteq Build
  BY DEF Own, DataTyped, Database, ProcessesTyped, Child, FilesTyped
<1>2. Render \in {"public", "shadow"}
  BY DEF Render
<1>3. CASE Plan
  <2>1. Beyond(Own.revs, child.build) \in Seq(Nat)
    BY <1>1, BeyondPrefix
  <2>2. child' \in Child
    <3> DEFINE todo == Beyond(Own.revs, child.build)
    <3>1. todo \in Seq(Nat)
      BY <2>1
    <3>2. \/ child' = [child EXCEPT !.pc = "down", !.todo = todo]
          \/ child' = [child EXCEPT !.pc = "failed"]
      BY <1>3 DEF Plan
    <3> HIDE DEF todo
    <3> QED BY <1>1, <3>1, <3>2 DEF Child, ChildPC, Booting
  <2> QED BY <1>3, <2>2 DEF Plan, FilesTyped, DataTyped, ProcessesTyped, rest
<1>4. CASE Down
  <2>1. CASE child.todo = <<>>
    <3>1. Goto("up")
      BY <1>4, <2>1 DEF Down
    <3>2. child' \in Child
      BY <1>1, <3>1, GotoTyped DEF ChildPC, Booting
    <3> QED BY <1>4, <2>1, <3>2 DEF Down, FilesTyped, DataTyped, ProcessesTyped, rest
  <2>2. CASE child.todo # <<>>
    <3>1. Tail(child.todo) \in Seq(Nat)
      BY <1>1, <2>2 DEF Child
    <3>2. child' = [child EXCEPT !.todo = Tail(@)]
      BY <1>4, <2>2 DEF Down
    <3>3. child' \in Child
      <4> DEFINE more == Tail(child.todo)
      <4>1. child' = [child EXCEPT !.todo = more] /\ more \in Seq(Nat)
        BY <3>1, <3>2
      <4> HIDE DEF more
      <4> QED BY <1>1, <4>1 DEF Child
    <3>4. SubSeq(Own.revs, 1, Len(Own.revs) - 1) \in Seq(Revision)
      <4> DEFINE revs == Own.revs
      <4>1. revs \in Seq(Revision)
        BY <1>1
      <4> HIDE DEF revs
      <4>2. SubSeq(revs, 1, Len(revs) - 1) \in Seq(Revision)
        BY <4>1
      <4> QED BY <4>2 DEF revs
    <3>5. SetRevs(SubSeq(Own.revs, 1, Len(Own.revs) - 1))
      BY <1>4, <2>2 DEF Down
    <3>6. db' \in Database /\ shadow' \in Database
      BY <3>4, <3>5, SetRevsTyped DEF DataTyped
    <3> QED BY <1>4, <3>3, <3>6 DEF Down, FilesTyped, DataTyped, ProcessesTyped, rest
  <2> QED BY <2>1, <2>2
<1>5. CASE Up
  <2>1. CASE Pending(Own.revs, child.build)
    <3>1. Append(Own.revs, Rev(NextUp(Own.revs, child.build), Render)) \in Seq(Revision)
      <4> DEFINE revs == Own.revs
                 b == child.build
      <4>1. revs \in Seq(Revision) /\ b \in Build /\ Pending(revs, b)
        BY <1>1, <2>1
      <4> HIDE DEF revs, b
      <4>2. /\ Baseline(revs, b).own \in Nat /\ Common(revs, b) \in Nat
            /\ Mig[b] \in Seq(Nat) /\ Len(Mig[b]) \in Nat
        BY <4>1, BaselineBounds, CommonExists
      <4>3. Baseline(revs, b).own + Common(revs, b) + 1 \in 1..Len(Mig[b])
        BY <4>1, <4>2 DEF Pending
      <4>4. NextUp(revs, b) \in Nat
        BY <4>2, <4>3 DEF NextUp
      <4>5. Rev(NextUp(revs, b), Render) \in Revision
        BY <1>2, <4>4 DEF Rev, Revision
      <4> QED BY <4>1, <4>5 DEF revs, b
    <3>2. SetRevs(Append(Own.revs, Rev(NextUp(Own.revs, child.build), Render)))
      BY <1>5, <2>1 DEF Up
    <3>3. db' \in Database /\ shadow' \in Database
      BY <3>1, <3>2, SetRevsTyped DEF DataTyped
    <3> QED BY <1>5, <2>1, <3>3 DEF Up, FilesTyped, DataTyped, ProcessesTyped, rest
  <2>2. CASE ~Pending(Own.revs, child.build)
    <3>1. Goto("starting")
      BY <1>5, <2>2 DEF Up
    <3>2. child' \in Child
      BY <1>1, <3>1, GotoTyped DEF ChildPC, Booting
    <3>3. manifest' \in Path
      BY <1>1, <1>5, <2>2 DEF Up, Path
    <3> QED BY <1>5, <2>2, <3>2, <3>3 DEF Up, FilesTyped, DataTyped, ProcessesTyped, rest
  <2> QED BY <2>1, <2>2
<1>6. CASE StartupFailure
  <2>1. journal' \in Journal
    <3>1. RecordStartupFailure \/ MarkNeedsManualRecovery
      BY <1>6 DEF StartupFailure
    <3> QED BY <1>1, <3>1, JournalEdits DEF RecordStartupFailure, MarkNeedsManualRecovery, SaveState, Phase
  <2>2. db' \in Database /\ shadow' \in Database
    <3>1. CASE OwnManifest # NoBuild /\ SetRevs(RolledBack(Own.revs))
      <4> DEFINE revs == Own.revs
                 b == OwnManifest
      <4>1. revs \in Seq(Revision) /\ b \in Build
        BY <1>1, <3>1 DEF OwnManifest, Path
      <4> HIDE DEF revs, b
      <4>2. Len(Beyond(revs, b)) \in 0..Len(revs) /\ Len(revs) \in Nat
        BY <4>1, BeyondPrefix
      <4> DEFINE m == Len(revs) - Len(Beyond(revs, b))
      <4>3. m \in 0..Len(revs)
        BY <4>2
      <4> HIDE DEF m
      <4>4. SubSeq(revs, 1, m) \in Seq(Revision)
        BY <4>1, <4>3
      <4>5. SetRevs(SubSeq(revs, 1, m))
        BY <3>1 DEF RolledBack, m, revs, b
      <4> QED BY <4>4, <4>5, SetRevsTyped DEF DataTyped
    <3>2. CASE UNCHANGED <<db, shadow>>
      BY <3>2 DEF DataTyped
    <3>3. \/ OwnManifest # NoBuild /\ SetRevs(RolledBack(Own.revs))
          \/ UNCHANGED <<db, shadow>>
      BY <1>6, Zenon DEF StartupFailure
    <3> QED BY <3>1, <3>2, <3>3
  <2>3. child' \in Child
    <3>1. \/ child' = [child EXCEPT !.pc = "exit1"]
          \/ journal.prev # NoBuild /\ child' = [NoChild EXCEPT !.pc = "boot", !.build = journal.prev]
      BY <1>6 DEF StartupFailure
    <3>2. CASE child' = [child EXCEPT !.pc = "exit1"]
      BY <1>1, <3>2 DEF Child, ChildPC
    <3>3. CASE journal.prev # NoBuild /\ child' = [NoChild EXCEPT !.pc = "boot", !.build = journal.prev]
      <4>1. journal.prev \in Build
        BY <1>1, <3>3 DEF Journal, Path
      <4>2. NoChild \in Child
        <5>1. <<>> \in Seq(Nat)
          OBVIOUS
        <5> QED BY <5>1, BuildsAreNumbers DEF NoChild, Child, ChildPC
      <4> QED BY <3>3, <4>1, <4>2 DEF Child, ChildPC, Booting
    <3> QED BY <3>1, <3>2, <3>3
  <2> QED BY <1>6, <2>1, <2>2, <2>3 DEF StartupFailure, FilesTyped, DataTyped, ProcessesTyped, rest
<1> QED BY <1>3, <1>4, <1>5, <1>6

LEMMA ServeTyped ==
    ASSUME ReleaseTypeOK,
           \/ Write \/ DeployFails \/ DeploySaves \/ DeployArms \/ RestartArms \/ RestartSaves
           \/ \E b \in Build : DeployBegins(b)
    PROVE  ReleaseTypeOK'
<1> USE DEF ReleaseTypeOK
<1>1. child.build \in Build /\ journal \in Journal /\ upd \in Updater /\ (upd.dep # "no" => upd.target \in Build)
  BY DEF ProcessesTyped, Child, FilesTyped
<1>2. CASE Write
  <2>1. db' \in Database
    <3>1. db' = [db EXCEPT !.data = @ + 1] /\ db \in Database
      BY <1>2 DEF Write, DataTyped
    <3> QED BY <3>1 DEF Database
  <2>2. acked' \in Int
    BY <1>2 DEF Write, DataTyped
  <2> QED BY <1>2, <2>1, <2>2 DEF Write, FilesTyped, DataTyped, ProcessesTyped
<1>3. CASE DeployFails
  <2>1. upd' \in Updater /\ upd'.dep = "no"
    BY <1>1, <1>3 DEF DeployFails, Updater
  <2> QED BY <1>3, <2>1 DEF DeployFails, FilesTyped, DataTyped, ProcessesTyped, updFrame
<1>4. CASE DeploySaves
  <2>1. upd.target \in Build /\ upd.dep = "fetching"
    BY <1>1, <1>4 DEF DeploySaves
  <2>2. upd' \in Updater /\ upd'.target = upd.target
    BY <1>1, <1>4 DEF DeploySaves, Updater
  <2>3. files' \subseteq Build
    BY <1>4, <2>1 DEF DeploySaves, FilesTyped
  <2>4. journal' \in Journal
    <3> DEFINE succ == IF journal.phase = "promoted" THEN Appended(journal.succ, journal.id, journal.cand)
                       ELSE journal.succ
    <3>1. succ \in Seq(Entry)
      BY <1>1, JournalEdits DEF Journal
    <3>2. journal' = Anew(upd.target, "deploy", child.build, succ)
      BY <1>4 DEF DeploySaves, SaveState, Anew
    <3> HIDE DEF succ
    <3> QED BY <1>1, <2>1, <3>1, <3>2, JournalAnew
  <2> QED BY <1>4, <2>1, <2>2, <2>3, <2>4 DEF DeploySaves, FilesTyped, DataTyped, ProcessesTyped, updFrame
<1>5. CASE DeployArms
  <2>1. upd' \in Updater /\ upd'.target = upd.target /\ upd.dep = "saved"
    BY <1>1, <1>5 DEF DeployArms, Updater
  <2> QED BY <1>1, <1>5, <2>1 DEF DeployArms, FilesTyped, DataTyped, ProcessesTyped, updFrame
<1>6. CASE RestartArms
  <2>1. upd' \in Updater /\ upd'.target = upd.target /\ upd'.dep = upd.dep
    BY <1>1, <1>6 DEF RestartArms, Updater, Path
  <2> QED BY <1>1, <1>6, <2>1 DEF RestartArms, FilesTyped, DataTyped, ProcessesTyped, updFrame
<1>7. CASE RestartSaves
  <2>1. upd' \in Updater /\ upd'.target = upd.target /\ upd'.dep = upd.dep
    BY <1>1, <1>7 DEF RestartSaves, Updater
  <2>2. journal' \in Journal
    <3>1. journal.succ \in Seq(Entry)
      BY <1>1 DEF Journal
    <3>2. journal' = Anew(child.build, "restart", child.build, journal.succ)
      BY <1>7 DEF RestartSaves, SaveState, Anew
    <3> QED BY <1>1, <3>1, <3>2, JournalAnew
  <2> QED BY <1>1, <1>7, <2>1, <2>2 DEF RestartSaves, FilesTyped, DataTyped, ProcessesTyped, updFrame
<1>8. CASE \E b \in Build : DeployBegins(b)
  <2>1. PICK b \in Build : DeployBegins(b)
    BY <1>8
  <2>2. upd' \in Updater /\ upd'.target = b
    BY <1>1, <2>1 DEF DeployBegins, Updater, Path
  <2> QED BY <2>1, <2>2 DEF DeployBegins, FilesTyped, DataTyped, ProcessesTyped, updFrame
<1> QED BY <1>2, <1>3, <1>4, <1>5, <1>6, <1>7, <1>8

LEMMA BootTyped ==
    ASSUME ReleaseTypeOK,
           Boot \/ MarkMigrating \/ MarkStarting \/ Listen \/ StartupFails \/ Shutdown \/ Stop \/ Crash
    PROVE  ReleaseTypeOK'
<1> USE DEF ReleaseTypeOK
<1>1. child \in Child /\ journal \in Journal /\ files \subseteq Build
  BY DEF ProcessesTyped, FilesTyped
<1>2. PICK pc \in {"mark", "plan", "listen", "exit76", "serving", "failed", "exit75", "exit0", "exit1"} : Goto(pc)
  BY DEF Boot, MarkMigrating, MarkStarting, Listen, StartupFails, Shutdown, Stop, Crash
<1>3. child' \in Child
  BY <1>1, <1>2, GotoTyped DEF ChildPC, Booting
<1>4. UNCHANGED <<db, manifest, snap, shadow, pg, sup, upd, acked, undone>>
  BY DEF Boot, MarkMigrating, MarkStarting, Listen, StartupFails, Shutdown, Stop, Crash, rest, updFrame
<1>5. journal' \in Journal
  <2>1. CASE MarkMigrating
    BY <1>1, <2>1, MarkTyped DEF MarkMigrating, Phase
  <2>2. CASE MarkStarting
    BY <1>1, <2>2, MarkTyped DEF MarkStarting, Phase
  <2>3. CASE Listen
    BY <1>1, <2>3, JournalEdits DEF Listen, MarkPromoted, SaveState
  <2>4. CASE UNCHANGED journal
    BY <1>1, <2>4
  <2>5. MarkMigrating \/ MarkStarting \/ Listen \/ UNCHANGED journal
    BY DEF Boot, StartupFails, Shutdown, Stop, Crash
  <2> QED BY <2>1, <2>2, <2>3, <2>4, <2>5
<1>6. files' \subseteq Build
  BY <1>1 DEF Boot, MarkMigrating, MarkStarting, Listen, StartupFails, Shutdown, Stop, Crash, MarkPromoted, rest
<1> QED BY <1>3, <1>4, <1>5, <1>6 DEF FilesTyped, DataTyped, ProcessesTyped

LEMMA SupervisorTyped ==
    ASSUME ReleaseTypeOK, SupervisorStep \/ PowerLoss
    PROVE  ReleaseTypeOK'
<1> USE DEF ReleaseTypeOK
<1>1. /\ child \in Child /\ journal \in Journal /\ db \in Database /\ shadow \in Database /\ snap \in Database
      /\ sup \in [pc : {"down", "choose", "wait"}, cur : Build, cand : BOOLEAN]
      /\ 0 \in Build
  BY BuildsAreNumbers DEF ProcessesTyped, FilesTyped, DataTyped
<1>2. NoChild \in Child /\ NoDb \in Database /\ FreshUpdater \in Updater /\ FreshUpdater.dep = "no"
  <2>1. <<>> \in Seq(Nat) /\ <<>> \in Seq(Revision)
    OBVIOUS
  <2> QED BY <2>1, BuildsAreNumbers
      DEF NoChild, Child, ChildPC, NoDb, Database, FreshUpdater, Updater, Path
<1>3. journal.cand \in Path /\ journal.prev \in Path /\ journal.schema \in BOOLEAN
  BY <1>1 DEF Journal
<1>4. CASE Start
  BY <1>1, <1>4 DEF Start, supFrame, FilesTyped, DataTyped, ProcessesTyped
<1>5. CASE Choose
  <2> DEFINE c == CandidatePhase /\ journal.cand # NoBuild /\ OnDisk(journal.cand)
             b == IF c THEN journal.cand ELSE sup.cur
  <2>1. b \in Build /\ c \in BOOLEAN
    BY <1>1, <1>3 DEF Path
  <2>2. \/ /\ sup' = [pc |-> "wait", cur |-> b, cand |-> c]
           /\ child' = [NoChild EXCEPT !.pc = "boot", !.build = b, !.cand = c, !.pre = c /\ journal.schema]
           /\ upd' = FreshUpdater
        \/ sup' = [sup EXCEPT !.pc = "down"] /\ UNCHANGED <<child, upd>>
    BY <1>5 DEF Choose
  <2>3. UNCHANGED <<journal, files, db, manifest, snap, shadow, undone, pg, acked>>
    BY <1>5 DEF Choose, supFrame
  <2> DEFINE pre == c /\ journal.schema
  <2>4. pre \in BOOLEAN
    OBVIOUS
  <2> HIDE DEF c, b, pre
  <2>5. CASE /\ sup' = [pc |-> "wait", cur |-> b, cand |-> c]
             /\ child' = [NoChild EXCEPT !.pc = "boot", !.build = b, !.cand = c, !.pre = pre]
             /\ upd' = FreshUpdater
    <3>1. child' \in Child
      BY <1>2, <2>1, <2>4, <2>5 DEF Child, ChildPC, Booting
    <3> QED BY <1>2, <2>1, <2>3, <2>5, <3>1 DEF FilesTyped, DataTyped, ProcessesTyped
  <2>6. CASE sup' = [sup EXCEPT !.pc = "down"] /\ UNCHANGED <<child, upd>>
    BY <1>1, <2>3, <2>6 DEF FilesTyped, DataTyped, ProcessesTyped
  <2> QED BY <2>2, <2>5, <2>6 DEF pre
<1>6. CASE Leave
  BY <1>1, <1>2, <1>6 DEF Leave, Exited, supFrame, FilesTyped, DataTyped, ProcessesTyped
<1>7. CASE PreflightPassed
  <2>1. journal' \in Journal
    BY <1>1, <1>7, JournalEdits DEF PreflightPassed, SaveState
  <2> QED BY <1>1, <1>2, <1>7, <2>1 DEF PreflightPassed, Exited, supFrame, FilesTyped, DataTyped, ProcessesTyped
<1>8. CASE UpdateRequested
  <2>1. \/ sup' = [sup EXCEPT !.pc = "down"] /\ UNCHANGED <<journal, snap, shadow>>
        \/ /\ journal.cand # NoBuild
           /\ snap' = db \/ snap' = snap
           /\ shadow' = db \/ shadow' = shadow
           /\ journal' = [journal EXCEPT !.snap = @ \/ ~pg, !.schema = @ \/ pg]
           /\ sup' = [sup EXCEPT !.pc = "choose", !.cur = journal.cand]
    BY <1>8 DEF UpdateRequested, CreateSQLiteSnapshot, SaveState
  <2>2. UNCHANGED <<files, db, manifest, upd, undone, pg, acked>> /\ child' = NoChild
    BY <1>8 DEF UpdateRequested, supFrame, Exited
  <2>3. CASE sup' = [sup EXCEPT !.pc = "down"] /\ UNCHANGED <<journal, snap, shadow>>
    BY <1>1, <1>2, <2>2, <2>3 DEF FilesTyped, DataTyped, ProcessesTyped
  <2>4. CASE /\ journal.cand # NoBuild
             /\ snap' = db \/ snap' = snap
             /\ shadow' = db \/ shadow' = shadow
             /\ journal' = [journal EXCEPT !.snap = @ \/ ~pg, !.schema = @ \/ pg]
             /\ sup' = [sup EXCEPT !.pc = "choose", !.cur = journal.cand]
    <3> DEFINE taken == journal.snap \/ ~pg
               copied == journal.schema \/ pg
    <3>1. taken \in BOOLEAN /\ copied \in BOOLEAN
      OBVIOUS
    <3>2. journal' = [journal EXCEPT !.snap = taken, !.schema = copied]
      BY <2>4
    <3> HIDE DEF taken, copied
    <3>3. journal' \in Journal
      BY <1>1, <3>1, <3>2, JournalEdits
    <3>4. sup' \in [pc : {"down", "choose", "wait"}, cur : Build, cand : BOOLEAN]
      BY <1>1, <1>3, <2>4 DEF Path
    <3>5. snap' \in Database /\ shadow' \in Database
      BY <1>1, <2>4
    <3> QED BY <1>2, <2>2, <3>3, <3>4, <3>5 DEF FilesTyped, DataTyped, ProcessesTyped
  <2> QED BY <2>1, <2>3, <2>4
<1>9. CASE ChildFailed
  <2>1. /\ child' = NoChild /\ UNCHANGED <<files, manifest, upd, pg, acked>>
        /\ journal' = journal \/ journal' = [journal EXCEPT !.phase = "failed"]
        /\ shadow' = NoDb \/ shadow' = shadow
        /\ snap' = NoDb \/ snap' = snap
    BY <1>9 DEF ChildFailed, Exited, supFrame, SaveState
  <2>2. \/ sup' = [sup EXCEPT !.pc = "down"]
        \/ journal.prev # NoBuild /\ sup' = [sup EXCEPT !.pc = "choose", !.cur = journal.prev]
    BY <1>9 DEF ChildFailed
  <2>3. journal' \in Journal
    BY <1>1, <2>1, JournalEdits DEF Phase
  <2>4. sup' \in [pc : {"down", "choose", "wait"}, cur : Build, cand : BOOLEAN]
    BY <1>1, <1>3, <2>2 DEF Path
  <2>5. db' \in Database
    BY <1>1, <1>9 DEF ChildFailed, Restored
  <2>6. undone' \in BOOLEAN
    <3>1. \/ undone' = undone
          \/ undone' = (undone \/ (journal.phase = "promoted" /\ ~pg))
      BY <1>9 DEF ChildFailed
    <3> QED BY <3>1 DEF DataTyped
  <2>7. snap' \in Database /\ shadow' \in Database
    BY <1>1, <1>2, <2>1
  <2> QED BY <1>2, <2>1, <2>3, <2>4, <2>5, <2>6, <2>7 DEF FilesTyped, DataTyped, ProcessesTyped
<1>10. CASE PowerLoss
  BY <1>1, <1>2, <1>10 DEF PowerLoss, supFrame, FilesTyped, DataTyped, ProcessesTyped
<1> QED BY <1>4, <1>5, <1>6, <1>7, <1>8, <1>9, <1>10 DEF SupervisorStep

LEMMA TypesStep == ReleaseTypeOK /\ [ReleaseNext]_releaseVars => ReleaseTypeOK'
<1> SUFFICES ASSUME ReleaseTypeOK, [ReleaseNext]_releaseVars PROVE ReleaseTypeOK'
  OBVIOUS
<1>1. CASE UNCHANGED releaseVars
  BY <1>1 DEF ReleaseTypeOK, FilesTyped, DataTyped, ProcessesTyped, releaseVars
<1>2. CASE ReleaseNext
  BY <1>2, MigrateTyped, ServeTyped, BootTyped, SupervisorTyped
  DEF ReleaseNext, ChildStep, UpdateStep
<1> QED BY <1>1, <1>2

----------------------------------------------------------------------------
(* The inductive invariant of the self-update.                             *)

(* A journal that says anything names a candidate and a build on the disk    *)
(* to fall back to; the binary of a candidate is kept until it fails.       *)
Shipping == {"staged", "migrating", "starting", "promoted"}
JournalOK ==
    /\ journal.phase = "none" => journal.cand = NoBuild
    /\ journal.phase # "none" =>
         journal.cand \in Build /\ journal.target = journal.cand /\ OnDisk(journal.prev)
    /\ journal.phase \in Shipping => OnDisk(journal.cand)
    /\ IF pg THEN ~journal.snap ELSE ~journal.schema

(* The child is the one the supervisor chose, and one that was chosen as the *)
(* candidate is the journal's until it has bound its socket.                *)
RunOK ==
    /\ child.pc = "none" <=> sup.pc # "wait"
    /\ child.pc # "none" => OnDisk(child.build) /\ child.cand = sup.cand
    /\ child.pre => child.cand /\ pg
    /\ child.cand /\ child.pc # "none" => journal.phase # "none"
    /\ child.pc \in Booting =>
         (child.cand <=> CandidatePhase) /\ (child.cand => child.build = journal.target)
    /\ child.pc = "exit76" => journal.phase = "promoted" /\ child.pre

(* The build that starts next is one that the clean-up of its boot keeps,    *)
(* and once the clean-up is done a failed candidate is only still there if   *)
(* it is kept: that is why a restart may start it.                          *)
PrunedOK ==
    /\ journal.phase # "none" /\ sup.pc = "choose" => CandidatePhase \/ sup.cur \in Kept(journal) \cup {0}
    /\ journal.phase # "none" /\ child.pc = "boot" => child.build \in Kept(journal) \cup {0}
    /\ journal.phase \in {"failed", "needs_manual_recovery"} /\ child.pc \notin {"none", "boot", "exit1"}
         => files \subseteq Kept(journal)

(* A checkpoint that a failure would put back has every write, and nobody    *)
(* writes while there is one.                                              *)
PutBack ==
    /\ journal.snap /\ snap # NoDb /\ journal.phase # "promoted"
    /\ CandidatePhase \/ (sup.pc = "wait" /\ sup.cand)
WritesOK ==
    /\ WritesKept
    /\ PutBack => undone \/ snap.data = acked
    /\ Serving /\ journal.snap => ~CandidatePhase /\ (child.cand => journal.phase = "promoted")

(* How far the migrations of the child are.                                *)
SchemaOK ==
    /\ child.pc = "down" => child.todo = Beyond(Own.revs, child.build)
    /\ child.pc \in {"up", "starting", "listen", "serving"} => Beyond(Own.revs, child.build) = <<>>
    /\ child.pc \in {"starting", "listen", "serving"} => ~Pending(Own.revs, child.build)
    /\ Serving => ~child.pre

FilesInv == ReleaseTypeOK /\ JournalOK /\ RunOK /\ PrunedOK

LEMMA FilesStart == ReleaseInit => JournalOK /\ RunOK /\ PrunedOK
BY BuildsAreNumbers
DEF ReleaseInit, JournalOK, RunOK, PrunedOK, NoJournal, NoChild, Booting, Shipping

(* Nothing is started, and the journal and the disk are left alone.         *)
LEMMA NothingStarts ==
    ASSUME FilesInv, UNCHANGED <<journal, files, sup, pg>>,
           child'.build = child.build, child'.cand = child.cand, child'.pre = child.pre,
           (child'.pc = "none") <=> (child.pc = "none"),
           child'.pc \in Booting => child.pc \in Booting,
           child'.pc = "boot" => child.pc = "boot",
           child'.pc = "exit76" => child.pc = "exit76",
           child'.pc \notin {"none", "boot", "exit1"} => child.pc \notin {"none", "boot", "exit1"}
    PROVE  JournalOK' /\ RunOK' /\ PrunedOK'
<1>1. JournalOK'
  BY DEF FilesInv, JournalOK, OnDisk
<1>2. RunOK'
  BY DEF FilesInv, RunOK, OnDisk, CandidatePhase
<1>3. PrunedOK'
  BY DEF FilesInv, PrunedOK, Kept, Released, CandidatePhase
<1> QED BY <1>1, <1>2, <1>3

LEMMA QuietSteps ==
    ASSUME FilesInv,
           \/ Plan \/ Down \/ Up \/ Shutdown \/ StartupFails \/ Crash \/ Stop
           \/ Write \/ DeployFails \/ DeployArms \/ RestartArms
           \/ \E b \in Build : DeployBegins(b)
    PROVE  JournalOK' /\ RunOK' /\ PrunedOK'
<1>1. child \in Child
  BY DEF FilesInv, ReleaseTypeOK, ProcessesTyped
<1>2. CASE Plan \/ Down \/ Up \/ StartupFails
  <2>1. child.pc \in Booting \ {"boot"} /\ UNCHANGED <<journal, files, sup, pg>>
    BY <1>2 DEF Plan, Down, Up, StartupFails, At, rest, Booting
  <2>2. /\ child'.build = child.build /\ child'.cand = child.cand /\ child'.pre = child.pre
        /\ child'.pc \in Booting \ {"boot"}
    <3>1. CASE Plan
      BY <1>1, <3>1 DEF Plan, Child, Booting
    <3>2. CASE Down
      BY <1>1, <3>2 DEF Down, Child, Booting, Goto, At
    <3>3. CASE Up
      BY <1>1, <3>3 DEF Up, Child, Booting, Goto, At
    <3>4. CASE StartupFails
      BY <1>1, <3>4 DEF StartupFails, Child, Booting, Goto
    <3> QED BY <1>2, <3>1, <3>2, <3>3, <3>4
  <2> QED BY <2>1, <2>2, NothingStarts DEF Booting
<1>3. CASE Crash \/ Shutdown \/ Stop
  <2>1. child.pc # "none" /\ UNCHANGED <<journal, files, sup, pg>>
    BY <1>3 DEF Crash, Shutdown, Stop, Serving, rest, updFrame
  <2>2. /\ child'.build = child.build /\ child'.cand = child.cand /\ child'.pre = child.pre
        /\ \/ child'.pc = "exit1"
           \/ child.pc = "serving" /\ child'.pc \in {"exit75", "exit0"}
    BY <1>1, <1>3 DEF Crash, Shutdown, Stop, Serving, Goto, Child
  <2> QED BY <2>1, <2>2, NothingStarts DEF Booting
<1>4. CASE \/ Write \/ DeployFails \/ DeployArms \/ RestartArms
           \/ \E b \in Build : DeployBegins(b)
  <2>1. UNCHANGED <<journal, files, sup, pg, child>>
    BY <1>4 DEF Write, DeployFails, DeployArms, RestartArms, DeployBegins, updFrame
  <2> QED BY <2>1, NothingStarts
<1> QED BY <1>2, <1>3, <1>4

LEMMA KeptHas ==
    /\ journal.prev \in Kept(journal)
    /\ journal.phase \in Shipping => journal.cand \in Kept(journal)
BY DEF Kept, Shipping

LEMMA BootKeepsFiles ==
    ASSUME FilesInv, Boot
    PROVE  JournalOK' /\ RunOK' /\ PrunedOK'
<1>1. child \in Child /\ child.pc = "boot"
  BY DEF FilesInv, ReleaseTypeOK, ProcessesTyped, Boot, At
<1>2. UNCHANGED <<journal, sup, pg>>
  BY DEF Boot, rest
<1>3. /\ child'.pc = "mark" /\ child'.build = child.build
      /\ child'.cand = child.cand /\ child'.pre = child.pre
  BY <1>1 DEF Boot, Goto, Child
<1>4. /\ journal.phase = "none" => files' = files
      /\ journal.phase # "none" => files' = files \cap Kept(journal)
  BY DEF Boot
<1>5. \A b : OnDisk(b) /\ (journal.phase # "none" => b \in Kept(journal) \cup {0}) => OnDisk(b)'
  BY <1>4 DEF OnDisk
<1>6. JournalOK'
  BY <1>2, <1>5, KeptHas DEF FilesInv, JournalOK, Shipping
<1>7. RunOK'
  <2>1. OnDisk(child.build)'
    BY <1>1, <1>3, <1>5 DEF FilesInv, RunOK, PrunedOK, OnDisk
  <2> QED BY <1>1, <1>2, <1>3, <2>1 DEF FilesInv, RunOK, Booting, CandidatePhase
<1>8. PrunedOK'
  <2>1. Kept(journal)' = Kept(journal)
    BY <1>2 DEF Kept, Released
  <2>2. sup.pc # "choose"
    BY DEF Boot, At
  <2> QED BY <1>2, <1>3, <1>4, <2>1, <2>2 DEF PrunedOK
<1> QED BY <1>6, <1>7, <1>8

LEMMA MarkKeepsFiles ==
    ASSUME FilesInv, MarkMigrating \/ MarkStarting
    PROVE  JournalOK' /\ RunOK' /\ PrunedOK'
<1>1. child \in Child /\ journal \in Journal /\ child.pc \in Booting \ {"boot"} /\ sup.pc = "wait"
  BY DEF FilesInv, ReleaseTypeOK, FilesTyped, ProcessesTyped, MarkMigrating, MarkStarting, At, Booting
<1>2. UNCHANGED <<files, sup, pg>>
  BY DEF MarkMigrating, MarkStarting, rest
<1>3. /\ child'.pc \in Booting \ {"boot"} /\ child'.build = child.build
      /\ child'.cand = child.cand /\ child'.pre = child.pre
  BY <1>1 DEF MarkMigrating, MarkStarting, Goto, Child, Booting
<1>4. CASE UNCHANGED journal
  BY <1>1, <1>2, <1>3, <1>4, NothingStarts DEF Booting
<1>5. ASSUME journal' # journal PROVE JournalOK' /\ RunOK' /\ PrunedOK'
  <2>1. PICK phase \in {"migrating", "starting"} : Mark(phase)
    BY DEF MarkMigrating, MarkStarting
  <2>2. CandidatePhase /\ journal' = [journal EXCEPT !.phase = phase]
    BY <1>5, <2>1, Zenon DEF Mark, Active, SaveState
  <2>3. /\ journal'.phase = phase /\ journal'.cand = journal.cand /\ journal'.target = journal.target
        /\ journal'.prev = journal.prev /\ journal'.snap = journal.snap /\ journal'.schema = journal.schema
    BY <1>1, <2>2 DEF Journal
  <2>4. CandidatePhase'
    BY <2>3 DEF CandidatePhase
  <2>5. JournalOK'
    BY <1>2, <2>2, <2>3 DEF FilesInv, JournalOK, OnDisk, CandidatePhase, Shipping
  <2>6. RunOK'
    BY <1>1, <1>2, <1>3, <2>2, <2>3, <2>4 DEF FilesInv, RunOK, OnDisk, Booting
  <2>7. PrunedOK'
    BY <1>1, <1>2, <1>3, <2>3, <2>4 DEF PrunedOK, CandidatePhase, Booting
  <2> QED BY <2>5, <2>6, <2>7
<1> QED BY <1>4, <1>5

LEMMA ListenKeepsFiles ==
    ASSUME FilesInv, Listen
    PROVE  JournalOK' /\ RunOK' /\ PrunedOK'
<1>1. child \in Child /\ journal \in Journal /\ child.pc = "listen" /\ sup.pc = "wait"
  BY DEF FilesInv, ReleaseTypeOK, FilesTyped, ProcessesTyped, Listen, At
<1>2. UNCHANGED <<sup, pg>> /\ MarkPromoted
  BY DEF Listen, rest
<1>3. /\ child'.pc = IF child.pre THEN "exit76" ELSE "serving"
      /\ child'.build = child.build /\ child'.cand = child.cand /\ child'.pre = child.pre
  BY <1>1 DEF Listen, Goto, Child
<1>4. CandidatePhase => journal.cand \in Build /\ NoBuild \notin Build
  BY BuildsAreNumbers DEF FilesInv, JournalOK, CandidatePhase
<1>5. (child.cand <=> CandidatePhase) /\ (child.cand => child.build = journal.target)
  BY <1>1 DEF FilesInv, RunOK, Booting
<1>6. Active(child.build) <=> child.cand
  BY <1>4, <1>5 DEF Active
<1>7. CASE child.cand
  <2>1. journal' = [journal EXCEPT !.phase = "promoted", !.succ = Appended(@, journal.id, journal.cand)]
    BY <1>2, <1>6, <1>7, Zenon DEF MarkPromoted, SaveState
  <2>2. files' = files \cap Kept(journal')
    BY <1>2, <1>6, <1>7, Zenon DEF MarkPromoted
  <2>3. /\ journal'.phase = "promoted" /\ journal'.cand = journal.cand /\ journal'.target = journal.target
        /\ journal'.prev = journal.prev /\ journal'.snap = journal.snap /\ journal'.schema = journal.schema
    BY <1>1, <2>1 DEF Journal
  <2>4. journal'.cand \in Kept(journal') /\ journal'.prev \in Kept(journal')
    BY <2>3 DEF Kept
  <2>5. \A b : OnDisk(b) /\ b \in Kept(journal') => OnDisk(b)'
    BY <2>2 DEF OnDisk
  <2>6. JournalOK'
    BY <1>2, <1>5, <1>7, <2>3, <2>4, <2>5 DEF FilesInv, JournalOK, CandidatePhase, Shipping
  <2>7. RunOK'
    <3>1. OnDisk(child.build)'
      BY <1>1, <1>3, <1>5, <1>7, <2>3, <2>4, <2>5 DEF FilesInv, JournalOK, RunOK, CandidatePhase
    <3> QED BY <1>1, <1>2, <1>3, <2>3, <3>1 DEF FilesInv, RunOK, Booting
  <2>8. PrunedOK'
    BY <1>1, <1>2, <1>3, <2>3 DEF PrunedOK
  <2> QED BY <2>6, <2>7, <2>8
<1>8. CASE ~child.cand
  <2>1. UNCHANGED <<journal, files>>
    BY <1>2, <1>6, <1>8, Zenon DEF MarkPromoted
  <2>2. ~child.pre
    BY <1>8 DEF FilesInv, RunOK
  <2> QED BY <1>1, <1>2, <1>3, <2>1, <2>2, NothingStarts DEF Booting
<1> QED BY <1>7, <1>8

(* What a failed start leaves of the journal, and which child goes on.      *)
LEMMA FailureEffect ==
    ASSUME FilesInv, StartupFailure
    PROVE  /\ UNCHANGED <<files, sup, pg, snap, acked, undone>> /\ child.pc = "failed" /\ sup.pc = "wait"
           /\ journal'.cand = journal.cand /\ journal'.target = journal.target /\ journal'.prev = journal.prev
           /\ journal'.snap = journal.snap /\ journal'.schema = journal.schema
           /\ IF Targeted THEN journal'.phase \in {"failed", "needs_manual_recovery"} ELSE journal' = journal
           /\ \/ /\ child'.pc = "exit1" /\ child'.build = child.build
                 /\ child'.cand = child.cand /\ child'.pre = child.pre
              \/ /\ Targeted /\ OnDisk(journal.prev) /\ ~child.cand
                 /\ child'.pc = "boot" /\ child'.build = journal.prev /\ ~child'.cand /\ ~child'.pre
<1>1. journal \in Journal /\ child \in Child /\ NoChild \in Child /\ ~NoChild.cand /\ ~NoChild.pre
  <2>1. <<>> \in Seq(Nat)
    OBVIOUS
  <2> QED BY <2>1, BuildsAreNumbers
      DEF FilesInv, ReleaseTypeOK, FilesTyped, ProcessesTyped, NoChild, Child, ChildPC
<1>2. UNCHANGED <<files, sup, pg, snap, acked, undone>> /\ child.pc = "failed" /\ sup.pc = "wait"
  BY DEF StartupFailure, rest, At
<1>3. /\ Targeted => \E phase \in {"failed", "needs_manual_recovery"} : journal' = [journal EXCEPT !.phase = phase]
      /\ ~Targeted => journal' = journal
  <2>1. RecordStartupFailure \/ MarkNeedsManualRecovery
    BY DEF StartupFailure
  <2> QED BY <2>1 DEF RecordStartupFailure, MarkNeedsManualRecovery, SaveState
<1>4. /\ journal'.cand = journal.cand /\ journal'.target = journal.target /\ journal'.prev = journal.prev
      /\ journal'.snap = journal.snap /\ journal'.schema = journal.schema
      /\ IF Targeted THEN journal'.phase \in {"failed", "needs_manual_recovery"} ELSE journal' = journal
  <2>1. CASE Targeted
    <3>1. PICK phase \in {"failed", "needs_manual_recovery"} : journal' = [journal EXCEPT !.phase = phase]
      BY <1>3, <2>1
    <3> QED BY <1>1, <2>1, <3>1 DEF Journal
  <2>2. CASE ~Targeted
    BY <1>3, <2>2
  <2> QED BY <2>1, <2>2
<1>5. \/ child' = [child EXCEPT !.pc = "exit1"]
      \/ /\ Targeted /\ OnDisk(journal.prev) /\ ~child.cand
         /\ child' = [NoChild EXCEPT !.pc = "boot", !.build = journal.prev]
  BY Zenon DEF StartupFailure
<1>6. \/ /\ child'.pc = "exit1" /\ child'.build = child.build
         /\ child'.cand = child.cand /\ child'.pre = child.pre
      \/ /\ Targeted /\ OnDisk(journal.prev) /\ ~child.cand
         /\ child'.pc = "boot" /\ child'.build = journal.prev /\ ~child'.cand /\ ~child'.pre
  <2>1. CASE child' = [child EXCEPT !.pc = "exit1"]
    BY <1>1, <2>1 DEF Child
  <2>2. CASE /\ Targeted /\ OnDisk(journal.prev) /\ ~child.cand
             /\ child' = [NoChild EXCEPT !.pc = "boot", !.build = journal.prev]
    BY <1>1, <2>2 DEF Child
  <2> QED BY <1>5, <2>1, <2>2
<1> QED BY <1>2, <1>4, <1>6

LEMMA FailureKeepsFiles ==
    ASSUME FilesInv, StartupFailure
    PROVE  JournalOK' /\ RunOK' /\ PrunedOK'
<1>1. /\ UNCHANGED <<files, sup, pg>> /\ child.pc = "failed" /\ sup.pc = "wait"
      /\ journal'.cand = journal.cand /\ journal'.target = journal.target /\ journal'.prev = journal.prev
      /\ journal'.snap = journal.snap /\ journal'.schema = journal.schema
      /\ IF Targeted THEN journal'.phase \in {"failed", "needs_manual_recovery"} ELSE journal' = journal
      /\ \/ /\ child'.pc = "exit1" /\ child'.build = child.build
            /\ child'.cand = child.cand /\ child'.pre = child.pre
         \/ /\ Targeted /\ OnDisk(journal.prev) /\ ~child.cand
            /\ child'.pc = "boot" /\ child'.build = journal.prev /\ ~child'.cand /\ ~child'.pre
  BY FailureEffect
<1>2. Targeted => journal.phase # "none"
  BY DEF FilesInv, JournalOK, Targeted
<1>3. journal'.phase # "none" <=> journal.phase # "none"
  BY <1>1, <1>2
<1>4. Targeted => ~CandidatePhase' /\ journal'.phase \notin Shipping
  BY <1>1 DEF CandidatePhase, Shipping
<1>5. JournalOK'
  BY <1>1, <1>3, <1>4 DEF FilesInv, JournalOK, OnDisk
<1>6. RunOK'
  <2>1. OnDisk(child.build)'
    BY <1>1 DEF FilesInv, RunOK, OnDisk
  <2>2. child.cand = sup.cand /\ (child.pre => child.cand /\ pg) /\ (child.cand => journal.phase # "none")
    BY <1>1 DEF FilesInv, RunOK
  <2>3. CASE child'.pc = "exit1" /\ child'.build = child.build /\ child'.cand = child.cand /\ child'.pre = child.pre
    <3>1. child'.pc \notin Booting
      BY <2>3 DEF Booting
    <3> QED BY <1>1, <1>3, <2>1, <2>2, <2>3, <3>1 DEF RunOK
  <2>4. CASE /\ Targeted /\ OnDisk(journal.prev) /\ ~child.cand
             /\ child'.pc = "boot" /\ child'.build = journal.prev /\ ~child'.cand /\ ~child'.pre
    <3>1. child'.cand = sup'.cand
      <4>1. child.cand \in BOOLEAN /\ child'.cand \in BOOLEAN
        BY TypesStep DEF FilesInv, ReleaseNext, ChildStep, ReleaseTypeOK, ProcessesTyped, Child
      <4> QED BY <1>1, <2>2, <2>4, <4>1
    <3> QED BY <1>1, <1>4, <2>1, <2>4, <3>1 DEF RunOK
  <2> QED BY <1>1, <2>3, <2>4
<1>7. PrunedOK'
  <2>1. journal'.prev \in Kept(journal')
    BY DEF Kept
  <2> QED BY <1>1, <2>1 DEF PrunedOK
<1> QED BY <1>5, <1>6, <1>7

(* The server journals a candidate: a build it fetched, or itself.          *)
LEMMA SavedEffect ==
    ASSUME ReleaseTypeOK, DeploySaves \/ RestartSaves
    PROVE  /\ child.pc = "serving" /\ UNCHANGED <<child, db, manifest, snap, shadow, pg, sup, acked, undone>>
           /\ files \subseteq files'
           /\ journal'.phase = "staged" /\ journal'.cand \in Build /\ journal'.target = journal'.cand
           /\ journal'.prev = child.build /\ ~journal'.snap /\ ~journal'.schema
           /\ journal'.cand \in files' \cup {child.build}
<1>1. child.build \in Build /\ journal \in Journal /\ (upd.dep # "no" => upd.target \in Build)
  BY DEF ReleaseTypeOK, ProcessesTyped, Child, FilesTyped
<1>2. child.pc = "serving" /\ UNCHANGED <<child, db, manifest, snap, shadow, pg, sup, acked, undone>>
  BY DEF DeploySaves, RestartSaves, Serving, updFrame
<1>3. CASE DeploySaves
  <2>1. upd.target \in Build /\ upd.dep = "fetching"
    BY <1>1, <1>3 DEF DeploySaves
  <2>2. files' = files \cup {upd.target}
    BY <1>3 DEF DeploySaves
  <2> DEFINE succ == IF journal.phase = "promoted" THEN Appended(journal.succ, journal.id, journal.cand)
                     ELSE journal.succ
  <2>3. succ \in Seq(Entry)
    BY <1>1, JournalEdits DEF Journal
  <2>4. journal' = Anew(upd.target, "deploy", child.build, succ)
    BY <1>3 DEF DeploySaves, SaveState, Anew
  <2> HIDE DEF succ
  <2> QED BY <1>1, <1>2, <2>1, <2>2, <2>3, <2>4, JournalAnew
<1>4. CASE RestartSaves
  <2>1. journal.succ \in Seq(Entry)
    BY <1>1 DEF Journal
  <2>2. journal' = Anew(child.build, "restart", child.build, journal.succ) /\ files' = files
    BY <1>4 DEF RestartSaves, SaveState, Anew
  <2> QED BY <1>1, <1>2, <2>1, <2>2, JournalAnew
<1> QED BY <1>3, <1>4

LEMMA SavesKeepFiles ==
    ASSUME FilesInv, DeploySaves \/ RestartSaves
    PROVE  JournalOK' /\ RunOK' /\ PrunedOK'
<1>1. /\ child.pc = "serving" /\ UNCHANGED <<child, pg, sup>> /\ files \subseteq files'
      /\ journal'.phase = "staged" /\ journal'.cand \in Build /\ journal'.target = journal'.cand
      /\ journal'.prev = child.build /\ ~journal'.snap /\ ~journal'.schema
      /\ journal'.cand \in files' \cup {child.build}
  BY SavedEffect DEF FilesInv
<1>2. OnDisk(child.build)'
  BY <1>1 DEF FilesInv, RunOK, OnDisk
<1>3. OnDisk(journal.prev)' /\ OnDisk(journal.cand)'
  BY <1>1, <1>2 DEF OnDisk
<1>4. sup.pc = "wait"
  BY <1>1 DEF FilesInv, RunOK
<1>5. JournalOK'
  BY <1>1, <1>3 DEF JournalOK
<1>6. RunOK'
  BY <1>1, <1>2 DEF FilesInv, RunOK, Booting
<1>7. PrunedOK'
  BY <1>1, <1>4 DEF PrunedOK
<1> QED BY <1>5, <1>6, <1>7

(* The supervisor's choice: the candidate exactly when the journal has one.  *)
LEMMA ChoiceEffect ==
    ASSUME FilesInv, Choose
    PROVE  /\ sup.pc = "choose" /\ UNCHANGED <<journal, files, db, manifest, snap, shadow, undone, pg, acked>>
           /\ \/ /\ sup'.pc = "wait" /\ sup'.cand \in BOOLEAN /\ (sup'.cand <=> CandidatePhase)
                 /\ child'.pc = "boot" /\ child'.cand = sup'.cand /\ OnDisk(child'.build)
                 /\ child'.build = IF CandidatePhase THEN journal.cand ELSE sup.cur
                 /\ (child'.pre <=> CandidatePhase /\ journal.schema)
              \/ sup'.pc = "down" /\ child' = child
<1>1. journal \in Journal /\ NoChild \in Child /\ sup \in [pc : {"down", "choose", "wait"}, cur : Build, cand : BOOLEAN]
  <2>1. <<>> \in Seq(Nat)
    OBVIOUS
  <2> QED BY <2>1, BuildsAreNumbers
      DEF FilesInv, ReleaseTypeOK, FilesTyped, ProcessesTyped, NoChild, Child, ChildPC
<1> DEFINE c == CandidatePhase /\ journal.cand # NoBuild /\ OnDisk(journal.cand)
           b == IF c THEN journal.cand ELSE sup.cur
           pre == c /\ journal.schema
<1>2. c <=> CandidatePhase
  BY BuildsAreNumbers DEF FilesInv, JournalOK, CandidatePhase, Shipping
<1>3. \/ /\ OnDisk(b) /\ sup' = [pc |-> "wait", cur |-> b, cand |-> c]
         /\ child' = [NoChild EXCEPT !.pc = "boot", !.build = b, !.cand = c, !.pre = pre]
      \/ sup' = [sup EXCEPT !.pc = "down"] /\ UNCHANGED child
  BY Zenon DEF Choose
<1>4. sup.pc = "choose" /\ UNCHANGED <<journal, files, db, manifest, snap, shadow, undone, pg, acked>>
  BY DEF Choose, supFrame
<1>5. c \in BOOLEAN /\ b = (IF CandidatePhase THEN journal.cand ELSE sup.cur) /\ (pre <=> CandidatePhase /\ journal.schema)
  BY <1>2
<1> HIDE DEF c, b, pre
<1>6. CASE /\ OnDisk(b) /\ sup' = [pc |-> "wait", cur |-> b, cand |-> c]
           /\ child' = [NoChild EXCEPT !.pc = "boot", !.build = b, !.cand = c, !.pre = pre]
  <2>1. sup'.pc = "wait" /\ sup'.cand = c
    BY <1>6
  <2>2. child'.pc = "boot" /\ child'.build = b /\ child'.cand = c /\ child'.pre = pre
    BY <1>1, <1>6 DEF Child
  <2> QED BY <1>2, <1>4, <1>5, <1>6, <2>1, <2>2
<1>7. CASE sup' = [sup EXCEPT !.pc = "down"] /\ UNCHANGED child
  BY <1>1, <1>4, <1>7
<1> QED BY <1>3, <1>6, <1>7

LEMMA ChoiceKeepsFiles ==
    ASSUME FilesInv, Choose
    PROVE  JournalOK' /\ RunOK' /\ PrunedOK'
<1>1. /\ sup.pc = "choose" /\ UNCHANGED <<journal, files, pg>>
      /\ \/ /\ sup'.pc = "wait" /\ sup'.cand \in BOOLEAN /\ (sup'.cand <=> CandidatePhase)
            /\ child'.pc = "boot" /\ child'.cand = sup'.cand /\ OnDisk(child'.build)
            /\ child'.build = IF CandidatePhase THEN journal.cand ELSE sup.cur
            /\ (child'.pre <=> CandidatePhase /\ journal.schema)
         \/ sup'.pc = "down" /\ child' = child
  BY ChoiceEffect
<1>2. JournalOK'
  BY <1>1 DEF FilesInv, JournalOK, OnDisk
<1>3. CandidatePhase' <=> CandidatePhase
  BY <1>1 DEF CandidatePhase
<1>4. CASE sup'.pc = "down" /\ child' = child
  <2>1. child.pc = "none"
    BY <1>1 DEF FilesInv, RunOK
  <2> QED BY <1>1, <1>2, <1>4, <2>1 DEF FilesInv, RunOK, PrunedOK, Booting
<1>5. CASE /\ sup'.pc = "wait" /\ sup'.cand \in BOOLEAN /\ (sup'.cand <=> CandidatePhase)
           /\ child'.pc = "boot" /\ child'.cand = sup'.cand /\ OnDisk(child'.build)
           /\ child'.build = IF CandidatePhase THEN journal.cand ELSE sup.cur
           /\ (child'.pre <=> CandidatePhase /\ journal.schema)
  <2>1. CandidatePhase => journal.phase # "none" /\ journal.phase \in Shipping /\ journal.target = journal.cand
    BY DEF FilesInv, JournalOK, CandidatePhase, Shipping
  <2>2. journal.schema => pg
    BY DEF FilesInv, JournalOK
  <2>3. OnDisk(child.build)'
    BY <1>1, <1>5 DEF OnDisk
  <2>4. RunOK'
    BY <1>1, <1>3, <1>5, <2>1, <2>2, <2>3 DEF RunOK
  <2>5. Kept(journal)' = Kept(journal)
    BY <1>1 DEF Kept, Released
  <2>6. journal.phase # "none" => child'.build \in Kept(journal) \cup {0}
    <3>1. CASE CandidatePhase
      BY <1>5, <2>1, <3>1, KeptHas
    <3>2. CASE ~CandidatePhase
      BY <1>1, <1>5, <3>2 DEF FilesInv, PrunedOK
    <3> QED BY <3>1, <3>2
  <2>7. PrunedOK'
    BY <1>1, <1>5, <2>5, <2>6 DEF PrunedOK
  <2> QED BY <1>2, <2>4, <2>7
<1> QED BY <1>1, <1>4, <1>5

LEMMA NoChildFacts == NoChild.pc = "none" /\ ~NoChild.pre /\ ~NoChild.cand
BY DEF NoChild

LEMMA UpdateEffect ==
    ASSUME FilesInv, UpdateRequested
    PROVE  /\ child.pc = "exit75" /\ sup.pc = "wait" /\ child' = NoChild
           /\ UNCHANGED <<files, db, manifest, undone, pg, acked>>
           /\ \/ sup'.pc = "down" /\ UNCHANGED <<journal, snap, shadow>>
              \/ /\ journal.cand # NoBuild /\ OnDisk(journal.cand) /\ sup'.pc = "choose" /\ sup'.cur = journal.cand
                 /\ snap' = IF ~pg /\ ~journal.snap THEN db ELSE snap
                 /\ journal'.phase = journal.phase /\ journal'.cand = journal.cand
                 /\ journal'.target = journal.target /\ journal'.prev = journal.prev
                 /\ journal'.succ = journal.succ
                 /\ (journal'.snap <=> journal.snap \/ ~pg) /\ (journal'.schema <=> journal.schema \/ pg)
<1>1. journal \in Journal /\ sup \in [pc : {"down", "choose", "wait"}, cur : Build, cand : BOOLEAN]
  BY DEF FilesInv, ReleaseTypeOK, FilesTyped, ProcessesTyped
<1>2. child.pc = "exit75" /\ sup.pc = "wait" /\ child' = NoChild /\ UNCHANGED <<files, db, manifest, undone, pg, acked>>
  BY DEF UpdateRequested, Exited, supFrame
<1> DEFINE taken == journal.snap \/ ~pg
           copied == journal.schema \/ pg
<1>3. \/ sup' = [sup EXCEPT !.pc = "down"] /\ UNCHANGED <<journal, snap, shadow>>
      \/ /\ journal.cand # NoBuild /\ OnDisk(journal.cand)
         /\ sup' = [sup EXCEPT !.pc = "choose", !.cur = journal.cand]
         /\ snap' = IF ~pg /\ ~journal.snap THEN db ELSE snap
         /\ journal' = [journal EXCEPT !.snap = taken, !.schema = copied]
  BY DEF UpdateRequested, CreateSQLiteSnapshot, SaveState
<1>4. taken \in BOOLEAN /\ copied \in BOOLEAN
  OBVIOUS
<1>5. (taken <=> journal.snap \/ ~pg) /\ (copied <=> journal.schema \/ pg)
  OBVIOUS
<1> HIDE DEF taken, copied
<1>6. CASE sup' = [sup EXCEPT !.pc = "down"] /\ UNCHANGED <<journal, snap, shadow>>
  BY <1>1, <1>2, <1>6
<1>7. CASE /\ journal.cand # NoBuild /\ OnDisk(journal.cand)
           /\ sup' = [sup EXCEPT !.pc = "choose", !.cur = journal.cand]
           /\ snap' = IF ~pg /\ ~journal.snap THEN db ELSE snap
           /\ journal' = [journal EXCEPT !.snap = taken, !.schema = copied]
  <2>1. /\ journal'.phase = journal.phase /\ journal'.cand = journal.cand
        /\ journal'.target = journal.target /\ journal'.prev = journal.prev
        /\ journal'.succ = journal.succ /\ journal'.snap = taken /\ journal'.schema = copied
    BY <1>1, <1>7 DEF Journal
  <2>2. sup'.pc = "choose" /\ sup'.cur = journal.cand
    BY <1>1, <1>7
  <2> QED BY <1>2, <1>5, <1>7, <2>1, <2>2
<1> QED BY <1>3, <1>6, <1>7

LEMMA UpdateKeepsFiles ==
    ASSUME FilesInv, UpdateRequested
    PROVE  JournalOK' /\ RunOK' /\ PrunedOK'
<1>1. /\ child.pc = "exit75" /\ sup.pc = "wait" /\ child' = NoChild /\ UNCHANGED <<files, pg>>
      /\ \/ sup'.pc = "down" /\ UNCHANGED <<journal, snap, shadow>>
         \/ /\ journal.cand # NoBuild /\ OnDisk(journal.cand) /\ sup'.pc = "choose" /\ sup'.cur = journal.cand
            /\ journal'.phase = journal.phase /\ journal'.cand = journal.cand
            /\ journal'.target = journal.target /\ journal'.prev = journal.prev
            /\ journal'.succ = journal.succ
            /\ (journal'.snap <=> journal.snap \/ ~pg) /\ (journal'.schema <=> journal.schema \/ pg)
  BY UpdateEffect
<1>2. RunOK'
  BY <1>1, NoChildFacts DEF RunOK, Booting
<1>3. CASE sup'.pc = "down" /\ UNCHANGED <<journal, snap, shadow>>
  BY <1>1, <1>2, <1>3, NoChildFacts DEF FilesInv, JournalOK, PrunedOK, OnDisk
<1>4. CASE /\ journal.cand # NoBuild /\ OnDisk(journal.cand) /\ sup'.pc = "choose" /\ sup'.cur = journal.cand
           /\ journal'.phase = journal.phase /\ journal'.cand = journal.cand
           /\ journal'.target = journal.target /\ journal'.prev = journal.prev
           /\ journal'.succ = journal.succ
           /\ (journal'.snap <=> journal.snap \/ ~pg) /\ (journal'.schema <=> journal.schema \/ pg)
  <2>1. JournalOK'
    BY <1>1, <1>4 DEF FilesInv, JournalOK, OnDisk
  <2>2. Kept(journal)' = Kept(journal)
    BY <1>4 DEF Kept
  <2>3. journal.phase # "none" => CandidatePhase \/ journal.cand \in Kept(journal) \cup {0}
    <3>1. CASE journal.phase \in Shipping
      BY <3>1, KeptHas
    <3>2. CASE journal.phase \in {"failed", "needs_manual_recovery"}
      BY <1>1, <1>4, <3>2 DEF FilesInv, PrunedOK, OnDisk
    <3>3. journal.phase \in Phase
      BY DEF FilesInv, ReleaseTypeOK, FilesTyped, Journal
    <3> QED BY <3>1, <3>2, <3>3 DEF Phase, Shipping
  <2>4. PrunedOK'
    BY <1>1, <1>4, <2>2, <2>3, NoChildFacts DEF PrunedOK, CandidatePhase
  <2> QED BY <1>2, <2>1, <2>4
<1> QED BY <1>1, <1>3, <1>4

LEMMA FailedEffect ==
    ASSUME FilesInv, ChildFailed
    PROVE  /\ child.pc = "exit1" /\ sup.pc = "wait" /\ child' = NoChild
           /\ UNCHANGED <<files, manifest, pg, acked>>
           /\ journal'.cand = journal.cand /\ journal'.target = journal.target /\ journal'.prev = journal.prev
           /\ journal'.snap = journal.snap /\ journal'.schema = journal.schema
           /\ \/ sup'.pc = "down" /\ journal' = journal
              \/ sup.cand /\ sup'.pc = "choose" /\ sup'.cur = journal.prev /\ journal'.phase = "failed"
<1>1. journal \in Journal /\ sup \in [pc : {"down", "choose", "wait"}, cur : Build, cand : BOOLEAN]
  BY DEF FilesInv, ReleaseTypeOK, FilesTyped, ProcessesTyped
<1>2. child.pc = "exit1" /\ sup.pc = "wait" /\ child' = NoChild /\ UNCHANGED <<files, manifest, pg, acked>>
  BY DEF ChildFailed, Exited, supFrame
<1>3. \/ sup' = [sup EXCEPT !.pc = "down"] /\ journal' = journal
      \/ /\ sup.cand /\ sup' = [sup EXCEPT !.pc = "choose", !.cur = journal.prev]
         /\ journal' = [journal EXCEPT !.phase = "failed"]
  BY DEF ChildFailed, SaveState
<1>4. CASE sup' = [sup EXCEPT !.pc = "down"] /\ journal' = journal
  BY <1>1, <1>2, <1>4
<1>5. CASE /\ sup.cand /\ sup' = [sup EXCEPT !.pc = "choose", !.cur = journal.prev]
           /\ journal' = [journal EXCEPT !.phase = "failed"]
  <2>1. /\ journal'.cand = journal.cand /\ journal'.target = journal.target /\ journal'.prev = journal.prev
        /\ journal'.snap = journal.snap /\ journal'.schema = journal.schema /\ journal'.phase = "failed"
    BY <1>1, <1>5 DEF Journal
  <2>2. sup'.pc = "choose" /\ sup'.cur = journal.prev
    BY <1>1, <1>5
  <2> QED BY <1>2, <1>5, <2>1, <2>2
<1> QED BY <1>3, <1>4, <1>5

LEMMA FailedKeepsFiles ==
    ASSUME FilesInv, ChildFailed
    PROVE  JournalOK' /\ RunOK' /\ PrunedOK'
<1>1. /\ child.pc = "exit1" /\ sup.pc = "wait" /\ child' = NoChild /\ UNCHANGED <<files, pg>>
      /\ journal'.cand = journal.cand /\ journal'.target = journal.target /\ journal'.prev = journal.prev
      /\ journal'.snap = journal.snap /\ journal'.schema = journal.schema
      /\ \/ sup'.pc = "down" /\ journal' = journal
         \/ sup.cand /\ sup'.pc = "choose" /\ sup'.cur = journal.prev /\ journal'.phase = "failed"
  BY FailedEffect
<1>2. RunOK'
  BY <1>1, NoChildFacts DEF RunOK, Booting
<1>3. sup.cand => journal.phase # "none"
  BY <1>1 DEF FilesInv, RunOK
<1>4. JournalOK'
  BY <1>1, <1>3 DEF FilesInv, JournalOK, OnDisk, Shipping
<1>5. journal'.prev \in Kept(journal')
  BY DEF Kept
<1>6. PrunedOK'
  BY <1>1, <1>5, NoChildFacts DEF PrunedOK
<1> QED BY <1>2, <1>4, <1>6

LEMMA SupervisorKeepsFiles ==
    ASSUME FilesInv, Start \/ Leave \/ PreflightPassed \/ PowerLoss
    PROVE  JournalOK' /\ RunOK' /\ PrunedOK'
<1>1. journal \in Journal /\ sup \in [pc : {"down", "choose", "wait"}, cur : Build, cand : BOOLEAN]
  BY DEF FilesInv, ReleaseTypeOK, FilesTyped, ProcessesTyped
<1>2. CASE Start
  <2>1. UNCHANGED <<journal, files, child, pg>> /\ sup'.pc = "choose" /\ sup'.cur = 0 /\ sup.pc = "down"
    BY <1>2 DEF Start, supFrame
  <2>2. child.pc = "none"
    BY <2>1 DEF FilesInv, RunOK
  <2>3. JournalOK' /\ RunOK'
    BY <2>1, <2>2 DEF FilesInv, JournalOK, RunOK, OnDisk, Booting
  <2>4. PrunedOK'
    BY <2>1, <2>2 DEF PrunedOK
  <2> QED BY <2>3, <2>4
<1>3. CASE Leave \/ PowerLoss
  <2>1. UNCHANGED <<journal, files, pg>> /\ child' = NoChild /\ sup'.pc = "down"
    BY <1>1, <1>3 DEF Leave, PowerLoss, Exited, supFrame
  <2>2. JournalOK' /\ RunOK' /\ PrunedOK'
    BY <2>1, NoChildFacts DEF FilesInv, JournalOK, RunOK, PrunedOK, OnDisk, Booting
  <2> QED BY <2>2
<1>4. CASE PreflightPassed
  <2>1. /\ UNCHANGED <<files, pg>> /\ child.pc = "exit76" /\ child' = NoChild /\ sup'.pc = "choose"
        /\ journal' = [journal EXCEPT !.schema = FALSE, !.phase = "staged"]
    BY <1>1, <1>4 DEF PreflightPassed, Exited, supFrame, SaveState
  <2>2. /\ journal'.phase = "staged" /\ ~journal'.schema /\ journal'.snap = journal.snap
        /\ journal'.cand = journal.cand /\ journal'.target = journal.target /\ journal'.prev = journal.prev
    BY <1>1, <2>1 DEF Journal
  <2>3. journal.phase = "promoted" /\ CandidatePhase'
    BY <2>1, <2>2 DEF FilesInv, RunOK, CandidatePhase
  <2>4. JournalOK'
    BY <2>1, <2>2, <2>3 DEF FilesInv, JournalOK, OnDisk, Shipping
  <2>5. RunOK'
    BY <2>1, NoChildFacts DEF RunOK, Booting
  <2>6. PrunedOK'
    BY <2>1, <2>2, <2>3, NoChildFacts DEF PrunedOK
  <2> QED BY <2>4, <2>5, <2>6
<1> QED BY <1>2, <1>3, <1>4

LEMMA FilesStep == FilesInv /\ [ReleaseNext]_releaseVars => FilesInv'
<1> SUFFICES ASSUME FilesInv, [ReleaseNext]_releaseVars PROVE FilesInv'
  OBVIOUS
<1>1. ReleaseTypeOK'
  BY TypesStep DEF FilesInv
<1>2. CASE UNCHANGED releaseVars
  <2>1. UNCHANGED <<journal, files, sup, pg, child>>
    BY <1>2 DEF releaseVars
  <2> QED BY <1>1, <2>1, NothingStarts DEF FilesInv
<1>3. CASE ReleaseNext
  <2>1. JournalOK' /\ RunOK' /\ PrunedOK'
    BY <1>3, QuietSteps, BootKeepsFiles, MarkKeepsFiles, ListenKeepsFiles, FailureKeepsFiles, SavesKeepFiles,
       ChoiceKeepsFiles, UpdateKeepsFiles, FailedKeepsFiles, SupervisorKeepsFiles
    DEF ReleaseNext, ChildStep, UpdateStep, SupervisorStep
  <2> QED BY <1>1, <2>1 DEF FilesInv
<1> QED BY <1>2, <1>3

LEMMA FilesInvKeeps == FilesInv => FallbackKept
BY DEF FilesInv, JournalOK, RunOK, FallbackKept, CandidatePhase, Shipping

(* No clean-up of the release directory, in whatever order deploys,         *)
(* restarts, failures and crashes come, takes the binary that runs, the one *)
(* the journal would start next, or the one a candidate falls back to.      *)
THEOREM FallbackKeptAlways == ReleaseSpec => []FallbackKept
<1>1. ReleaseInit => FilesInv
  BY TypesStart, FilesStart DEF FilesInv
<1>2. FilesInv /\ [ReleaseNext]_releaseVars => FilesInv'
  BY FilesStep
<1>3. FilesInv => FallbackKept
  BY FilesInvKeeps
<1> QED BY <1>1, <1>2, <1>3, PTL DEF ReleaseSpec

----------------------------------------------------------------------------
(* No write is lost.                                                       *)

LEMMA WritesStart == ReleaseInit => WritesOK
BY DEF ReleaseInit, WritesOK, WritesKept, PutBack, Serving, NoJournal

(* The migrations change the revisions, not what users wrote.               *)
LEMMA MigrationsKeepData ==
    ASSUME ReleaseTypeOK, NEW revs, SetRevs(revs)
    PROVE  db'.data = db.data
BY DEF ReleaseTypeOK, DataTyped, Database, SetRevs

LEMMA NobodyWrites ==
    ASSUME WritesOK, db'.data = db.data, UNCHANGED <<snap, acked, undone>>,
           PutBack' => PutBack,
           Serving' => (journal'.snap => ~CandidatePhase' /\ (child'.cand => journal'.phase = "promoted"))
    PROVE  WritesOK'
<1>1. WritesKept'
  BY DEF WritesOK, WritesKept
<1>2. PutBack' => undone' \/ snap'.data = acked'
  BY DEF WritesOK
<1> QED BY <1>1, <1>2 DEF WritesOK

LEMMA ChildKeepsWrites ==
    ASSUME FilesInv, WritesOK,
           \/ Boot \/ MarkMigrating \/ MarkStarting \/ Plan \/ Down \/ Up
           \/ Shutdown \/ StartupFails \/ Crash \/ Stop
           \/ DeployFails \/ DeployArms \/ RestartArms
           \/ \E b \in Build : DeployBegins(b)
    PROVE  WritesOK'
<1>1. child \in Child /\ journal \in Journal
  BY DEF FilesInv, ReleaseTypeOK, FilesTyped, ProcessesTyped
<1>2. UNCHANGED <<snap, acked, undone, sup>>
  BY DEF Boot, MarkMigrating, MarkStarting, Plan, Down, Up, Shutdown, StartupFails, Crash, Stop,
         DeployFails, DeployArms, RestartArms, DeployBegins, rest, updFrame
<1>3. db'.data = db.data
  <2>1. CASE Down \/ Up
    <3>1. UNCHANGED db \/ \E revs : SetRevs(revs)
      BY <2>1 DEF Down, Up
    <3> QED BY <3>1, MigrationsKeepData DEF FilesInv
  <2>2. CASE ~(Down \/ Up)
    BY <2>2 DEF Boot, MarkMigrating, MarkStarting, Plan, Shutdown, StartupFails, Crash, Stop,
         DeployFails, DeployArms, RestartArms, DeployBegins, rest, updFrame
  <2> QED BY <2>1, <2>2
<1>4. CASE MarkMigrating \/ MarkStarting
  <2>1. child'.pc # "serving"
    BY <1>1, <1>4 DEF MarkMigrating, MarkStarting, Goto, Child
  <2>2. journal' = journal \/ (CandidatePhase /\ journal'.snap = journal.snap)
    <3>1. PICK phase \in {"migrating", "starting"} : Mark(phase)
      BY <1>4 DEF MarkMigrating, MarkStarting
    <3>2. journal' = journal \/ (CandidatePhase /\ journal' = [journal EXCEPT !.phase = phase])
      BY <3>1, Zenon DEF Mark, Active, SaveState
    <3> QED BY <1>1, <3>2 DEF Journal
  <2>3. PutBack' => PutBack
    BY <1>2, <2>2 DEF PutBack, CandidatePhase
  <2> QED BY <1>2, <1>3, <2>1, <2>3, NobodyWrites DEF Serving
<1>5. CASE ~(MarkMigrating \/ MarkStarting)
  <2>1. UNCHANGED journal
    BY <1>5 DEF Boot, Plan, Down, Up, Shutdown, StartupFails, Crash, Stop,
         DeployFails, DeployArms, RestartArms, DeployBegins, rest, updFrame
  <2>2. child'.pc = "serving" => child' = child
    <3>1. CASE Plan \/ Down
      BY <1>1, <3>1 DEF Plan, Down, Goto, Child, At
    <3>2. CASE Up
      BY <1>1, <3>2 DEF Up, Goto, Child
    <3>3. CASE Boot \/ Shutdown \/ StartupFails \/ Crash \/ Stop
      BY <1>1, <3>3 DEF Boot, Shutdown, StartupFails, Crash, Stop, Goto, Child
    <3>4. CASE DeployFails \/ DeployArms \/ RestartArms \/ \E b \in Build : DeployBegins(b)
      BY <3>4 DEF DeployFails, DeployArms, RestartArms, DeployBegins
    <3> QED BY <1>5, <3>1, <3>2, <3>3, <3>4
  <2>3. PutBack' => PutBack
    BY <1>2, <2>1 DEF PutBack, CandidatePhase
  <2>4. Serving' => (journal'.snap => ~CandidatePhase' /\ (child'.cand => journal'.phase = "promoted"))
    BY <2>1, <2>2 DEF WritesOK, Serving, CandidatePhase
  <2> QED BY <1>2, <1>3, <2>3, <2>4, NobodyWrites
<1> QED BY <1>4, <1>5

LEMMA ListenKeepsWrites ==
    ASSUME FilesInv, WritesOK, Listen
    PROVE  WritesOK'
<1>1. /\ child \in Child /\ journal \in Journal /\ child.pc = "listen"
      /\ UNCHANGED <<snap, acked, undone, sup, db>> /\ MarkPromoted
  BY DEF FilesInv, ReleaseTypeOK, FilesTyped, ProcessesTyped, Listen, At, rest
<1>2. child'.cand = child.cand
  BY <1>1 DEF Listen, Goto, Child
<1>3. child.cand <=> CandidatePhase
  BY <1>1 DEF FilesInv, RunOK, Booting
<1>4. CASE Active(child.build)
  <2>1. journal' = [journal EXCEPT !.phase = "promoted", !.succ = Appended(@, journal.id, journal.cand)]
    BY <1>1, <1>4, Zenon DEF MarkPromoted, SaveState
  <2>2. journal'.phase = "promoted"
    BY <1>1, <2>1 DEF Journal
  <2>3. ~PutBack' /\ ~CandidatePhase'
    BY <2>2 DEF PutBack, CandidatePhase
  <2> QED BY <1>1, <2>2, <2>3, NobodyWrites
<1>5. CASE ~Active(child.build)
  <2>1. journal' = journal
    BY <1>1, <1>5, Zenon DEF MarkPromoted
  <2>2. ~child.cand /\ ~CandidatePhase
    <3>1. CandidatePhase => journal.cand \in Build /\ NoBuild \notin Build
      BY BuildsAreNumbers DEF FilesInv, JournalOK, CandidatePhase
    <3>2. child.cand => child.build = journal.target
      BY <1>1 DEF FilesInv, RunOK, Booting
    <3> QED BY <1>3, <1>5, <3>1, <3>2 DEF Active
  <2>3. PutBack' => PutBack
    BY <1>1, <2>1 DEF PutBack, CandidatePhase
  <2>4. ~CandidatePhase' /\ ~child'.cand
    BY <1>2, <2>1, <2>2 DEF CandidatePhase
  <2> QED BY <1>1, <2>3, <2>4, NobodyWrites
<1> QED BY <1>4, <1>5

LEMMA FailureKeepsWrites ==
    ASSUME FilesInv, WritesOK, StartupFailure
    PROVE  WritesOK'
<1>1. /\ UNCHANGED <<sup, snap, acked, undone>> /\ child.pc = "failed" /\ journal'.snap = journal.snap
      /\ IF Targeted THEN journal'.phase \in {"failed", "needs_manual_recovery"} ELSE journal' = journal
      /\ child'.pc # "serving"
  BY FailureEffect
<1>2. db'.data = db.data
  <2>1. UNCHANGED db \/ SetRevs(RolledBack(Own.revs))
    BY Zenon DEF StartupFailure
  <2> QED BY <2>1, MigrationsKeepData DEF FilesInv
<1>3. sup.cand => CandidatePhase
  BY <1>1 DEF FilesInv, RunOK, Booting
<1>4. PutBack' => PutBack
  <2>1. CASE Targeted
    <3>1. ~CandidatePhase'
      BY <1>1, <2>1 DEF CandidatePhase
    <3> QED BY <1>1, <1>3, <3>1 DEF PutBack, CandidatePhase
  <2>2. CASE ~Targeted
    BY <1>1, <2>2 DEF PutBack, CandidatePhase
  <2> QED BY <2>1, <2>2
<1> QED BY <1>1, <1>2, <1>4, NobodyWrites DEF Serving

LEMMA ServeKeepsWrites ==
    ASSUME FilesInv, WritesOK, Write \/ DeploySaves \/ RestartSaves
    PROVE  WritesOK'
<1>1. CASE Write
  <2>1. /\ db' = [db EXCEPT !.data = @ + 1] /\ acked' = acked + 1 /\ Serving
        /\ UNCHANGED <<snap, undone, sup, journal, child>> /\ db \in Database
    BY <1>1 DEF Write, FilesInv, ReleaseTypeOK, DataTyped
  <2>2. WritesKept'
    <3>1. db'.data = db.data + 1
      BY <2>1 DEF Database
    <3> QED BY <2>1, <3>1 DEF WritesOK, WritesKept
  <2>3. child.pc # "none" /\ child.cand = sup.cand
    BY <2>1 DEF Serving, FilesInv, RunOK
  <2>4. ~PutBack
    BY <2>1, <2>3 DEF PutBack, WritesOK
  <2>5. ~PutBack'
    BY <2>1, <2>4 DEF PutBack, CandidatePhase
  <2> QED BY <2>1, <2>2, <2>5 DEF WritesOK, Serving, CandidatePhase
<1>2. CASE DeploySaves \/ RestartSaves
  <2>1. UNCHANGED <<db, snap, acked, undone>> /\ ~journal'.snap
    BY <1>2, SavedEffect DEF FilesInv
  <2> QED BY <2>1, NobodyWrites DEF PutBack
<1> QED BY <1>1, <1>2

LEMMA SupervisorKeepsWrites ==
    ASSUME FilesInv, WritesOK, SupervisorStep \/ PowerLoss
    PROVE  WritesOK'
<1>1. journal \in Journal /\ sup \in [pc : {"down", "choose", "wait"}, cur : Build, cand : BOOLEAN]
  BY DEF FilesInv, ReleaseTypeOK, FilesTyped, ProcessesTyped
<1>2. CASE Start \/ Leave \/ PowerLoss
  <2>1. UNCHANGED <<journal, db, snap, acked, undone>> /\ sup'.pc # "wait"
    BY <1>1, <1>2 DEF Start, Leave, PowerLoss, supFrame
  <2>2. child'.pc = "none"
    <3>1. CASE Start
      BY <3>1 DEF Start, FilesInv, RunOK
    <3>2. CASE Leave \/ PowerLoss
      BY <3>2, NoChildFacts DEF Leave, PowerLoss, Exited
    <3> QED BY <1>2, <3>1, <3>2
  <2>3. PutBack' => PutBack
    BY <2>1 DEF PutBack, CandidatePhase
  <2> QED BY <2>1, <2>2, <2>3, NobodyWrites DEF Serving
<1>3. CASE Choose
  <2>1. /\ sup.pc = "choose" /\ UNCHANGED <<journal, db, snap, undone, acked>>
        /\ \/ (sup'.cand <=> CandidatePhase) /\ child'.pc = "boot"
           \/ sup'.pc = "down" /\ child' = child
    BY <1>3, ChoiceEffect
  <2>2. child'.pc # "serving"
    BY <2>1 DEF FilesInv, RunOK
  <2>3. PutBack' => PutBack
    BY <2>1 DEF PutBack, CandidatePhase
  <2> QED BY <2>1, <2>2, <2>3, NobodyWrites DEF Serving
<1>4. CASE PreflightPassed
  <2>1. /\ UNCHANGED <<db, snap, undone, acked>> /\ child.pc = "exit76" /\ child' = NoChild
        /\ journal' = [journal EXCEPT !.schema = FALSE, !.phase = "staged"]
    BY <1>4 DEF PreflightPassed, Exited, supFrame, SaveState
  <2>2. ~journal.snap /\ journal'.snap = journal.snap
    BY <1>1, <2>1 DEF FilesInv, RunOK, JournalOK, Journal
  <2> QED BY <2>1, <2>2, NobodyWrites DEF PutBack
<1>5. CASE UpdateRequested
  <2>1. /\ child.pc = "exit75" /\ sup.pc = "wait" /\ child' = NoChild /\ UNCHANGED <<db, undone, pg, acked>>
        /\ \/ sup'.pc = "down" /\ UNCHANGED <<journal, snap>>
           \/ /\ sup'.pc = "choose" /\ snap' = (IF ~pg /\ ~journal.snap THEN db ELSE snap)
              /\ journal'.phase = journal.phase /\ (journal'.snap <=> journal.snap \/ ~pg)
    BY <1>5, UpdateEffect
  <2>2. WritesKept' /\ ~Serving'
    BY <2>1, NoChildFacts DEF WritesOK, WritesKept, Serving
  <2>3. PutBack' => undone' \/ snap'.data = acked'
    <3>1. CASE sup'.pc = "down" /\ UNCHANGED <<journal, snap>>
      BY <2>1, <3>1 DEF WritesOK, PutBack, CandidatePhase
    <3>2. CASE /\ sup'.pc = "choose" /\ snap' = (IF ~pg /\ ~journal.snap THEN db ELSE snap)
               /\ journal'.phase = journal.phase /\ (journal'.snap <=> journal.snap \/ ~pg)
      <4>1. CASE ~pg /\ ~journal.snap
        BY <2>1, <3>2, <4>1 DEF WritesOK, WritesKept
      <4>2. CASE ~(~pg /\ ~journal.snap)
        <5>1. snap' = snap /\ (journal'.snap <=> journal.snap)
          BY <3>2, <4>2 DEF FilesInv, JournalOK
        <5>2. PutBack' => PutBack
          BY <3>2, <5>1 DEF PutBack, CandidatePhase
        <5> QED BY <2>1, <5>1, <5>2 DEF WritesOK
      <4> QED BY <4>1, <4>2
    <3> QED BY <2>1, <3>1, <3>2
  <2> QED BY <2>2, <2>3 DEF WritesOK
<1>6. CASE ChildFailed
  <2>1. /\ sup.pc = "wait" /\ child' = NoChild /\ UNCHANGED <<pg, acked>>
        /\ journal'.snap = journal.snap
        /\ \/ sup'.pc = "down" /\ journal' = journal
           \/ sup.cand /\ sup'.pc = "choose" /\ journal'.phase = "failed"
    BY <1>6, FailedEffect
  <2>2. \/ ~sup.cand /\ UNCHANGED <<journal, db, snap, undone>>
        \/ /\ sup.cand /\ db' = Restored
           /\ (undone' <=> undone \/ (journal.phase = "promoted" /\ ~pg))
           /\ snap' = IF journal.snap THEN NoDb ELSE snap
    BY <1>6 DEF ChildFailed
  <2>3. ~Serving'
    BY <2>1, NoChildFacts DEF Serving
  <2>4. CASE ~sup.cand /\ UNCHANGED <<journal, db, snap, undone>>
    <3>1. PutBack' => PutBack
      BY <2>1, <2>4 DEF PutBack, CandidatePhase
    <3> QED BY <2>1, <2>3, <2>4, <3>1, NobodyWrites
  <2>5. CASE /\ sup.cand /\ db' = Restored
             /\ (undone' <=> undone \/ (journal.phase = "promoted" /\ ~pg))
             /\ snap' = IF journal.snap THEN NoDb ELSE snap
    <3>1. ~PutBack'
      BY <2>1, <2>5 DEF PutBack
    <3>2. WritesKept'
      <4>1. CASE journal.snap /\ snap # NoDb
        <5>1. ~pg /\ db' = snap
          BY <2>5, <4>1 DEF FilesInv, JournalOK, Restored
        <5>2. CASE journal.phase = "promoted"
          BY <2>5, <5>1, <5>2 DEF WritesKept
        <5>3. CASE journal.phase # "promoted"
          <6>1. PutBack
            BY <2>1, <2>5, <4>1, <5>3 DEF PutBack
          <6> QED BY <2>1, <2>5, <5>1, <6>1 DEF WritesOK, WritesKept
        <5> QED BY <5>2, <5>3
      <4>2. CASE ~(journal.snap /\ snap # NoDb)
        <5>1. db' = db
          BY <2>5, <4>2 DEF Restored
        <5> QED BY <2>1, <2>5, <5>1 DEF WritesOK, WritesKept
      <4> QED BY <4>1, <4>2
    <3> QED BY <2>3, <3>1, <3>2 DEF WritesOK
  <2> QED BY <2>2, <2>4, <2>5
<1> QED BY <1>2, <1>3, <1>4, <1>5, <1>6 DEF SupervisorStep

LEMMA WritesStep == FilesInv /\ WritesOK /\ [ReleaseNext]_releaseVars => WritesOK'
<1> SUFFICES ASSUME FilesInv, WritesOK, [ReleaseNext]_releaseVars PROVE WritesOK'
  OBVIOUS
<1>1. CASE UNCHANGED releaseVars
  BY <1>1 DEF WritesOK, WritesKept, PutBack, Serving, CandidatePhase, releaseVars
<1>2. CASE ReleaseNext
  BY <1>2, ChildKeepsWrites, ListenKeepsWrites, FailureKeepsWrites, ServeKeepsWrites, SupervisorKeepsWrites
  DEF ReleaseNext, ChildStep, UpdateStep
<1> QED BY <1>1, <1>2

(* A candidate that fails before it is promoted costs no user a write: the    *)
(* checkpoint that is put back is never older than the last one.            *)
THEOREM WritesKeptAlways == ReleaseSpec => []WritesKept
<1>1. ReleaseInit => FilesInv /\ WritesOK
  BY TypesStart, FilesStart, WritesStart DEF FilesInv
<1>2. (FilesInv /\ WritesOK) /\ [ReleaseNext]_releaseVars => (FilesInv /\ WritesOK)'
  BY FilesStep, WritesStep
<1>3. FilesInv /\ WritesOK => WritesKept
  BY DEF WritesOK
<1> QED BY <1>1, <1>2, <1>3, PTL DEF ReleaseSpec

----------------------------------------------------------------------------
(* The schema of the server that serves.                                   *)

Migrating == {"down", "up", "starting", "listen", "serving"}

LEMMA NothingMigrates == child'.pc \notin Migrating => SchemaOK'
BY DEF SchemaOK, Migrating, Serving

LEMMA OwnTyped ==
    ASSUME ReleaseTypeOK
    PROVE  Own.revs \in Seq(Revision) /\ child.build \in Build /\ child \in Child
BY DEF ReleaseTypeOK, Own, DataTyped, Database, ProcessesTyped, Child

(* A step of the migrations.                                               *)
LEMMA MigrationKeepsSchema ==
    ASSUME FilesInv, SchemaOK, Plan \/ Down \/ Up
    PROVE  SchemaOK'
<1>1. Own.revs \in Seq(Revision) /\ child.build \in Build /\ child \in Child
  BY OwnTyped DEF FilesInv
<1>2. /\ db \in Database /\ shadow \in Database
  BY DEF FilesInv, ReleaseTypeOK, DataTyped
<1> DEFINE revs == Own.revs
           b == child.build
<1>3. CASE Plan
  <2>1. /\ UNCHANGED <<db, shadow>> /\ child'.pre = child.pre /\ child'.build = child.build
        /\ child'.pc = "failed" \/ (child'.pc = "down" /\ child'.todo = Beyond(revs, b))
    <3> DEFINE todo == Beyond(revs, b)
    <3>1. \/ child' = [child EXCEPT !.pc = "down", !.todo = todo]
          \/ child' = [child EXCEPT !.pc = "failed"]
      BY <1>3 DEF Plan
    <3>2. UNCHANGED <<db, shadow>>
      BY <1>3 DEF Plan
    <3> HIDE DEF todo
    <3>3. /\ child'.pre = child.pre /\ child'.build = child.build
          /\ child'.pc = "failed" \/ (child'.pc = "down" /\ child'.todo = todo)
      BY <1>1, <3>1 DEF Child
    <3> QED BY <3>2, <3>3 DEF todo
  <2>2. Own' = Own
    BY <2>1 DEF Own
  <2> QED BY <2>1, <2>2 DEF SchemaOK, Serving
<1>4. CASE Down
  <2>1. child.pc = "down" /\ child.todo = Beyond(revs, b)
    BY <1>4 DEF Down, At, SchemaOK
  <2>2. CASE child.todo = <<>>
    <3>1. UNCHANGED <<db, shadow>> /\ Goto("up")
      BY <1>4, <2>2 DEF Down
    <3>2. child'.pc = "up" /\ child'.build = child.build /\ child'.pre = child.pre
      BY <1>1, <3>1 DEF Goto, Child
    <3>3. Own' = Own
      BY <3>1, <3>2 DEF Own
    <3> QED BY <2>1, <2>2, <3>2, <3>3 DEF SchemaOK, Serving
  <2>3. CASE child.todo # <<>>
    <3> DEFINE more == Tail(child.todo)
               fewer == SubSeq(revs, 1, Len(revs) - 1)
    <3>1. child' = [child EXCEPT !.todo = more] /\ SetRevs(fewer)
      BY <1>4, <2>3 DEF Down
    <3>2. fewer \in Seq(Revision) /\ Beyond(fewer, b) = more
      <4>1. Beyond(revs, b) # <<>>
        BY <2>1, <2>3
      <4> HIDE DEF revs, b
      <4>2. /\ SubSeq(revs, 1, Len(revs) - 1) \in Seq(Revision)
            /\ Beyond(SubSeq(revs, 1, Len(revs) - 1), b) = Tail(Beyond(revs, b))
        BY <1>1, <4>1, DownRemoves DEF revs, b
      <4> QED BY <2>1, <4>2
    <3> HIDE DEF more, fewer
    <3>3. child'.pc = "down" /\ child'.todo = more /\ child'.build = child.build /\ child'.pre = child.pre
      BY <1>1, <2>1, <3>1 DEF Child
    <3>4. Own'.revs = fewer
      <4>1. IF child.pre THEN shadow'.revs = fewer ELSE db'.revs = fewer
        BY <1>2, <3>1, <3>2, SetRevsTyped
      <4> QED BY <3>3, <4>1 DEF Own
    <3> QED BY <3>2, <3>3, <3>4 DEF SchemaOK, Serving
  <2> QED BY <2>2, <2>3
<1>5. CASE Up
  <2>1. child.pc = "up" /\ Beyond(revs, b) = <<>>
    BY <1>5 DEF Up, At, SchemaOK
  <2>2. CASE Pending(revs, b)
    <3> DEFINE next == Append(revs, Rev(NextUp(revs, b), Render))
    <3>1. child' = child /\ SetRevs(next)
      BY <1>5, <2>2 DEF Up
    <3>2. next \in Seq(Revision) /\ Beyond(next, b) = <<>>
      <4>1. Render \in {"public", "shadow"}
        BY DEF Render
      <4> HIDE DEF revs, b
      <4> QED BY <1>1, <2>1, <2>2, <4>1, UpAppends DEF revs, b
    <3> HIDE DEF next
    <3>3. Own'.revs = next
      <4>1. IF child.pre THEN shadow'.revs = next ELSE db'.revs = next
        BY <1>2, <3>1, <3>2, SetRevsTyped
      <4> QED BY <3>1, <4>1 DEF Own
    <3> QED BY <2>1, <3>1, <3>2, <3>3 DEF SchemaOK, Serving
  <2>3. CASE ~Pending(revs, b)
    <3>1. UNCHANGED <<db, shadow>> /\ Goto("starting")
      BY <1>5, <2>3 DEF Up
    <3>2. child'.pc = "starting" /\ child'.build = child.build /\ child'.pre = child.pre
      BY <1>1, <3>1 DEF Goto, Child
    <3>3. Own' = Own
      BY <3>1, <3>2 DEF Own
    <3> QED BY <2>1, <2>3, <3>2, <3>3 DEF SchemaOK, Serving
  <2> QED BY <2>2, <2>3
<1> QED BY <1>3, <1>4, <1>5

LEMMA SchemaStep == FilesInv /\ SchemaOK /\ [ReleaseNext]_releaseVars => SchemaOK'
<1> SUFFICES ASSUME FilesInv, SchemaOK, [ReleaseNext]_releaseVars PROVE SchemaOK'
  OBVIOUS
<1>1. child \in Child /\ db \in Database /\ (child.pc = "none" <=> sup.pc # "wait")
  BY DEF FilesInv, ReleaseTypeOK, ProcessesTyped, DataTyped, RunOK
<1>2. CASE \/ UNCHANGED releaseVars
           \/ DeployFails \/ DeployArms \/ RestartArms \/ DeploySaves \/ RestartSaves
           \/ \E b \in Build : DeployBegins(b)
  <2>1. UNCHANGED <<child, db, shadow>>
    BY <1>2 DEF releaseVars, DeployFails, DeployArms, RestartArms, DeploySaves, RestartSaves, DeployBegins, updFrame
  <2>2. Own' = Own
    BY <2>1 DEF Own
  <2> QED BY <2>1, <2>2 DEF SchemaOK, Serving
<1>3. CASE Write
  <2>1. child' = child /\ Serving /\ db' = [db EXCEPT !.data = @ + 1]
    BY <1>3 DEF Write
  <2>2. db'.revs = db.revs
    BY <1>1, <2>1 DEF Database
  <2>3. ~child.pre
    BY <2>1 DEF SchemaOK
  <2>4. Own'.revs = Own.revs
    BY <2>1, <2>2, <2>3 DEF Own
  <2> QED BY <2>1, <2>4 DEF SchemaOK, Serving
<1>4. CASE Plan \/ Down \/ Up
  BY <1>4, MigrationKeepsSchema
<1>5. CASE MarkStarting \/ Listen
  <2>1. /\ UNCHANGED <<db, shadow>> /\ child.pc \in {"starting", "listen"}
        /\ \/ Goto("listen") \/ Goto("exit76") \/ (~child.pre /\ Goto("serving"))
    BY <1>5 DEF MarkStarting, Listen, At, rest
  <2>2. /\ child'.build = child.build /\ child'.pre = child.pre
        /\ child'.pc \in {"listen", "exit76"} \/ (~child.pre /\ child'.pc = "serving")
    BY <1>1, <2>1 DEF Goto, Child
  <2>3. Own' = Own
    BY <2>1, <2>2 DEF Own
  <2> QED BY <2>1, <2>2, <2>3 DEF SchemaOK, Serving
<1>6. CASE Boot \/ MarkMigrating \/ StartupFails \/ Crash \/ Shutdown \/ Stop
  <2>1. child'.pc \in {"mark", "plan", "failed", "exit1", "exit75", "exit0"}
    BY <1>1, <1>6 DEF Boot, MarkMigrating, StartupFails, Crash, Shutdown, Stop, Goto, Child
  <2> QED BY <2>1, NothingMigrates DEF Migrating
<1>7. CASE StartupFailure
  <2>1. child'.pc \in {"exit1", "boot"}
    BY <1>7, FailureEffect
  <2> QED BY <2>1, NothingMigrates DEF Migrating
<1>8. CASE SupervisorStep \/ PowerLoss
  <2>1. CASE Start
    BY <1>1, <2>1, NothingMigrates DEF Start, Migrating
  <2>2. CASE Choose
    <3>1. sup.pc = "choose" /\ (child'.pc = "boot" \/ child' = child)
      BY <2>2, ChoiceEffect
    <3> QED BY <1>1, <3>1, NothingMigrates DEF Migrating
  <2>3. CASE Leave \/ PreflightPassed \/ UpdateRequested \/ ChildFailed \/ PowerLoss
    <3>1. child' = NoChild
      BY <2>3 DEF Leave, PreflightPassed, UpdateRequested, ChildFailed, PowerLoss, Exited
    <3> QED BY <3>1, NoChildFacts, NothingMigrates DEF Migrating
  <2> QED BY <1>8, <2>1, <2>2, <2>3 DEF SupervisorStep
<1> QED BY <1>2, <1>3, <1>4, <1>5, <1>6, <1>7, <1>8 DEF ReleaseNext, ChildStep, UpdateStep

(* A server that serves has exactly the migrations of its build: no step of   *)
(* rolling back or applying one, on the database or its shadow copy, and no *)
(* failure between two of them lets another build serve what is left.       *)
THEOREM ServesOwnSchemaAlways == ReleaseSpec => []ServesOwnSchema
<1>1. ReleaseInit => FilesInv /\ SchemaOK
  <2>1. ReleaseInit => SchemaOK
    BY DEF ReleaseInit, SchemaOK, NoChild, Serving
  <2> QED BY <2>1, TypesStart, FilesStart DEF FilesInv
<1>2. (FilesInv /\ SchemaOK) /\ [ReleaseNext]_releaseVars => (FilesInv /\ SchemaOK)'
  BY FilesStep, SchemaStep
<1>3. FilesInv /\ SchemaOK => ServesOwnSchema
  BY DEF SchemaOK, ServesOwnSchema, Serving, Own
<1> QED BY <1>1, <1>2, <1>3, PTL DEF ReleaseSpec

----------------------------------------------------------------------------
(* The import of a team's archive.                                         *)

RowFields == {"id", "key", "up", "par", "file"}

(* Ids are given out one after the other, and no row is removed.            *)
TableOK(R) ==
    /\ \A r \in R : DOMAIN r = RowFields
    /\ \A r, s \in R : r.id = s.id => r = s
    /\ IsFiniteSet(Ids(R)) /\ Ids(R) = 1..Cardinality(Ids(R))
DatabaseOK(D) == DOMAIN D = Table /\ \A t \in Table : TableOK(D[t])

(* A name on the disk begins with the time of the upload.                   *)
DiskOK(D) == \A f \in D : DOMAIN f = {"task", "name", "data"} /\ f.data = f.name
Upload(a) == [task |-> a.up, name |-> a.file.name, data |-> a.file.name]

(* What users made, before anything was imported.                          *)
NativeOK ==
    /\ \A t \in rows["tasks"] : t.par = 0 \/ \E p \in rows["tasks"] : p.id = t.par /\ p.up = t.up
    /\ \A a \in rows["attachments"] : Upload(a) \in disk

(* An archive is closed under references, and has the uploads.              *)
ArchiveOK ==
    /\ DOMAIN archive.rows = Table
    /\ \A t \in Table :
        /\ \A r \in archive.rows[t] : DOMAIN r = RowFields
        /\ \A r, s \in archive.rows[t] : r.id = s.id => r = s
        /\ Ids(archive.rows[t]) \subseteq Nat /\ \E n \in Nat : Ids(archive.rows[t]) \subseteq 1..n
        /\ t # "companies" => \A r \in archive.rows[t] : r.up \in Ids(archive.rows[Parents(t)])
    /\ \A t \in archive.rows["tasks"] : t.par = 0 \/ t.par \in Ids(archive.rows["tasks"])
    /\ DiskOK(archive.disk) /\ \A a \in archive.rows["attachments"] : Upload(a) \in archive.disk

Done(i, r) == i \in DOMAIN Order /\ r \in archive.rows[Order[i]] /\ <<i, r>> \notin imp.todo
Precedes(i, r, q) == i < q[1] \/ (i = q[1] /\ r.id < q[2].id)

(* A row of the archive that went in has its row, with its references.      *)
Follows(t, r, x) ==
    /\ x.id = imp.map[t][r.id] /\ x.up = UpImage(t, r)
    /\ x.key = r.key \/ (t = "companies" /\ <<t, x.id>> \in imp.fresh)
    /\ t = "tasks" /\ <<t, x.id>> \in imp.fresh /\ r.par # 0 /\ r.par < r.id => x.par = imp.map[t][r.par]
Placed(t, r) ==
    /\ t = "comments" \/ r.id \in DOMAIN imp.map[t]
    /\ r.id \in DOMAIN imp.map[t] => \E x \in imp.rows[t] : Follows(t, r, x)

RowsOK ==
    /\ DatabaseOK(imp.rows)
    /\ \A q \in imp.todo :
        /\ q = <<q[1], q[2]>> /\ q[1] \in DOMAIN Order /\ q[2] \in archive.rows[Order[q[1]]]
        /\ q[2].id \notin DOMAIN imp.map[Order[q[1]]]
    /\ \A i \in DOMAIN Order : \A r \in archive.rows[Order[i]] : Done(i, r) =>
        /\ \A q \in imp.todo : Precedes(i, r, q)
        /\ Placed(Order[i], r)

ImportFields == {"pc", "team", "todo", "rows", "map", "fresh"}
TenantInv ==
    /\ DatabaseOK(rows) /\ DiskOK(disk) /\ ArchiveOK
    /\ imports \in Nat /\ (imports = 0 => NativeOK) /\ (~Resting => imports # 0)
    /\ DOMAIN imp = ImportFields /\ DOMAIN imp.map = Table
    /\ imp.pc = "rows" => RowsOK
    /\ imp.pc = "files" => RowsFollow /\ PathsFollow
    /\ imp.pc = "done" => PathsFollow /\ FilesFollow

LEMMA TablesAre ==
    /\ Table = {"companies", "tasks", "runs", "comments", "attachments"} /\ DOMAIN Order = 1..5
    /\ Order[1] = "companies" /\ Order[2] = "tasks" /\ Order[3] = "runs" /\ Order[4] = "comments" /\ Order[5] = "attachments"
<1>2. DOMAIN Order = 1..5
  BY DEF Order
<1>3. Order[1] = "companies" /\ Order[2] = "tasks" /\ Order[3] = "runs" /\ Order[4] = "comments" /\ Order[5] = "attachments"
  BY DEF Order
<1>4. \A i \in 1..5 : i = 1 \/ i = 2 \/ i = 3 \/ i = 4 \/ i = 5
  OBVIOUS
<1>5. Table = {"companies", "tasks", "runs", "comments", "attachments"}
  BY <1>2, <1>3, <1>4 DEF Table
<1> QED BY <1>2, <1>3, <1>5

LEMMA OrderIs ==
    /\ \A i \in DOMAIN Order : i \in Nat /\ Order[i] \in Table
    /\ \A i, j \in DOMAIN Order : Order[i] = Order[j] => i = j
    /\ \A t \in Table : \E i \in DOMAIN Order : Order[i] = t
    /\ \A i \in DOMAIN Order : Order[i] # "companies" =>
          Parents(Order[i]) \in Table \ {"comments"} /\ \E j \in DOMAIN Order : j < i /\ Order[j] = Parents(Order[i])
    /\ \A t \in Table : Parents(t) \in Table
<1>1. \A i \in 1..5 : i = 1 \/ i = 2 \/ i = 3 \/ i = 4 \/ i = 5
  OBVIOUS
<1>2. \A i \in DOMAIN Order : Order[i] # "companies" => \E j \in DOMAIN Order : j < i /\ Order[j] = Parents(Order[i])
  <2>1. \A i \in DOMAIN Order : i = 2 => 1 < i /\ Order[1] = Parents(Order[i])
    BY TablesAre DEF Parents
  <2>2. \A i \in DOMAIN Order : i \in 3..5 => 2 < i /\ Order[2] = Parents(Order[i])
    BY <1>1, TablesAre DEF Parents
  <2> QED BY <1>1, <2>1, <2>2, TablesAre
<1>3. \A t \in Table : Parents(t) \in Table \ {"comments"}
  BY TablesAre DEF Parents
<1> QED BY <1>1, <1>2, <1>3, TablesAre

LEMMA EmptyOK == DatabaseOK(NoArchive.rows) /\ NoArchive.rows = [t \in Table |-> {}]
<1>1. Ids({}) = {}
  BY DEF Ids
<1>2. IsFiniteSet({}) /\ Cardinality({}) = 0
  BY FS_EmptySet
<1>3. 1..0 = {}
  OBVIOUS
<1>4. TableOK({})
  BY <1>1, <1>2, <1>3 DEF TableOK
<1> QED BY <1>4 DEF DatabaseOK, NoArchive

LEMMA FreshId ==
    ASSUME NEW R, TableOK(R)
    PROVE  NextId(R) \in Nat /\ NextId(R) \notin Ids(R) /\ Ids(R) \subseteq Nat
<1>1. Cardinality(Ids(R)) \in Nat
  BY FS_CardinalityType DEF TableOK
<1> QED BY <1>1 DEF TableOK, NextId

LEMMA RowAdded ==
    ASSUME NEW R, TableOK(R), NEW r, DOMAIN r = RowFields, r.id = NextId(R)
    PROVE  TableOK(R \cup {r})
<1> DEFINE S == Ids(R)
           n == Cardinality(S)
<1>1. Ids(R \cup {r}) = S \cup {n + 1}
  <2>1. n \in Nat
    BY FS_CardinalityType DEF TableOK
  <2>2. r.id = n + 1
    BY <2>1 DEF NextId
  <2> QED BY <2>2 DEF Ids
<1>2. IsFiniteSet(S) /\ S = 1..n /\ n \in Nat
  BY FS_CardinalityType DEF TableOK
<1>3. r.id \notin S
  BY FreshId
<1>4. \A x, y \in R \cup {r} : x.id = y.id => x = y
  BY <1>3 DEF TableOK, Ids
<1> HIDE DEF S
<1>5. n + 1 \notin S
  BY <1>2
<1>6. IsFiniteSet(S \cup {n + 1}) /\ Cardinality(S \cup {n + 1}) = n + 1
  BY <1>2, <1>5, FS_AddElement
<1>7. S \cup {n + 1} = 1..(n + 1)
  <2> HIDE DEF n
  <2> QED BY <1>2
<1> QED BY <1>1, <1>4, <1>6, <1>7 DEF TableOK

(* Rows that keep their ids.                                               *)
LEMMA RowsChanged ==
    ASSUME NEW R, TableOK(R), NEW S, Ids(S) = Ids(R),
           \A x \in S : DOMAIN x = RowFields, \A x, y \in S : x.id = y.id => x = y
    PROVE  TableOK(S)
BY DEF TableOK

LEMMA TableReplaced ==
    ASSUME NEW D, DatabaseOK(D), NEW t \in Table, NEW R, TableOK(R)
    PROVE  DatabaseOK([D EXCEPT ![t] = R])
BY DEF DatabaseOK

LEMMA TenantStart == TenantInit => TenantInv
<1> SUFFICES ASSUME TenantInit PROVE TenantInv
  OBVIOUS
<1>1. rows = NoArchive.rows /\ disk = {} /\ archive = NoArchive /\ imp = NoImport /\ imports = 0
  BY EmptyOK DEF TenantInit
<1>2. DOMAIN imp = ImportFields /\ DOMAIN imp.map = Table /\ imp.pc = "idle"
  BY <1>1 DEF NoImport, ImportFields
<1>3. NativeOK
  BY <1>1, EmptyOK, TablesAre DEF NativeOK
<1>4. DiskOK({})
  BY DEF DiskOK
<1>5. ArchiveOK
  <2>1. \A t \in Table : archive.rows[t] = {}
    BY <1>1, EmptyOK
  <2>2. archive.disk = {} /\ DOMAIN archive.rows = Table
    BY <1>1, EmptyOK DEF NoArchive
  <2>3. Ids({}) \subseteq 1..0 /\ 0 \in Nat /\ Ids({}) \subseteq Nat
    BY DEF Ids
  <2> QED BY <1>4, <2>1, <2>2, <2>3, TablesAre DEF ArchiveOK
<1> QED BY <1>1, <1>2, <1>3, <1>4, <1>5, EmptyOK DEF TenantInv, Resting

(* Work: no import is under way.                                           *)
LEMMA NoImportKeeps ==
    ASSUME TenantInv, imp' = NoImport, UNCHANGED imports,
           DatabaseOK(rows'), DiskOK(disk'), ArchiveOK', imports = 0 => NativeOK'
    PROVE  TenantInv'
<1>1. DOMAIN imp' = ImportFields /\ DOMAIN imp'.map = Table /\ imp'.pc = "idle"
  BY DEF NoImport, ImportFields
<1> QED BY <1>1 DEF TenantInv, Resting

LEMMA ArchiveStays == ArchiveOK /\ archive' = archive => ArchiveOK'
BY DEF ArchiveOK

(* A row that is inserted by a user.                                       *)
LEMMA InsertKeeps ==
    ASSUME TenantInv, imp' = NoImport, UNCHANGED <<imports, archive>>, DiskOK(disk'), disk \subseteq disk',
           NEW t \in Table, NEW key, NEW up, NEW par, NEW file, Insert(t, key, up, par, file),
           t = "tasks" => par = 0 \/ \E p \in rows["tasks"] : p.id = par /\ p.up = up,
           t = "attachments" => [task |-> up, name |-> file.name, data |-> file.name] \in disk'
    PROVE  TenantInv'
<1> DEFINE r == Row(NextId(rows[t]), key, up, par, file)
<1>1. rows' = [rows EXCEPT ![t] = rows[t] \cup {r}]
  BY DEF Insert
<1>2. DOMAIN r = RowFields /\ r.id = NextId(rows[t]) /\ r.up = up /\ r.par = par /\ r.file = file
  BY DEF Row, RowFields
<1>3. DatabaseOK(rows) /\ TableOK(rows[t])
  BY DEF TenantInv, DatabaseOK
<1>4. DatabaseOK(rows')
  <2>1. TableOK(rows[t] \cup {r})
    <3> HIDE DEF r
    <3> QED BY <1>2, <1>3, RowAdded
  <2> HIDE DEF r
  <2> QED BY <1>1, <1>3, <2>1, TableReplaced
<1> HIDE DEF r
<1>5. /\ \A u \in Table \ {t} : rows'[u] = rows[u]
      /\ rows'[t] = rows[t] \cup {r}
  BY <1>1, <1>3 DEF DatabaseOK
<1>6. ASSUME NativeOK PROVE NativeOK'
  <2>1. ASSUME NEW x \in rows'["tasks"] PROVE x.par = 0 \/ \E p \in rows'["tasks"] : p.id = x.par /\ p.up = x.up
    <3>1. CASE x \in rows["tasks"]
      BY <1>5, <1>6, <3>1, TablesAre DEF NativeOK
    <3>2. CASE x \notin rows["tasks"]
      BY <1>2, <1>5, <2>1, <3>2, TablesAre
    <3> QED BY <3>1, <3>2
  <2>2. ASSUME NEW a \in rows'["attachments"] PROVE Upload(a) \in disk'
    <3>1. CASE a \in rows["attachments"]
      BY <1>6, <3>1 DEF NativeOK
    <3>2. CASE a \notin rows["attachments"]
      <4>1. a = r /\ t = "attachments"
        BY <1>5, <2>2, <3>2, TablesAre
      <4> QED BY <1>2, <4>1 DEF Upload
    <3> QED BY <3>1, <3>2
  <2>3. UNCHANGED archive
    OBVIOUS
  <2> QED BY <2>1, <2>2 DEF NativeOK, Upload
<1> QED BY <1>4, <1>6, ArchiveStays, NoImportKeeps DEF TenantInv

LEMMA ReparentKeeps ==
    ASSUME TenantInv, NEW t \in rows["tasks"], NEW p \in rows["tasks"], Reparent(t, p)
    PROVE  TenantInv'
<1> DEFINE u == [t EXCEPT !.par = p.id]
           R == (rows["tasks"] \ {t}) \cup {u}
<1>1. /\ rows' = [rows EXCEPT !["tasks"] = R] /\ imp' = NoImport
      /\ UNCHANGED <<disk, archive, imports>> /\ p.up = t.up /\ p.id # t.id
  BY DEF Reparent, Work
<1>2. DatabaseOK(rows) /\ TableOK(rows["tasks"])
  BY TablesAre DEF TenantInv, DatabaseOK
<1>3. DOMAIN u = RowFields /\ u.id = t.id /\ u.up = t.up /\ u.par = p.id
  BY <1>2 DEF TableOK, RowFields
<1>4. p \in R
  BY <1>1
<1> HIDE DEF u
<1>5. DatabaseOK(rows')
  <2>1. Ids(R) = Ids(rows["tasks"])
    BY <1>3 DEF Ids
  <2>2. (\A x \in R : DOMAIN x = RowFields) /\ \A x, y \in R : x.id = y.id => x = y
    BY <1>2, <1>3 DEF TableOK
  <2> HIDE DEF R
  <2> QED BY <1>1, <1>2, <2>1, <2>2, RowsChanged, TableReplaced, TablesAre
<1>6. rows'["tasks"] = R /\ rows'["attachments"] = rows["attachments"]
  BY <1>1, <1>2, TablesAre DEF DatabaseOK
<1>7. ASSUME NativeOK PROVE NativeOK'
  <2>1. ASSUME NEW x \in R PROVE x.par = 0 \/ \E q \in R : q.id = x.par /\ q.up = x.up
    <3>1. CASE x = u
      BY <1>1, <1>3, <1>4, <3>1
    <3>2. CASE x \in rows["tasks"] /\ x.par # 0
      <4>1. PICK q \in rows["tasks"] : q.id = x.par /\ q.up = x.up
        BY <1>7, <3>2 DEF NativeOK
      <4>2. q \in R \/ q = t
        OBVIOUS
      <4> QED BY <1>3, <4>1, <4>2
    <3> QED BY <3>1, <3>2
  <2> QED BY <1>1, <1>6, <1>7, <2>1 DEF NativeOK, Upload
<1> QED BY <1>1, <1>5, <1>7, ArchiveStays, NoImportKeeps DEF TenantInv

LEMMA WorkIsSound ==
    ASSUME TenantInv, NEW t \in rows["tasks"], CreateRun(t) \/ CreateComment(t) \/ \E f \in Files : UploadAttachment(t, f)
    PROVE  TenantInv'
<1>1. DiskOK(disk)
  BY DEF TenantInv
<1>2. CASE CreateRun(t)
  <2> DEFINE n == 1 + Cardinality({r \in rows["runs"] : r.up = t.id})
  <2>1. /\ imp' = NoImport /\ UNCHANGED <<imports, archive, disk>>
        /\ Insert("runs", n, t.id, 0, NoFile)
    BY <1>2 DEF CreateRun, Work
  <2> HIDE DEF n
  <2> QED BY <1>1, <2>1, InsertKeeps, TablesAre
<1>3. CASE CreateComment(t)
  <2>1. /\ imp' = NoImport /\ UNCHANGED <<imports, archive, disk>>
        /\ Insert("comments", 0, t.id, 0, NoFile)
    BY <1>3 DEF CreateComment, Work
  <2> QED BY <1>1, <2>1, InsertKeeps, TablesAre
<1>4. ASSUME NEW name \in Files, UploadAttachment(t, name) PROVE TenantInv'
  <2>0. PICK f : f = work'
    OBVIOUS
  <2> DEFINE path == [task |-> t.id, name |-> f]
             new == [task |-> t.id, name |-> f, data |-> f]
  <2>1. /\ imp' = NoImport /\ UNCHANGED <<imports, archive>>
        /\ Insert("attachments", name, t.id, 0, path) /\ disk' = disk \cup {new}
    BY <1>4, <2>0 DEF UploadAttachment, Work
  <2>2. DiskOK(disk')
    BY <1>1, <2>1 DEF DiskOK
  <2>3. [task |-> t.id, name |-> path.name, data |-> path.name] \in disk'
    BY <2>1
  <2> HIDE DEF path, new
  <2> QED BY <2>1, <2>2, <2>3, InsertKeeps, TablesAre
<1> QED BY <1>2, <1>3, <1>4

LEMMA CreateCompanyIsSound ==
    ASSUME TenantInv, NEW m \in Team, NEW n \in Shorts, CreateCompany(m, n)
    PROVE  TenantInv'
<1> DEFINE key == IF n = 1 THEN <<>> ELSE <<n>>
<1>1. imp' = NoImport /\ UNCHANGED <<imports, archive, disk>> /\ Insert("companies", key, m, 0, NoFile)
  BY DEF CreateCompany, Work
<1> HIDE DEF key
<1> QED BY <1>1, InsertKeeps, TablesAre DEF TenantInv

LEMMA CreateTaskIsSound ==
    ASSUME TenantInv, NEW c \in rows["companies"], NEW p, CreateTask(c, p)
    PROVE  TenantInv'
<1> DEFINE key == NextId(rows["tasks"])
<1>1. /\ imp' = NoImport /\ UNCHANGED <<imports, archive, disk>> /\ Insert("tasks", key, c.id, p, NoFile)
      /\ p = 0 \/ \E t \in rows["tasks"] : t.id = p /\ t.up = c.id
  BY DEF CreateTask, Work
<1> HIDE DEF key
<1> QED BY <1>1, InsertKeeps, TablesAre DEF TenantInv

(* An export takes what hangs below the companies, so no reference leaves it. *)
LEMMA ExportIsSound ==
    ASSUME TenantInv, NEW m \in Team, Export(m)
    PROVE  TenantInv'
<1> DEFINE co == {c \in rows["companies"] : c.up = m}
           ta == {t \in rows["tasks"] : t.up \in Ids(co)}
           below(t) == {r \in rows[t] : r.up \in Ids(ta)}
           A == [t \in Table |-> IF t = "companies" THEN co ELSE IF t = "tasks" THEN ta ELSE below(t)]
           D == {f \in disk : f.task \in Ids(ta)}
<1>1. /\ archive' = [rows |-> A, disk |-> D] /\ imports = 0
      /\ UNCHANGED <<rows, disk, imports>> /\ imp' = NoImport
  BY DEF Export
<1>2. archive'.rows = A /\ archive'.disk = D
  BY <1>1
<1>3. DatabaseOK(rows) /\ DiskOK(disk) /\ NativeOK
  BY <1>1 DEF TenantInv
<1>4. ASSUME NEW t \in Table
      PROVE  /\ A[t] \subseteq rows[t]
             /\ \A r \in A[t] : DOMAIN r = RowFields
             /\ \A r, s \in A[t] : r.id = s.id => r = s
             /\ Ids(A[t]) \subseteq Nat /\ \E n \in Nat : Ids(A[t]) \subseteq 1..n
             /\ t # "companies" => \A r \in A[t] : r.up \in Ids(A[Parents(t)])
  <2>1. A[t] \subseteq rows[t]
    OBVIOUS
  <2>2. TableOK(rows[t])
    BY <1>3 DEF DatabaseOK
  <2>3. t # "companies" => \A r \in A[t] : r.up \in Ids(A[Parents(t)])
    <3>1. CASE t = "tasks"
      BY <3>1, TablesAre DEF Parents
    <3>2. CASE t \notin {"companies", "tasks"}
      BY <3>2, TablesAre DEF Parents
    <3> QED BY <3>1, <3>2
  <2> HIDE DEF A
  <2>4. Ids(A[t]) \subseteq Ids(rows[t])
    BY <2>1 DEF Ids
  <2>5. Ids(A[t]) \subseteq Nat /\ \E n \in Nat : Ids(A[t]) \subseteq 1..n
    <3>1. Cardinality(Ids(rows[t])) \in Nat /\ Ids(rows[t]) = 1..Cardinality(Ids(rows[t]))
      BY <2>2, FS_CardinalityType DEF TableOK
    <3> QED BY <2>2, <2>4, <3>1, FreshId
  <2> QED BY <2>1, <2>2, <2>3, <2>5 DEF TableOK
<1>5. ASSUME NEW t \in A["tasks"] PROVE t.par = 0 \/ t.par \in Ids(A["tasks"])
  <2>1. A["tasks"] = ta
    BY TablesAre
  <2>2. CASE t.par # 0
    <3>1. PICK p \in rows["tasks"] : p.id = t.par /\ p.up = t.up
      BY <1>3, <2>1, <2>2 DEF NativeOK
    <3>2. p \in ta
      BY <2>1, <3>1
    <3> QED BY <2>1, <3>1, <3>2 DEF Ids
  <2> QED BY <2>2
<1>6. ASSUME NEW a \in A["attachments"] PROVE Upload(a) \in D
  <2>1. a \in rows["attachments"] /\ a.up \in Ids(ta)
    BY TablesAre
  <2>2. Upload(a) \in disk
    BY <1>3, <2>1 DEF NativeOK
  <2>3. Upload(a).task = a.up
    BY DEF Upload
  <2> QED BY <2>1, <2>2, <2>3
<1>7. DiskOK(D) /\ DOMAIN A = Table
  BY <1>3 DEF DiskOK
<1> HIDE DEF A, D
<1>8. ArchiveOK'
  BY <1>2, <1>4, <1>5, <1>6, <1>7 DEF ArchiveOK, Upload, Parents
<1> QED BY <1>1, <1>3, <1>8, NoImportKeeps DEF NativeOK, Upload

LEMMA OtherServerIsSound == ASSUME TenantInv, OtherServer PROVE TenantInv'
<1>1. rows' = NoArchive.rows /\ disk' = {} /\ imp' = NoImport /\ UNCHANGED <<archive, imports>>
  BY DEF OtherServer
<1>2. DatabaseOK(rows') /\ \A t \in Table : rows'[t] = {}
  BY <1>1, EmptyOK
<1>3. NativeOK' /\ DiskOK(disk')
  BY <1>1, <1>2, TablesAre DEF NativeOK, DiskOK
<1> QED BY <1>1, <1>2, <1>3, ArchiveStays, NoImportKeeps DEF TenantInv

LEMMA DiesIsSound == ASSUME TenantInv, ImportDies PROVE TenantInv'
<1>1. imp' = NoImport /\ UNCHANGED <<rows, disk, archive, imports>>
  BY DEF ImportDies
<1> QED BY <1>1, ArchiveStays, NoImportKeeps DEF TenantInv, NativeOK, Upload

LEMMA BeginIsSound == ASSUME TenantInv, NEW m \in Team, BeginImport(m) PROVE TenantInv'
<1> DEFINE todo == UNION {{<<i, r>> : r \in archive.rows[Order[i]]} : i \in DOMAIN Order}
<1>1. /\ imports' = imports + 1 /\ UNCHANGED <<rows, disk, archive, work>>
      /\ imp' = [pc |-> "rows", team |-> m, rows |-> rows, map |-> NoImport.map, fresh |-> {}, todo |-> todo]
  BY DEF BeginImport
<1>2. imp'.todo = todo /\ imp'.pc = "rows" /\ imp'.rows = rows /\ DOMAIN imp' = ImportFields /\ imp'.map = NoImport.map
  BY <1>1 DEF ImportFields
<1>3. \A q \in todo : q = <<q[1], q[2]>> /\ q[1] \in DOMAIN Order /\ q[2] \in archive.rows[Order[q[1]]]
  OBVIOUS
<1>4. \A i \in DOMAIN Order : \A r \in archive.rows[Order[i]] : <<i, r>> \in todo
  OBVIOUS
<1> HIDE DEF todo
<1>5. RowsOK'
  <2>1. \A t \in Table : DOMAIN imp'.map[t] = {}
    BY <1>2 DEF NoImport
  <2> QED BY <1>1, <1>2, <1>3, <1>4, <2>1, OrderIs DEF RowsOK, Done, TenantInv
<1>6. DOMAIN imp'.map = Table
  BY <1>2 DEF NoImport
<1>7. imports' \in Nat /\ imports' # 0
  BY <1>1 DEF TenantInv
<1> QED BY <1>1, <1>2, <1>5, <1>6, <1>7, ArchiveStays DEF TenantInv

LEMMA ArchivedRow ==
    ASSUME ArchiveOK, NEW t \in Table, NEW r \in archive.rows[t]
    PROVE  /\ r.id \in Nat /\ DOMAIN r = RowFields
           /\ \A s \in archive.rows[t] : s.id = r.id => s = r
           /\ t # "companies" => \E p \in archive.rows[Parents(t)] : p.id = r.up
<1>1. /\ Ids(archive.rows[t]) \subseteq Nat /\ DOMAIN r = RowFields
      /\ \A s \in archive.rows[t] : s.id = r.id => s = r
      /\ t # "companies" => r.up \in Ids(archive.rows[Parents(t)])
  BY DEF ArchiveOK
<1>2. r.id \in Ids(archive.rows[t])
  BY DEF Ids
<1>3. \A R, k : k \in Ids(R) => \E p \in R : p.id = k
  BY DEF Ids
<1> QED BY <1>1, <1>2, <1>3

(* What the turn of a row says: whatever it refers to went in before it.    *)
LEMMA TurnComes ==
    ASSUME TenantInv, NEW q \in imp.todo, Turn(q[1], q[2])
    PROVE  /\ RowsOK /\ imp.pc = "rows" /\ UNCHANGED <<rows, disk, archive, work, imports>>
           /\ q = <<q[1], q[2]>> /\ q[1] \in DOMAIN Order /\ q[2] \in archive.rows[Order[q[1]]] /\ Order[q[1]] \in Table
           /\ Order[q[1]] # "companies" =>
                /\ q[2].up \in DOMAIN imp.map[Parents(Order[q[1]])]
           /\ Order[q[1]] = "tasks" => \A id \in Ids(archive.rows["tasks"]) : id < q[2].id => id \in DOMAIN imp.map["tasks"]
           /\ Owner(Order[q[1]], q[2]) = UpImage(Order[q[1]], q[2])
           /\ \A p \in imp.todo \ {q} : Precedes(q[1], q[2], p)
<1> DEFINE i == q[1]
           old == q[2]
           t == Order[i]
<1>1. /\ imp.pc = "rows" /\ UNCHANGED <<rows, disk, archive, work, imports>>
      /\ \A p \in imp.todo : i < p[1] \/ (i = p[1] /\ old.id <= p[2].id)
  BY DEF Turn
<1>2. RowsOK /\ ArchiveOK
  BY <1>1 DEF TenantInv
<1>3. q = <<i, old>> /\ i \in DOMAIN Order /\ old \in archive.rows[t] /\ t \in Table /\ i \in Nat
  BY <1>2, OrderIs DEF RowsOK
<1>4. ASSUME t # "companies" PROVE old.up \in DOMAIN imp.map[Parents(t)]
  <2>1. PICK j \in DOMAIN Order : j < i /\ Order[j] = Parents(t)
    BY <1>3, <1>4, OrderIs
  <2>2. Parents(t) # "comments" /\ j \in Nat
    BY <1>3, <1>4, <2>1, OrderIs
  <2>3. PICK p \in archive.rows[Parents(t)] : p.id = old.up
    BY <1>2, <1>3, <1>4, ArchivedRow
  <2>4. <<j, p>> \notin imp.todo
    <3>1. SUFFICES ASSUME <<j, p>> \in imp.todo PROVE FALSE
      OBVIOUS
    <3>2. i < <<j, p>>[1] \/ i = <<j, p>>[1]
      BY <1>1, <3>1
    <3> QED BY <1>3, <2>1, <2>2, <3>2
  <2>5. Done(j, p)
    BY <2>1, <2>3, <2>4 DEF Done
  <2>6. Placed(Parents(t), p)
    BY <1>2, <2>1, <2>3, <2>5 DEF RowsOK
  <2> QED BY <2>2, <2>3, <2>6 DEF Placed
<1>5. ASSUME t = "tasks", NEW id \in Ids(archive.rows["tasks"]), id < old.id PROVE id \in DOMAIN imp.map["tasks"]
  <2>1. PICK p \in archive.rows["tasks"] : p.id = id
    BY DEF Ids
  <2>2. id \in Nat /\ old.id \in Nat
    BY <1>2, <1>3, <1>5, <2>1, ArchivedRow
  <2>3. <<i, p>> \notin imp.todo
    <3>1. SUFFICES ASSUME <<i, p>> \in imp.todo PROVE FALSE
      OBVIOUS
    <3>2. i < <<i, p>>[1] \/ old.id <= <<i, p>>[2].id
      BY <1>1, <3>1
    <3> QED BY <1>3, <1>5, <2>1, <2>2, <3>2
  <2>4. Placed("tasks", p)
    BY <1>2, <1>3, <1>5, <2>1, <2>3 DEF RowsOK, Done
  <2> QED BY <2>1, <2>4 DEF Placed
<1>6. Owner(t, old) = UpImage(t, old)
  BY <1>4 DEF Owner, UpImage, Mapped
<1>7. ASSUME NEW p \in imp.todo \ {q} PROVE Precedes(i, old, p)
  <2>1. p = <<p[1], p[2]>> /\ p[2] \in archive.rows[Order[p[1]]]
    BY <1>2, <1>7 DEF RowsOK
  <2>2. i < p[1] \/ (i = p[1] /\ old.id <= p[2].id)
    BY <1>1, <1>7
  <2>3. i = p[1] => p[2].id # old.id /\ p[2].id \in Nat /\ old.id \in Nat
    <3>1. ASSUME i = p[1] PROVE p[2] # old /\ p[2] \in archive.rows[t]
      BY <1>3, <1>7, <2>1, <3>1
    <3> QED BY <1>2, <1>3, <3>1, ArchivedRow
  <2> QED BY <2>2, <2>3 DEF Precedes
<1> HIDE DEF i, old, t
<1> QED BY <1>1, <1>2, <1>3, <1>4, <1>5, <1>6, <1>7 DEF i, old, t

(* A row that gets its place leaves the others theirs.                      *)
LEMMA PlaceKeeps ==
    ASSUME TenantInv, NEW q \in imp.todo, Turn(q[1], q[2]),
           NEW id, DOMAIN imp' = ImportFields, imp'.pc = "rows", imp'.team = imp.team, imp'.todo = imp.todo \ {q},
           imp'.map = [imp.map EXCEPT ![Order[q[1]]] = With(imp.map[Order[q[1]]], q[2].id, id)],
           DatabaseOK(imp'.rows), \A t \in Table : imp.rows[t] \subseteq imp'.rows[t],
           \A x \in imp.rows["tasks"] : <<"tasks", x.id>> \in imp'.fresh => <<"tasks", x.id>> \in imp.fresh,
           \A x \in imp.rows["companies"] : <<"companies", x.id>> \in imp.fresh => <<"companies", x.id>> \in imp'.fresh,
           NEW x \in imp'.rows[Order[q[1]]], Follows(Order[q[1]], q[2], x)'
    PROVE  TenantInv'
<1> DEFINE i == q[1]
           old == q[2]
           t == Order[i]
<1>1. /\ RowsOK /\ UNCHANGED <<rows, disk, archive, work, imports>> /\ imp.pc = "rows"
      /\ q = <<i, old>> /\ i \in DOMAIN Order /\ old \in archive.rows[t] /\ t \in Table
      /\ \A p \in imp.todo \ {q} : Precedes(i, old, p)
  BY TurnComes
<1>2. ArchiveOK /\ DOMAIN imp.map = Table /\ i \in Nat
  BY <1>1, OrderIs DEF TenantInv
<1>3. /\ DOMAIN imp'.map = Table /\ imp'.map[t] = With(imp.map[t], old.id, id)
      /\ \A u \in Table \ {t} : imp'.map[u] = imp.map[u]
  BY <1>1, <1>2
<1>4. /\ DOMAIN imp'.map[t] = DOMAIN imp.map[t] \cup {old.id}
      /\ \A k \in DOMAIN imp.map[t] \ {old.id} : imp'.map[t][k] = imp.map[t][k]
  BY <1>3 DEF With
<1>5. Placed(t, old)'
  <2>1. old.id \in DOMAIN imp'.map[t]
    BY <1>4
  <2>2. x \in imp'.rows[t] /\ Follows(t, old, x)'
    OBVIOUS
  <2> HIDE DEF old, t
  <2> QED BY <2>1, <2>2 DEF Placed
<1> HIDE DEF i, old, t
<1>6. ASSUME NEW j \in DOMAIN Order, NEW r \in archive.rows[Order[j]], <<j, r>> \notin imp.todo
      PROVE  Placed(Order[j], r)'
  <2> DEFINE u == Order[j]
  <2>1. Placed(u, r) /\ Precedes(j, r, q) /\ u \in Table /\ j \in Nat
    BY <1>1, <1>6, OrderIs DEF RowsOK, Done
  <2>2. j < i \/ (j = i /\ r.id < old.id)
    BY <2>1 DEF Precedes, i, old
  <2>3. \A k \in Ids(archive.rows[u]) : k \in Nat
    BY <1>2, <2>1 DEF ArchiveOK
  <2>4. r.id \in Nat /\ (u = t => r.id < old.id)
    <3>1. u = t => j = i
      BY <1>1, OrderIs DEF t
    <3> QED BY <1>2, <2>1, <2>2, <2>3, <3>1 DEF Ids
  <2>5. ASSUME NEW k \in Nat, u = t => k < old.id
        PROVE  /\ k \in DOMAIN imp'.map[u] <=> k \in DOMAIN imp.map[u]
               /\ k \in DOMAIN imp.map[u] => imp'.map[u][k] = imp.map[u][k]
    <3>1. CASE u = t
      <4>1. k # old.id
        <5>1. old.id \in Nat
          BY <1>1, <1>2, ArchivedRow
        <5> QED BY <2>5, <3>1, <5>1
      <4> QED BY <1>4, <3>1, <4>1
    <3>2. CASE u # t
      BY <1>3, <2>1, <3>2
    <3> QED BY <3>1, <3>2
  <2>6. UpImage(u, r)' = UpImage(u, r)
    <3>1. CASE u = "companies"
      BY <3>1 DEF UpImage
    <3>2. CASE u # "companies"
      <4>1. PICK k \in DOMAIN Order : k < j /\ Order[k] = Parents(u)
        BY <3>2, OrderIs
      <4>2. Parents(u) # t
        <5>1. Parents(u) = t => k = i
          BY <1>1, <4>1, OrderIs DEF t
        <5>2. k \in Nat
          BY OrderIs
        <5> QED BY <1>2, <2>1, <2>2, <4>1, <5>1, <5>2
      <4>3. imp'.map[Parents(u)] = imp.map[Parents(u)]
        BY <1>3, <4>2, <2>1, OrderIs
      <4> QED BY <3>2, <4>3 DEF UpImage, Parents
    <3> QED BY <3>1, <3>2
  <2>7. r.id \in DOMAIN imp'.map[u] <=> r.id \in DOMAIN imp.map[u]
    BY <2>4, <2>5
  <2>8. ASSUME r.id \in DOMAIN imp.map[u], NEW y \in imp.rows[u], Follows(u, r, y)
        PROVE  y \in imp'.rows[u] /\ Follows(u, r, y)'
    <3>1. y \in imp'.rows[u] /\ y.id = imp'.map[u][r.id]
      BY <2>1, <2>4, <2>5, <2>8 DEF Follows
    <3>2. y.up = UpImage(u, r)' /\ (y.key = r.key \/ (u = "companies" /\ <<u, y.id>> \in imp'.fresh))
      BY <2>6, <2>8 DEF Follows
    <3>3. ASSUME u = "tasks", <<u, y.id>> \in imp'.fresh, r.par # 0, r.par < r.id
          PROVE  y.par = imp'.map[u][r.par]
      <4>1. y.par = imp.map[u][r.par]
        BY <2>8, <3>3 DEF Follows
      <4>2. r.par \in Ids(archive.rows["tasks"])
        BY <1>2, <3>3 DEF ArchiveOK
      <4>3. r.par \in Nat /\ (u = t => r.par < old.id)
        <5>1. r.par \in Nat /\ r.id \in Nat
          BY <2>3, <2>4, <3>3, <4>2
        <5>2. u = t => old.id \in Nat
          BY <1>1, <1>2, ArchivedRow
        <5> QED BY <2>4, <3>3, <5>1, <5>2
      <4>4. r.par \in DOMAIN imp.map[u]
        <5>1. PICK p \in archive.rows["tasks"] : p.id = r.par
          BY <4>2 DEF Ids
        <5>2. <<j, p>> \notin imp.todo
          <6>1. SUFFICES ASSUME <<j, p>> \in imp.todo PROVE FALSE
            OBVIOUS
          <6>2. Precedes(j, r, <<j, p>>)
            BY <1>1, <1>6, <6>1 DEF RowsOK, Done
          <6>3. r.id < p.id
            BY <2>1, <6>2 DEF Precedes
          <6> QED BY <2>4, <3>3, <4>3, <5>1, <6>3
        <5>3. Placed("tasks", p)
          BY <1>1, <3>3, <5>1, <5>2 DEF RowsOK, Done
        <5> QED BY <3>3, <5>1, <5>3 DEF Placed
      <4> QED BY <2>5, <4>1, <4>3, <4>4
    <3> QED BY <3>1, <3>2, <3>3 DEF Follows
  <2> HIDE DEF u
  <2>9. Placed(u, r)'
    BY <2>1, <2>7, <2>8 DEF Placed
  <2> QED BY <2>9 DEF u
<1>7. ASSUME NEW j \in DOMAIN Order, NEW r \in archive.rows[Order[j]], Done(j, r)'
      PROVE  (\A p \in imp'.todo : Precedes(j, r, p)) /\ Placed(Order[j], r)'
  <2>1. CASE <<j, r>> \notin imp.todo
    BY <1>1, <1>6, <1>7, <2>1 DEF RowsOK, Done
  <2>2. CASE <<j, r>> \in imp.todo
    <3>1. <<j, r>> = q
      BY <1>1, <1>7, <2>2 DEF Done
    <3>2. j = i /\ r = old
      BY <3>1 DEF i, old
    <3>3. \A p \in imp'.todo : Precedes(j, r, p)
      BY <1>1, <3>2
    <3> QED BY <1>5, <3>2, <3>3 DEF t
  <2> QED BY <2>1, <2>2
<1>8. RowsOK'
  <2>1. ASSUME NEW p \in imp'.todo
        PROVE  /\ p = <<p[1], p[2]>> /\ p[1] \in DOMAIN Order /\ p[2] \in archive.rows[Order[p[1]]]
               /\ p[2].id \notin DOMAIN imp'.map[Order[p[1]]]
    <3>1. /\ p \in imp.todo /\ p[1] \in DOMAIN Order /\ Order[p[1]] \in Table
          /\ p = <<p[1], p[2]>> /\ p[2] \in archive.rows[Order[p[1]]] /\ p[2].id \notin DOMAIN imp.map[Order[p[1]]]
      BY <1>1, OrderIs DEF RowsOK
    <3>2. CASE Order[p[1]] = t
      <4>1. p[1] = i
        BY <1>1, <3>1, <3>2, OrderIs DEF t
      <4>2. p[2] # old
        BY <1>1, <3>1, <4>1
      <4> QED BY <1>1, <1>2, <1>4, <3>1, <3>2, <4>2, ArchivedRow
    <3>3. CASE Order[p[1]] # t
      BY <1>3, <3>1, <3>3
    <3> QED BY <3>1, <3>2, <3>3
  <2> QED BY <1>1, <1>7, <2>1 DEF RowsOK, Precedes
<1> QED BY <1>1, <1>2, <1>3, <1>8, ArchiveStays DEF TenantInv, Resting, NativeOK, Upload

LEMMA SkipIsSound == ASSUME TenantInv, NEW q \in imp.todo, SkipComment(q[1], q[2]) PROVE TenantInv'
<1> DEFINE i == q[1]
           old == q[2]
<1>1. /\ RowsOK /\ UNCHANGED <<rows, disk, archive, work, imports>> /\ imp.pc = "rows" /\ q = <<i, old>>
      /\ i \in DOMAIN Order /\ old \in archive.rows[Order[i]] /\ Order[i] = "comments"
      /\ imp' = [imp EXCEPT !.todo = @ \ {q}] /\ \A p \in imp.todo \ {q} : Precedes(i, old, p)
  BY TurnComes DEF SkipComment
<1>2. DOMAIN imp = ImportFields
  BY DEF TenantInv
<1>3. /\ imp'.pc = "rows" /\ imp'.todo = imp.todo \ {q} /\ imp'.rows = imp.rows /\ imp'.map = imp.map
      /\ imp'.fresh = imp.fresh /\ imp'.team = imp.team /\ DOMAIN imp' = ImportFields
  BY <1>1, <1>2 DEF ImportFields
<1> HIDE DEF i, old
<1>4. \A j \in DOMAIN Order : \A r \in archive.rows[Order[j]] : Placed(Order[j], r) => Placed(Order[j], r)'
  BY <1>3 DEF Placed, Follows, UpImage, Parents
<1>5. Placed("comments", old)
  <2>1. old.id \notin DOMAIN imp.map["comments"]
    BY <1>1 DEF RowsOK, i, old
  <2> QED BY <2>1 DEF Placed
<1>6. ASSUME NEW j \in DOMAIN Order, NEW r \in archive.rows[Order[j]], Done(j, r)'
      PROVE  (\A p \in imp'.todo : Precedes(j, r, p)) /\ Placed(Order[j], r)'
  <2>1. CASE <<j, r>> \notin imp.todo
    BY <1>1, <1>3, <1>4, <1>6, <2>1 DEF RowsOK, Done
  <2>2. CASE <<j, r>> \in imp.todo
    <3>1. <<j, r>> = q
      BY <1>1, <1>3, <1>6, <2>2 DEF Done
    <3>2. j = i /\ r = old
      BY <1>1, <3>1
    <3> QED BY <1>1, <1>3, <1>4, <1>5, <3>2
  <2> QED BY <2>1, <2>2
<1>7. RowsOK'
  BY <1>1, <1>3, <1>6 DEF RowsOK, Precedes
<1> QED BY <1>1, <1>3, <1>7, ArchiveStays DEF TenantInv, Resting, NativeOK, Upload

LEMMA RemappedIs ==
    ASSUME ArchiveOK, NEW t \in Table, NEW old \in archive.rows[t]
    PROVE  /\ DOMAIN Remapped(t, old) = RowFields /\ Remapped(t, old).key = old.key
           /\ Remapped(t, old).up = Owner(t, old) /\ Remapped(t, old).par = IF old.par = 0 THEN 0 ELSE Mapped(t, old.par)
<1>1. DOMAIN old = RowFields
  BY ArchivedRow
<1>2. PICK u, p : u = Owner(t, old) /\ p = IF old.par = 0 THEN 0 ELSE Mapped(t, old.par)
  OBVIOUS
<1>3. Remapped(t, old) = [old EXCEPT !.up = u, !.par = p]
  BY <1>2 DEF Remapped
<1> QED BY <1>1, <1>2, <1>3 DEF RowFields

(* The image of a row's parent is in another table's map.                   *)
LEMMA ParentsElsewhere ==
    ASSUME NEW t \in Table
    PROVE  t # "companies" => Parents(t) \in Table \ {t}
BY TablesAre DEF Parents

LEMMA MergeIsSound == ASSUME TenantInv, NEW q \in imp.todo, MergeRow(q[1], q[2]) PROVE TenantInv'
<1> DEFINE t == Order[q[1]]
           old == q[2]
           same == Existing(t, Remapped(t, old))
           x == (CHOOSE y \in same : \A z \in same : y.id <= z.id).id
<1>1. /\ Turn(q[1], old) /\ same # {}
      /\ imp' = [imp EXCEPT !.todo = imp.todo \ {<<q[1], old>>}, !.map[t] = With(imp.map[t], old.id, x),
                            !.fresh = IF t = "tasks" THEN imp.fresh \ {<<t, x>>} ELSE imp.fresh]
  BY DEF MergeRow
<1>2. /\ RowsOK /\ imp.pc = "rows" /\ q = <<q[1], old>> /\ t \in Table /\ old \in archive.rows[t]
      /\ Owner(t, old) = UpImage(t, old)
  BY <1>1, TurnComes
<1>3. ArchiveOK /\ DOMAIN imp = ImportFields /\ DOMAIN imp.map = Table
  BY DEF TenantInv
<1>4. \A y \in same : y \in imp.rows[t] /\ y.key = old.key /\ y.up = UpImage(t, old)
  BY <1>2, <1>3, RemappedIs DEF Existing
<1>5. \A y \in imp.rows[t] : y.id \in Nat
  <2>1. TableOK(imp.rows[t])
    BY <1>2 DEF RowsOK, DatabaseOK
  <2> QED BY <2>1, FreshId DEF Ids
<1> HIDE DEF same
<1>6. PICK y0 \in same : x = y0.id
  <2> DEFINE N == Ids(same)
  <2>1. N \in SUBSET Nat /\ N # {}
    BY <1>1, <1>4, <1>5 DEF Ids
  <2>2. PICK n \in N : \A m \in N : n <= m
    <3> HIDE DEF N
    <3> QED BY <2>1, LeastNat
  <2>3. \E y \in same : \A z \in same : y.id <= z.id
    BY <2>2 DEF Ids
  <2> QED BY <2>3
<1> HIDE DEF x
<1>7. /\ imp'.pc = "rows" /\ imp'.todo = imp.todo \ {q} /\ imp'.rows = imp.rows /\ imp'.team = imp.team
      /\ imp'.map = [imp.map EXCEPT ![t] = With(imp.map[t], old.id, x)]
      /\ imp'.fresh = (IF t = "tasks" THEN imp.fresh \ {<<t, x>>} ELSE imp.fresh) /\ DOMAIN imp' = ImportFields
  BY <1>1, <1>2, <1>3 DEF ImportFields
<1> HIDE DEF t, old
<1>8. imp'.map[t][old.id] = x /\ UpImage(t, old)' = UpImage(t, old)
  <2>1. imp'.map[t] = With(imp.map[t], old.id, x)
    BY <1>2, <1>3, <1>7
  <2>2. t # "companies" => imp'.map[Parents(t)] = imp.map[Parents(t)]
    BY <1>2, <1>3, <1>7, ParentsElsewhere
  <2>3. UpImage(t, old)' = UpImage(t, old)
    BY <1>7, <2>2 DEF UpImage, Parents
  <2> QED BY <2>1, <2>3 DEF With
<1>9. Follows(t, old, y0)'
  BY <1>4, <1>6, <1>7, <1>8 DEF Follows
<1>10. /\ \A z \in imp.rows["tasks"] : <<"tasks", z.id>> \in imp'.fresh => <<"tasks", z.id>> \in imp.fresh
       /\ \A z \in imp.rows["companies"] : <<"companies", z.id>> \in imp.fresh => <<"companies", z.id>> \in imp'.fresh
  BY <1>7
<1>11. DatabaseOK(imp'.rows) /\ y0 \in imp'.rows[t]
  BY <1>2, <1>4, <1>6, <1>7 DEF RowsOK
<1> QED BY <1>1, <1>7, <1>9, <1>10, <1>11, PlaceKeeps DEF t, old

LEMMA InsertIsSound == ASSUME TenantInv, NEW q \in imp.todo, InsertRow(q[1], q[2]) PROVE TenantInv'
<1> DEFINE t == Order[q[1]]
           old == q[2]
           r == Remapped(t, old)
           n == NextId(imp.rows[t])
           x == [r EXCEPT !.id = n, !.key = IF t = "companies" THEN UniqueShort(@) ELSE @]
<1>0. PICK id, new : id = n /\ new = x
  OBVIOUS
<1>1. /\ Turn(q[1], old)
      /\ imp' = [imp EXCEPT !.todo = imp.todo \ {<<q[1], old>>}, !.map[t] = With(imp.map[t], old.id, id),
                            !.rows[t] = imp.rows[t] \cup {new}, !.fresh = imp.fresh \cup {<<t, id>>}]
  BY <1>0 DEF InsertRow
<1>2. /\ RowsOK /\ imp.pc = "rows" /\ q = <<q[1], old>> /\ t \in Table /\ old \in archive.rows[t]
      /\ Owner(t, old) = UpImage(t, old)
      /\ t = "tasks" => \A k \in Ids(archive.rows["tasks"]) : k < old.id => k \in DOMAIN imp.map["tasks"]
  BY <1>1, TurnComes
<1>3. ArchiveOK /\ DOMAIN imp = ImportFields /\ DOMAIN imp.map = Table /\ DatabaseOK(imp.rows)
  BY <1>2 DEF TenantInv, RowsOK
<1>4. /\ DOMAIN new = RowFields /\ new.id = id /\ new.up = UpImage(t, old)
      /\ t # "companies" => new.key = old.key
      /\ new.par = IF old.par = 0 THEN 0 ELSE Mapped(t, old.par)
  <2>1. /\ DOMAIN r = RowFields /\ r.key = old.key /\ r.up = UpImage(t, old)
        /\ r.par = IF old.par = 0 THEN 0 ELSE Mapped(t, old.par)
    BY <1>2, <1>3, RemappedIs
  <2> HIDE DEF r
  <2>2. PICK key : key = IF t = "companies" THEN UniqueShort(r.key) ELSE r.key
    OBVIOUS
  <2>3. new = [r EXCEPT !.id = id, !.key = key]
    BY <1>0, <2>1, <2>2 DEF RowFields
  <2> QED BY <2>1, <2>2, <2>3 DEF RowFields
<1>5. TableOK(imp.rows[t]) /\ id \notin Ids(imp.rows[t])
  BY <1>0, <1>2, <1>3, FreshId DEF DatabaseOK
<1> HIDE DEF x, r, n, t, old
<1>6. /\ imp'.pc = "rows" /\ imp'.todo = imp.todo \ {q} /\ imp'.team = imp.team /\ DOMAIN imp' = ImportFields
      /\ imp'.rows = [imp.rows EXCEPT ![t] = imp.rows[t] \cup {new}]
      /\ imp'.map = [imp.map EXCEPT ![t] = With(imp.map[t], old.id, id)] /\ imp'.fresh = imp.fresh \cup {<<t, id>>}
  BY <1>1, <1>2, <1>3 DEF ImportFields
<1>7. DatabaseOK(imp'.rows)
  <2>1. TableOK(imp.rows[t] \cup {new})
    BY <1>0, <1>4, <1>5, RowAdded DEF n
  <2> DEFINE R == imp.rows[t] \cup {new}
             D == imp.rows
  <2>2. imp'.rows = [D EXCEPT ![t] = R] /\ DatabaseOK(D) /\ TableOK(R) /\ t \in Table
    BY <1>2, <1>3, <1>6, <2>1
  <2> HIDE DEF R, D
  <2>3. DatabaseOK([D EXCEPT ![t] = R])
    BY <2>2, TableReplaced
  <2> QED BY <2>2, <2>3
<1>8. imp'.rows[t] = imp.rows[t] \cup {new} /\ \A u \in Table : imp.rows[u] \subseteq imp'.rows[u]
  BY <1>2, <1>3, <1>6 DEF DatabaseOK
<1>9. /\ \A z \in imp.rows["tasks"] : <<"tasks", z.id>> \in imp'.fresh => <<"tasks", z.id>> \in imp.fresh
      /\ \A z \in imp.rows["companies"] : <<"companies", z.id>> \in imp.fresh => <<"companies", z.id>> \in imp'.fresh
  <2>1. \A z \in imp.rows[t] : z.id # id
    BY <1>5 DEF Ids
  <2> QED BY <1>6, <2>1
<1>10. /\ imp'.map[t][old.id] = id /\ UpImage(t, old)' = UpImage(t, old)
       /\ \A j \in DOMAIN imp.map[t] \ {old.id} : imp'.map[t][j] = imp.map[t][j]
  <2>1. imp'.map[t] = With(imp.map[t], old.id, id)
    BY <1>2, <1>3, <1>6
  <2>2. t # "companies" => imp'.map[Parents(t)] = imp.map[Parents(t)]
    BY <1>2, <1>3, <1>6, ParentsElsewhere
  <2>3. UpImage(t, old)' = UpImage(t, old)
    BY <1>6, <2>2 DEF UpImage, Parents
  <2> QED BY <2>1, <2>3 DEF With
<1>11. ASSUME t = "tasks", old.par # 0, old.par < old.id PROVE new.par = imp'.map[t][old.par]
  <2>1. old.par \in Ids(archive.rows["tasks"])
    BY <1>2, <1>3, <1>11 DEF ArchiveOK
  <2>2. old.par \in DOMAIN imp.map["tasks"]
    BY <1>2, <1>11, <2>1
  <2>3. old.par # old.id
    <3>1. old.id \in Nat
      BY <1>2, <1>3, ArchivedRow
    <3> QED BY <1>11, <3>1
  <2> QED BY <1>4, <1>10, <1>11, <2>2, <2>3 DEF Mapped
<1>12. Follows(t, old, new)'
  BY <1>4, <1>6, <1>10, <1>11 DEF Follows
<1> QED BY <1>1, <1>6, <1>7, <1>8, <1>9, <1>12, PlaceKeeps DEF t, old

(* The source of a path.                                                   *)
LEMMA LastSource ==
    ASSUME ArchiveOK, NEW S \in SUBSET archive.rows["attachments"], S # {}
    PROVE  \E s \in S : \A o \in S : o.id <= s.id
<1> DEFINE N == Ids(S)
<1>1. N \subseteq Ids(archive.rows["attachments"]) /\ N # {}
  BY DEF Ids
<1>2. \E n \in Nat : Ids(archive.rows["attachments"]) \subseteq 1..n
  BY TablesAre DEF ArchiveOK
<1>3. PICK n \in Nat : N \subseteq 1..n
  BY <1>1, <1>2
<1>4. PICK k \in N : \A m \in N : m <= k
  <2> HIDE DEF N
  <2>1. N \in SUBSET Nat /\ N # {} /\ \A m \in N : m <= n
    BY <1>1, <1>3
  <2> QED BY <2>1, GreatestNat
<1> QED BY <1>4 DEF Ids

LEMMA NewPathIs ==
    ASSUME ArchiveOK, NEW x, Sources(x) # {}
    PROVE  \E s \in Sources(x) : NewPath(x) = [task |-> imp.map["tasks"][s.up], name |-> s.file.name]
<1>1. Sources(x) \in SUBSET archive.rows["attachments"]
  BY DEF Sources
<1>2. \E s \in Sources(x) : \A o \in Sources(x) : o.id <= s.id
  BY <1>1, LastSource
<1> QED BY <1>2 DEF NewPath

LEMMA RewrittenRow ==
    ASSUME NEW x, DOMAIN x = RowFields
    PROVE  /\ DOMAIN RewritePath(x) = RowFields /\ RewritePath(x).id = x.id /\ RewritePath(x).key = x.key
           /\ RewritePath(x).up = x.up /\ RewritePath(x).par = x.par
           /\ <<"attachments", x.id>> \in imp.fresh /\ Sources(x) # {} => RewritePath(x).file = NewPath(x)
<1>1. PICK p : p = NewPath(x)
  OBVIOUS
<1>2. RewritePath(x) = IF <<"attachments", x.id>> \in imp.fresh /\ Sources(x) # {} THEN [x EXCEPT !.file = p] ELSE x
  BY <1>1 DEF RewritePath
<1> QED BY <1>1, <1>2 DEF RowFields

(* With nothing left to do every archived row has its place.                *)
LEMMA AllPlaced ==
    ASSUME TenantInv, imp.pc = "rows", imp.todo = {}
    PROVE  /\ \A t \in Table : \A r \in archive.rows[t] : Placed(t, r)
           /\ \A r \in archive.rows["attachments"] : r.up \in DOMAIN imp.map["tasks"]
<1>1. RowsOK /\ ArchiveOK
  BY DEF TenantInv
<1>2. ASSUME NEW t \in Table, NEW r \in archive.rows[t] PROVE Placed(t, r)
  <2>1. PICK i \in DOMAIN Order : Order[i] = t
    BY OrderIs
  <2>2. Done(i, r)
    BY <2>1 DEF Done
  <2> QED BY <1>1, <2>1, <2>2 DEF RowsOK
<1>3. ASSUME NEW r \in archive.rows["attachments"] PROVE r.up \in DOMAIN imp.map["tasks"]
  <2>1. PICK p \in archive.rows["tasks"] : p.id = r.up
    BY <1>1, ArchivedRow, TablesAre DEF Parents
  <2>2. Placed("tasks", p)
    BY <1>2, TablesAre
  <2> QED BY <2>1, <2>2 DEF Placed
<1> QED BY <1>2, <1>3

(* The transaction is committed, with the paths of the new attachments.     *)
LEMMA CommitIsSound == ASSUME TenantInv, CommitImport PROVE TenantInv'
<1> DEFINE A == {RewritePath(x) : x \in imp.rows["attachments"]}
<1>1. /\ imp.pc = "rows" /\ imp.todo = {} /\ UNCHANGED <<disk, archive, work, imports>>
      /\ rows' = [imp.rows EXCEPT !["attachments"] = A]
      /\ imp' = [imp EXCEPT !.pc = "files", !.rows = NoImport.rows]
  BY DEF CommitImport
<1>2. RowsOK /\ ArchiveOK /\ DOMAIN imp = ImportFields /\ DatabaseOK(imp.rows)
  BY <1>1 DEF TenantInv, RowsOK
<1>3. imp'.pc = "files" /\ imp'.map = imp.map /\ imp'.fresh = imp.fresh /\ imp'.team = imp.team /\ DOMAIN imp' = ImportFields
  BY <1>1, <1>2 DEF ImportFields
<1>4. \A x \in imp.rows["attachments"] : DOMAIN x = RowFields
  BY <1>2, TablesAre DEF DatabaseOK, TableOK
<1>5. TableOK(imp.rows["attachments"])
  BY <1>2, TablesAre DEF DatabaseOK
<1>6. TableOK(A)
  <2>1. Ids(A) = Ids(imp.rows["attachments"])
    <3>1. \A x \in imp.rows["attachments"] : RewritePath(x).id = x.id
      BY <1>4, RewrittenRow
    <3>2. Ids(A) = {RewritePath(x).id : x \in imp.rows["attachments"]}
      BY DEF Ids
    <3> HIDE DEF A
    <3> QED BY <3>1, <3>2 DEF Ids
  <2>2. \A y \in A : DOMAIN y = RowFields
    BY <1>4, RewrittenRow
  <2>3. \A y, z \in A : y.id = z.id => y = z
    <3>1. SUFFICES ASSUME NEW x \in imp.rows["attachments"], NEW z \in imp.rows["attachments"],
                          RewritePath(x).id = RewritePath(z).id
                   PROVE  x = z
      OBVIOUS
    <3>2. x.id = z.id
      BY <1>4, <3>1, RewrittenRow
    <3> QED BY <1>5, <3>2 DEF TableOK
  <2> HIDE DEF A
  <2> QED BY <1>5, <2>1, <2>2, <2>3, RowsChanged
<1>7. ASSUME NEW x \in imp.rows["attachments"]
      PROVE  RewritePath(x) \in A
  OBVIOUS
<1> HIDE DEF A
<1>8. DatabaseOK(rows') /\ rows'["attachments"] = A /\ \A t \in Table \ {"attachments"} : rows'[t] = imp.rows[t]
  <2>1. DatabaseOK(rows')
    BY <1>1, <1>2, <1>6, TableReplaced, TablesAre
  <2> QED BY <1>1, <1>2, <2>1, TablesAre DEF DatabaseOK
<1>9. ASSUME NEW t \in Table, NEW x \in imp.rows[t]
      PROVE  \E y \in rows'[t] : y.id = x.id /\ y.key = x.key /\ y.up = x.up /\ y.par = x.par
  <2>1. CASE t = "attachments"
    BY <1>4, <1>7, <1>8, <2>1, RewrittenRow
  <2>2. CASE t # "attachments"
    BY <1>8, <2>2
  <2> QED BY <2>1, <2>2
<1>10. \A t \in Table : \A y, z \in rows'[t] : y.id = z.id => y = z
  BY <1>8 DEF DatabaseOK, TableOK
<1>11. ASSUME NEW t \in Table, NEW r \in archive.rows[t]
       PROVE  /\ t = "comments" \/ Image(t, r)' # {}
              /\ \A y \in Image(t, r)' :
                    /\ y.up = UpImage(t, r)'
                    /\ y.key = r.key \/ (t = "companies" /\ <<t, y.id>> \in imp'.fresh)
                    /\ t = "tasks" /\ <<t, y.id>> \in imp'.fresh /\ r.par # 0 /\ r.par < r.id => y.par = imp'.map[t][r.par]
  <2>1. Placed(t, r)
    BY <1>1, AllPlaced
  <2>2. Image(t, r)' = IF r.id \in DOMAIN imp.map[t] THEN {y \in rows'[t] : y.id = imp.map[t][r.id]} ELSE {}
    BY <1>3 DEF Image
  <2>3. UpImage(t, r)' = UpImage(t, r)
    BY <1>3 DEF UpImage, Parents
  <2>4. CASE r.id \in DOMAIN imp.map[t]
    <3>1. PICK x \in imp.rows[t] : Follows(t, r, x)
      BY <2>1, <2>4 DEF Placed
    <3>2. PICK y \in rows'[t] : y.id = x.id /\ y.key = x.key /\ y.up = x.up /\ y.par = x.par
      BY <1>9
    <3>3. Image(t, r)' = {y}
      <4>1. x.id = imp.map[t][r.id]
        BY <3>1 DEF Follows
      <4> QED BY <1>10, <2>2, <2>4, <3>2, <4>1
    <3>4. /\ y.up = UpImage(t, r)
          /\ y.key = r.key \/ (t = "companies" /\ <<t, y.id>> \in imp.fresh)
          /\ t = "tasks" /\ <<t, y.id>> \in imp.fresh /\ r.par # 0 /\ r.par < r.id => y.par = imp.map[t][r.par]
      BY <3>1, <3>2 DEF Follows
    <3> QED BY <1>3, <2>3, <3>3, <3>4
  <2>5. CASE r.id \notin DOMAIN imp.map[t]
    <3>1. t = "comments" /\ Image(t, r)' = {}
      BY <2>1, <2>2, <2>5 DEF Placed
    <3> QED BY <3>1
  <2> QED BY <2>4, <2>5
<1>12. RowsFollow'
  BY <1>1, <1>11 DEF RowsFollow
<1>13. ASSUME NEW r \in archive.rows["attachments"], <<"attachments", imp.map["attachments"][r.id]>> \in imp.fresh
       PROVE  \E s \in archive.rows["attachments"] : \E y \in Image("attachments", s)' :
                 /\ y.id = imp.map["attachments"][r.id]
                 /\ y.file = [task |-> UpImage("attachments", r), name |-> s.file.name]
  <2>1. \A s \in archive.rows["attachments"] :
            /\ s.id \in DOMAIN imp.map["attachments"] /\ s.up \in DOMAIN imp.map["tasks"]
            /\ \E x \in imp.rows["attachments"] : x.id = imp.map["attachments"][s.id] /\ x.up = imp.map["tasks"][s.up]
    BY <1>1, AllPlaced, TablesAre DEF Placed, Follows, UpImage, Parents
  <2>2. PICK x \in imp.rows["attachments"] : x.id = imp.map["attachments"][r.id] /\ x.up = imp.map["tasks"][r.up]
    BY <2>1
  <2>3. r \in Sources(x)
    BY <2>1, <2>2 DEF Sources
  <2>4. PICK s \in Sources(x) : NewPath(x) = [task |-> imp.map["tasks"][s.up], name |-> s.file.name]
    BY <1>2, <2>3, NewPathIs
  <2>5. s \in archive.rows["attachments"] /\ imp.map["attachments"][s.id] = x.id
    BY DEF Sources
  <2>6. x.up = imp.map["tasks"][s.up]
    BY <1>5, <2>1, <2>5 DEF TableOK
  <2>7. UpImage("attachments", r) = x.up
    BY <2>2 DEF UpImage, Parents
  <2> DEFINE y == RewritePath(x)
  <2>8. y.id = x.id /\ y.file = NewPath(x) /\ y \in rows'["attachments"]
    BY <1>4, <1>7, <1>8, <1>13, <2>2, <2>3, RewrittenRow
  <2>9. y.file = [task |-> UpImage("attachments", r), name |-> s.file.name]
    BY <2>4, <2>6, <2>7, <2>8
  <2> HIDE DEF y
  <2>10. PICK z : z = y
    OBVIOUS
  <2>11. z \in Image("attachments", s)'
    BY <1>3, <2>1, <2>5, <2>8, <2>10 DEF Image
  <2> QED BY <2>2, <2>5, <2>8, <2>9, <2>10, <2>11
<1>14. PathsFollow'
  <2>1. \A r : UpImage("attachments", r)' = UpImage("attachments", r)
    BY <1>3 DEF UpImage, Parents
  <2>2. ASSUME NEW r \in archive'.rows["attachments"], <<"attachments", imp'.map["attachments"][r.id]>> \in imp'.fresh
        PROVE  \E s \in archive'.rows["attachments"] : \E y \in Image("attachments", s)' :
                  /\ y.id = imp'.map["attachments"][r.id]
                  /\ y.file = [task |-> UpImage("attachments", r)', name |-> s.file.name]
    <3>1. r \in archive.rows["attachments"] /\ <<"attachments", imp.map["attachments"][r.id]>> \in imp.fresh
      <4>1. archive'.rows["attachments"] = archive.rows["attachments"]
        BY <1>1
      <4>2. imp'.map["attachments"][r.id] = imp.map["attachments"][r.id] /\ imp'.fresh = imp.fresh
        BY <1>3
      <4>3. r \in archive.rows["attachments"]
        BY <4>1
      <4>4. <<"attachments", imp.map["attachments"][r.id]>> \in imp.fresh
        BY <2>2, <4>2
      <4> QED BY <4>3, <4>4
    <3>2. PICK s \in archive.rows["attachments"] : \E y \in Image("attachments", s)' :
             /\ y.id = imp.map["attachments"][r.id]
             /\ y.file = [task |-> UpImage("attachments", r), name |-> s.file.name]
      BY <1>13, <3>1
    <3>3. PICK y \in Image("attachments", s)' :
             /\ y.id = imp.map["attachments"][r.id]
             /\ y.file = [task |-> UpImage("attachments", r), name |-> s.file.name]
      BY <3>2
    <3>4. y.id = imp'.map["attachments"][r.id] /\ y.file = [task |-> UpImage("attachments", r)', name |-> s.file.name]
      BY <1>3, <2>1, <3>3
    <3>5. archive'.rows["attachments"] = archive.rows["attachments"]
      BY <1>1
    <3> QED BY <3>4, <3>5
  <2> QED BY <2>2 DEF PathsFollow
<1> QED BY <1>1, <1>2, <1>3, <1>8, <1>12, <1>14, ArchiveStays DEF TenantInv, Resting

(* The uploads are copied.                                                 *)
LEMMA FilesAreSound == ASSUME TenantInv, RestoreFiles PROVE TenantInv'
<1>1. /\ imp.pc = "files" /\ disk' = disk \cup Copies /\ imp' = [imp EXCEPT !.pc = "done"]
      /\ UNCHANGED <<rows, archive, work, imports>>
  BY DEF RestoreFiles
<1>2. RowsFollow /\ PathsFollow /\ ArchiveOK /\ DiskOK(disk) /\ DOMAIN imp = ImportFields /\ imports # 0
  BY <1>1 DEF TenantInv, Resting
<1>3. imp'.pc = "done" /\ imp'.map = imp.map /\ imp'.fresh = imp.fresh /\ imp'.team = imp.team /\ DOMAIN imp' = ImportFields
  BY <1>1, <1>2 DEF ImportFields
<1>4. \A f \in archive.disk : DOMAIN f = {"task", "name", "data"} /\ f.data = f.name
  BY <1>2 DEF ArchiveOK, DiskOK
<1>5. DiskOK(disk')
  <2>1. ASSUME NEW f \in Copies PROVE DOMAIN f = {"task", "name", "data"} /\ f.data = f.name
    <3>1. PICK g \in archive.disk : f = [g EXCEPT !.task = imp.map["tasks"][g.task]]
      BY DEF Copies
    <3> QED BY <1>4, <3>1
  <2> QED BY <1>1, <1>2, <2>1 DEF DiskOK
<1>6. ASSUME NEW r \in archive.rows["attachments"]
      PROVE  \E f \in disk' : f.task = UpImage("attachments", r) /\ f.name = r.file.name /\ f.data = r.file.name
  <2>1. PICK p \in archive.rows["tasks"] : p.id = r.up
    BY <1>2, ArchivedRow, TablesAre DEF Parents
  <2>2. Image("tasks", p) # {}
    BY <1>2, TablesAre DEF RowsFollow
  <2>3. r.up \in DOMAIN imp.map["tasks"]
    BY <2>1, <2>2 DEF Image
  <2>4. PICK u \in archive.disk : u = Upload(r)
    BY <1>2 DEF ArchiveOK
  <2>5. u.task = r.up /\ u.name = r.file.name /\ u.data = r.file.name /\ DOMAIN u = {"task", "name", "data"}
    BY <2>4 DEF Upload
  <2>6. PICK f : f = [u EXCEPT !.task = imp.map["tasks"][u.task]]
    OBVIOUS
  <2>7. f.task = UpImage("attachments", r) /\ f.name = r.file.name /\ f.data = r.file.name
    BY <2>5, <2>6 DEF UpImage, Parents
  <2>8. CASE f \in Copies
    BY <1>1, <2>7, <2>8
  <2>9. CASE f \notin Copies
    <3>1. PICK g \in disk : g.task = f.task /\ g.name = f.name
      BY <2>3, <2>5, <2>6, <2>9 DEF Copies
    <3>2. g.data = g.name
      BY <1>2 DEF DiskOK
    <3> QED BY <1>1, <2>7, <3>1, <3>2
  <2> QED BY <2>8, <2>9
<1>7. \A r : UpImage("attachments", r)' = UpImage("attachments", r) /\ Image("attachments", r)' = Image("attachments", r)
  BY <1>1, <1>3 DEF UpImage, Image, Parents
<1>8. PathsFollow' /\ FilesFollow'
  BY <1>1, <1>2, <1>3, <1>6, <1>7 DEF PathsFollow, FilesFollow
<1> QED BY <1>1, <1>2, <1>3, <1>5, <1>8, ArchiveStays DEF TenantInv, Resting

LEMMA TenantStep == TenantInv /\ [TenantNext]_tenantVars => TenantInv'
<1> SUFFICES ASSUME TenantInv, [TenantNext]_tenantVars PROVE TenantInv'
  OBVIOUS
<1>1. CASE \E m \in Team : Export(m) \/ BeginImport(m) \/ \E n \in Shorts : CreateCompany(m, n)
  BY <1>1, ExportIsSound, BeginIsSound, CreateCompanyIsSound
<1>2. CASE \E c \in rows["companies"], p \in {0} \cup Ids(rows["tasks"]) : CreateTask(c, p)
  BY <1>2, CreateTaskIsSound
<1>3. CASE \E t \in rows["tasks"] : \/ \E p \in rows["tasks"] : Reparent(t, p)
                                    \/ \E f \in Files : UploadAttachment(t, f)
                                    \/ CreateRun(t) \/ CreateComment(t)
  BY <1>3, ReparentKeeps, WorkIsSound
<1>4. CASE \E q \in imp.todo : SkipComment(q[1], q[2]) \/ MergeRow(q[1], q[2]) \/ InsertRow(q[1], q[2])
  BY <1>4, SkipIsSound, MergeIsSound, InsertIsSound
<1>5. CASE OtherServer \/ CommitImport \/ RestoreFiles \/ ImportDies
  BY <1>5, OtherServerIsSound, CommitIsSound, FilesAreSound, DiesIsSound
<1>6. CASE UNCHANGED tenantVars
  <2>1. UNCHANGED <<rows, disk, archive, imp, imports>>
    BY <1>6 DEF tenantVars
  <2>2. ArchiveOK' /\ (NativeOK => NativeOK')
    BY <2>1, ArchiveStays DEF TenantInv, NativeOK, Upload
  <2>3. \A t, r : UpImage(t, r)' = UpImage(t, r) /\ Image(t, r)' = Image(t, r)
    BY <2>1 DEF UpImage, Image, Parents
  <2>4. ASSUME RowsOK PROVE RowsOK'
    <3>1. \A t, r : Placed(t, r) => Placed(t, r)'
      BY <2>1, <2>3 DEF Placed, Follows
    <3> QED BY <2>1, <2>4, <3>1 DEF RowsOK, Done, Precedes
  <2>5. RowsFollow => RowsFollow'
    BY <2>1, <2>3 DEF RowsFollow
  <2>6. (PathsFollow => PathsFollow') /\ (FilesFollow => FilesFollow')
    BY <2>1, <2>3 DEF PathsFollow, FilesFollow
  <2> QED BY <2>1, <2>2, <2>4, <2>5, <2>6 DEF TenantInv, Resting
<1> QED BY <1>1, <1>2, <1>3, <1>4, <1>5, <1>6 DEF TenantNext

(* ImportFaithful, whatever the team made before it exported, wherever the    *)
(* archive is taken, however often it is imported and wherever the process  *)
(* dies: the rows that the transaction of ImportTenant commits have the shape *)
(* of the archive's, and restoreFiles puts the uploads where their paths say. *)
THEOREM ImportFaithfulAlways == TenantSpec => []ImportFaithful
<1>1. TenantInv => ImportFaithful
  BY DEF TenantInv, ImportFaithful
<1> QED BY <1>1, TenantStart, TenantStep, PTL DEF TenantSpec
=============================================================================
