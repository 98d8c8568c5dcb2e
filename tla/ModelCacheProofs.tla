--------------------------- MODULE ModelCacheProofs ---------------------------
(***************************************************************************)
(* Proofs about ModelCache, for any runs, sizes and ways to download.      *)
(* What one download may rely on is its own writing since it emptied the   *)
(* file; IInv says that, and that a run which was alone in fetch still is  *)
(* as long as it fetches or uses what it fetched.                          *)
(***************************************************************************)
EXTENDS ModelCache, TLAPS

(* A transfer has written nothing before it has opened the file. *)
TransferInv ==
  \A r \in Runs :
    /\ ~opened[r] => off[r] = 0
    /\ pc[r] \in {"lookup", "try", "found"} => ~opened[r]
    /\ pc[r] = "get" => way[r] <= Len(Ways)

(* The blocks written by the run that emptied the file last are right. *)
LastInv ==
  \A r \in Runs : emptied = r /\ opened[r] => 1 .. off[r] \subseteq right

(* A run that is alone in fetch is the only one that touches the file. *)
AloneInv ==
  \A r \in Runs : alone[r] =>
    /\ pc[r] \in Fetching \cup {"fetched"} =>
         \A q \in Runs : q # r => pc[q] \notin Downloading
    /\ pc[r] \in Fetching /\ opened[r] => emptied = r

(* A file that is not whole is being written by the run that emptied it    *)
(* last, or that run's download has broken or was killed.                  *)
CauseInv ==
  /\ \A r \in Runs : emptied = r => opened[r]
  /\ Whole \/ emptied = Nobody \/ pc[emptied] \in {"get", "orphan"}

(* Where a run has found the file and no download is under way, none begins. *)
FoundInv ==
  \A r \in Runs : pc[r] = "found" /\ alone[r] =>
    file_present /\ \A q \in Runs : q # r => pc[q] \notin Downloading

IInv == TypeOK /\ TransferInv /\ LastInv /\ AloneInv
FullInv == IInv /\ FetchedIsWhole

(* The numbers among the constants. *)
LEMMA Numbers == Len(Ways) \in Nat /\ Size \in Nat \ {0}
BY CacheAssumption DEF CacheAssumption

LEMMA NobodyElse == Nobody \notin Runs
BY CacheAssumption DEF CacheAssumption

(* A file with all its blocks right is whole. *)
LEMMA AllRight ==
  ASSUME TypeOK, 1 .. Size \subseteq right
  PROVE  Whole
<1>1. Size \in 1 .. Size
  BY CacheAssumption DEF CacheAssumption
<1>2. len = Size
  BY <1>1, CacheAssumption DEF TypeOK, CacheAssumption
<1> QED
  BY <1>2 DEF TypeOK, Whole

(* fetch goes on with the next way. *)
LEMMA NextWayType ==
  ASSUME TypeOK, NEW r \in Runs, way[r] <= Len(Ways), NextWay(r),
         UNCHANGED <<len, right, alone>>, emptied' \in {emptied, Nobody}
  PROVE  TypeOK'
<1>1. way[r] + 1 \in 1 .. Len(Ways) + 1 /\ 0 \in 0 .. Size
  BY Numbers DEF TypeOK
<1>2. /\ way' \in [Runs -> 1 .. Len(Ways) + 1]
      /\ opened' \in [Runs -> BOOLEAN]
      /\ off' \in [Runs -> 0 .. Size]
  BY <1>1 DEF TypeOK, NextWay, AtWay
<1>3. pc' \in [Runs -> {"lookup"} \cup Downloading \cup Ended]
  BY DEF TypeOK, NextWay, Goto, Fetching, Downloading, Ended
<1> QED
  BY <1>2, <1>3 DEF TypeOK

(* A step keeps every variable in its type. *)
LEMMA TypeStep ==
  ASSUME TypeOK, TransferInv, Next
  PROVE  TypeOK'
<1> USE DEF TypeOK, TransferInv, Fetching, Downloading, Ended, fileVars, getVars
<1>1. ASSUME NEW r \in Runs, Finds(r) PROVE TypeOK'
  BY <1>1, Numbers DEF Finds, Goto, file_present
<1>2. ASSUME NEW r \in Runs, FindsNothing(r) PROVE TypeOK'
  <2>1. 1 \in 1 .. Len(Ways) + 1 /\ 0 \in 0 .. Size
    BY Numbers
  <2>2. /\ way' \in [Runs -> 1 .. Len(Ways) + 1]
        /\ off' \in [Runs -> 0 .. Size]
        /\ opened' \in [Runs -> BOOLEAN]
    BY <1>2, <2>1 DEF FindsNothing, AtWay
  <2>3. alone' \in [Runs -> BOOLEAN]
    BY <1>2 DEF FindsNothing, Others
  <2> QED
    BY <1>2, <2>2, <2>3 DEF FindsNothing, Goto
<1>3. ASSUME NEW r \in Runs, Begin(r) PROVE TypeOK'
  <2>1. CASE Ways[way[r]] \in Lazy
    BY <1>3, <2>1 DEF Begin, Goto
  <2>2. CASE Ways[way[r]] \notin Lazy
    <3>1. len' \in 0 .. Size /\ right' \subseteq 1 .. len'
      BY <1>3, <2>2, Numbers DEF Begin
    <3>2. opened' \in [Runs -> BOOLEAN]
      BY <1>3, <2>2 DEF Begin
    <3> QED
      BY <1>3, <2>2, <3>1, <3>2 DEF Begin, Goto
  <2> QED
    BY <2>1, <2>2
<1>4. ASSUME NEW r \in Runs, CannotBegin(r) PROVE TypeOK'
  BY <1>4, Numbers DEF CannotBegin, NextWay, AtWay, Goto
<1>5. ASSUME NEW r \in Runs, Writes(r) PROVE TypeOK'
  <2>1. off[r] + 1 \in 1 .. Size
    BY <1>5, Numbers DEF Writes
  <2>2. off' \in [Runs -> 0 .. Size] /\ off'[r] = off[r] + 1
    BY <1>5, <2>1, Numbers DEF Writes
  <2>3. opened' \in [Runs -> BOOLEAN]
    BY <1>5 DEF Writes
  <2>4. len' \in 0 .. Size /\ right' \subseteq 1 .. len'
    <3>1. CASE opened[r]
      <4>1. len' \in 0 .. Size /\ len <= len' /\ off[r] + 1 <= len'
        BY <1>5, <2>1, <2>2, <3>1, Numbers DEF Writes
      <4>2. right' = right \cup {off[r] + 1}
        BY <1>5, <2>2, <3>1 DEF Writes
      <4>3. \A b \in right : b \in 1 .. len'
        BY <4>1, Numbers
      <4>4. off[r] + 1 \in 1 .. len'
        BY <2>1, <4>1, Numbers
      <4> QED
        BY <4>1, <4>2, <4>3, <4>4
    <3>2. CASE ~opened[r]
      BY <1>5, <3>2, Numbers DEF Writes
    <3> QED
      BY <3>1, <3>2
  <2> QED
    BY <1>5, <2>2, <2>3, <2>4 DEF Writes
<1>6. ASSUME NEW r \in Runs, Breaks(r) PROVE TypeOK'
  <2>1. CASE NextWay(r)
    <3>1. UNCHANGED <<len, right, alone>> /\ emptied' \in {emptied, Nobody}
      BY <1>6 DEF Breaks, Lost
    <3>2. way[r] <= Len(Ways)
      BY <1>6 DEF Breaks
    <3> QED
      BY <2>1, <3>1, <3>2, NextWayType
  <2>2. CASE Goto(r, "fetched") /\ UNCHANGED getVars
    <3>1. emptied' \in Runs \cup {Nobody}
      BY <1>6 DEF Breaks, Lost
    <3>2. pc' = [pc EXCEPT ![r] = "fetched"]
      BY <2>2 DEF Goto
    <3> QED
      BY <1>6, <2>2, <3>1, <3>2 DEF Breaks
  <2> QED
    BY <1>6, <2>1, <2>2 DEF Breaks
<1>7. ASSUME NEW r \in Runs, Completes(r) PROVE TypeOK'
  <2>1. CASE NextWay(r)
    <3>1. UNCHANGED <<len, right, alone>> /\ emptied' \in {emptied, Nobody}
      BY <1>7 DEF Completes
    <3>2. way[r] <= Len(Ways)
      BY <1>7 DEF Completes
    <3> QED
      BY <2>1, <3>1, <3>2, NextWayType
  <2>2. CASE Goto(r, "fetched") /\ UNCHANGED getVars
    BY <1>7, <2>2 DEF Completes, Goto
  <2> QED
    BY <1>7, <2>1, <2>2 DEF Completes
<1>8. ASSUME NEW r \in Runs, GivesUp(r) PROVE TypeOK'
  BY <1>8, Numbers DEF GivesUp, Goto
<1>9. ASSUME NEW r \in Runs, Killed(r) PROVE TypeOK'
  BY <1>9, Numbers DEF Killed, Lost, Goto
<1>10. ASSUME NEW r \in Runs, OrphanEnds(r) PROVE TypeOK'
  BY <1>10, Numbers DEF OrphanEnds, Lost, Goto
<1> QED
  BY <1>1, <1>2, <1>3, <1>4, <1>5, <1>6, <1>7, <1>8, <1>9, <1>10 DEF Next, Step

(* A transfer begins with nothing. *)
LEMMA TransferStep ==
  ASSUME TypeOK, TransferInv, Next
  PROVE  TransferInv'
<1> USE DEF TypeOK, TransferInv, Fetching, Downloading, Ended, fileVars, getVars
<1>1. ASSUME NEW r \in Runs, Finds(r) PROVE TransferInv'
  BY <1>1 DEF Finds, Goto, file_present
<1>2. ASSUME NEW r \in Runs, FindsNothing(r) PROVE TransferInv'
  BY <1>2 DEF FindsNothing, Goto, AtWay, file_present
<1>3. ASSUME NEW r \in Runs, Begin(r) PROVE TransferInv'
  BY <1>3 DEF Begin, Goto
<1>4. ASSUME NEW r \in Runs, CannotBegin(r) PROVE TransferInv'
  BY <1>4 DEF CannotBegin, NextWay, AtWay, Goto
<1>5. ASSUME NEW r \in Runs, Writes(r) PROVE TransferInv'
  BY <1>5 DEF Writes
<1>6. ASSUME NEW r \in Runs, Breaks(r) PROVE TransferInv'
  BY <1>6 DEF Breaks, Lost, NextWay, AtWay, Goto, file_present
<1>7. ASSUME NEW r \in Runs, Completes(r) PROVE TransferInv'
  BY <1>7 DEF Completes, NextWay, AtWay, Goto, file_present
<1>8. ASSUME NEW r \in Runs, GivesUp(r) PROVE TransferInv'
  BY <1>8 DEF GivesUp, Goto
<1>9. ASSUME NEW r \in Runs, Killed(r) PROVE TransferInv'
  BY <1>9 DEF Killed, Lost, Goto
<1>10. ASSUME NEW r \in Runs, OrphanEnds(r) PROVE TransferInv'
  BY <1>10 DEF OrphanEnds, Lost, Goto
<1> QED
  BY <1>1, <1>2, <1>3, <1>4, <1>5, <1>6, <1>7, <1>8, <1>9, <1>10 DEF Next, Step

(* Later writers add right blocks and take none away. *)
LEMMA LastStep ==
  ASSUME TypeOK, TransferInv, LastInv, Next
  PROVE  LastInv'
<1> USE DEF TypeOK, TransferInv, LastInv, Fetching, Downloading, Ended, fileVars, getVars
<1>1. ASSUME NEW r \in Runs, Finds(r) PROVE LastInv'
  BY <1>1 DEF Finds, Goto, file_present
<1>2. ASSUME NEW r \in Runs, FindsNothing(r) PROVE LastInv'
  BY <1>2 DEF FindsNothing, Goto, AtWay, file_present
<1>3. ASSUME NEW r \in Runs, Begin(r) PROVE LastInv'
  BY <1>3 DEF Begin, Goto
<1>4. ASSUME NEW r \in Runs, CannotBegin(r) PROVE LastInv'
  BY <1>4 DEF CannotBegin, NextWay, AtWay, Goto
<1>5. ASSUME NEW r \in Runs, Writes(r) PROVE LastInv'
  BY <1>5 DEF Writes
<1>6. ASSUME NEW r \in Runs, Breaks(r) PROVE LastInv'
  BY <1>6, NobodyElse DEF Breaks, Lost, NextWay, AtWay, Goto, file_present
<1>7. ASSUME NEW r \in Runs, Completes(r) PROVE LastInv'
  BY <1>7 DEF Completes, NextWay, AtWay, Goto, file_present
<1>8. ASSUME NEW r \in Runs, GivesUp(r) PROVE LastInv'
  BY <1>8 DEF GivesUp, Goto
<1>9. ASSUME NEW r \in Runs, Killed(r) PROVE LastInv'
  BY <1>9, NobodyElse DEF Killed, Lost, Goto
<1>10. ASSUME NEW r \in Runs, OrphanEnds(r) PROVE LastInv'
  BY <1>10, NobodyElse DEF OrphanEnds, Lost, Goto
<1> QED
  BY <1>1, <1>2, <1>3, <1>4, <1>5, <1>6, <1>7, <1>8, <1>9, <1>10 DEF Next, Step

(* Only writing changes whether the file is whole, and the run that        *)
(* emptied it last ends by completing it, or by breaking or being killed.  *)
LEMMA CauseStep ==
  ASSUME TypeOK, TransferInv, LastInv, CauseInv, Next
  PROVE  CauseInv'
<1> USE Numbers, NobodyElse DEF TypeOK, TransferInv, CauseInv, Fetching, Downloading, Ended,
  fileVars, getVars, file_present, Whole
<1>1. ASSUME NEW r \in Runs, Finds(r) PROVE CauseInv'
  BY <1>1 DEF Finds, Goto, Others
<1>2. ASSUME NEW r \in Runs, FindsNothing(r) PROVE CauseInv'
  BY <1>2 DEF FindsNothing, Goto, AtWay, Others
<1>3. ASSUME NEW r \in Runs, Begin(r) PROVE CauseInv'
  BY <1>3 DEF Begin, Goto
<1>4. ASSUME NEW r \in Runs, CannotBegin(r) PROVE CauseInv'
  BY <1>4 DEF CannotBegin, NextWay, AtWay, Goto
<1>5. ASSUME NEW r \in Runs, Writes(r) PROVE CauseInv'
  <2>1. CASE opened[r]
    <3>1. UNCHANGED <<emptied, pc>> /\ \A q \in Runs : opened[q] => opened'[q]
      BY <1>5, <2>1 DEF Writes
    <3>2. Whole => Whole'
      <4>1. off'[r] = off[r] + 1 /\ off[r] + 1 \in 1 .. Size
        BY <1>5 DEF Writes
      <4>2. len' = (IF len < off[r] + 1 THEN off[r] + 1 ELSE len) /\ right' = right \cup {off[r] + 1}
        BY <1>5, <2>1, <4>1 DEF Writes
      <4> QED
        BY <4>1, <4>2
    <3> QED
      BY <3>1, <3>2
  <2>2. CASE ~opened[r]
    BY <1>5, <2>2 DEF Writes
  <2> QED
    BY <2>1, <2>2
<1>6. ASSUME NEW r \in Runs, Breaks(r) PROVE CauseInv'
  BY <1>6 DEF Breaks, Lost, NextWay, AtWay, Goto
<1>7. ASSUME NEW r \in Runs, Completes(r) PROVE CauseInv'
  <2>1. opened[r] /\ off[r] = Size
    BY <1>7 DEF Completes
  <2>2. emptied = r => Whole
    <3> SUFFICES ASSUME emptied = r PROVE 1 .. Size \subseteq right
      BY AllRight
    <3> QED
      BY <2>1 DEF LastInv
  <2>3. Whole => file_present
    OBVIOUS
  <2> QED
    BY <1>7, <2>2, <2>3 DEF Completes, NextWay, AtWay, Goto
<1>8. ASSUME NEW r \in Runs, GivesUp(r) PROVE CauseInv'
  BY <1>8 DEF GivesUp, Goto
<1>9. ASSUME NEW r \in Runs, Killed(r) PROVE CauseInv'
  BY <1>9 DEF Killed, Lost, Goto
<1>10. ASSUME NEW r \in Runs, OrphanEnds(r) PROVE CauseInv'
  <2>1. CASE Lost(r)
    BY <1>10, <2>1 DEF OrphanEnds, Lost, Goto
  <2>2. CASE off[r] = Size /\ UNCHANGED emptied
    <3>1. emptied = r => 1 .. Size \subseteq right
      BY <2>2 DEF LastInv
    <3>2. emptied = r => Whole
      BY <3>1, AllRight
    <3> QED
      BY <1>10, <2>2, <3>2 DEF OrphanEnds, Goto
  <2> QED
    BY <1>10, <2>1, <2>2 DEF OrphanEnds
<1> QED
  BY <1>1, <1>2, <1>3, <1>4, <1>5, <1>6, <1>7, <1>8, <1>9, <1>10 DEF Next, Step

(* A run that finds the file keeps others from a download of their own. *)
LEMMA FoundStep ==
  ASSUME TypeOK, FoundInv, Next
  PROVE  FoundInv'
<1> USE Numbers, NobodyElse DEF TypeOK, FoundInv, Fetching, Downloading, Ended, fileVars,
  getVars, file_present
<1>1. ASSUME NEW r \in Runs, Finds(r) PROVE FoundInv'
  <2>1. alone'[r] => \A q \in Runs : q # r => pc[q] \notin Downloading
    BY <1>1 DEF Finds, Others
  <2>2. \A q \in Runs : q # r => pc'[q] = pc[q] /\ alone'[q] = alone[q]
    BY <1>1 DEF Finds, Goto
  <2>3. pc'[r] = "found" /\ len' = len /\ file_present
    BY <1>1 DEF Finds, Goto
  <2> QED
    BY <2>1, <2>2, <2>3
<1>2. ASSUME NEW r \in Runs, FindsNothing(r) PROVE FoundInv'
  BY <1>2 DEF FindsNothing, Goto, AtWay, Others
<1>3. ASSUME NEW r \in Runs, Begin(r) PROVE FoundInv'
  BY <1>3 DEF Begin, Goto
<1>4. ASSUME NEW r \in Runs, CannotBegin(r) PROVE FoundInv'
  BY <1>4 DEF CannotBegin, NextWay, AtWay, Goto
<1>5. ASSUME NEW r \in Runs, Writes(r) PROVE FoundInv'
  BY <1>5 DEF Writes
<1>6. ASSUME NEW r \in Runs, Breaks(r) PROVE FoundInv'
  BY <1>6 DEF Breaks, Lost, NextWay, AtWay, Goto
<1>7. ASSUME NEW r \in Runs, Completes(r) PROVE FoundInv'
  BY <1>7 DEF Completes, NextWay, AtWay, Goto
<1>8. ASSUME NEW r \in Runs, GivesUp(r) PROVE FoundInv'
  BY <1>8 DEF GivesUp, Goto
<1>9. ASSUME NEW r \in Runs, Killed(r) PROVE FoundInv'
  BY <1>9 DEF Killed, Lost, Goto
<1>10. ASSUME NEW r \in Runs, OrphanEnds(r) PROVE FoundInv'
  BY <1>10 DEF OrphanEnds, Lost, Goto
<1> QED
  BY <1>1, <1>2, <1>3, <1>4, <1>5, <1>6, <1>7, <1>8, <1>9, <1>10 DEF Next, Step

(* Only FindsNothing enters fetch, and it finds no file of a run that is alone. *)
LEMMA AloneStep ==
  ASSUME TypeOK, TransferInv, AloneInv, FetchedIsWhole, Next
  PROVE  AloneInv'
<1> USE DEF TypeOK, TransferInv, AloneInv, Fetching, Downloading, Ended, Others, fileVars, getVars
<1>1. ASSUME NEW r \in Runs, Finds(r) PROVE AloneInv'
  BY <1>1 DEF Finds, Goto, file_present
<1>2. ASSUME NEW r \in Runs, FindsNothing(r) PROVE AloneInv'
  <2>1. \A q \in Runs : pc[q] = "fetched" /\ q # r => ~alone[q]
    BY <1>2, Numbers DEF FindsNothing, file_present, FetchedIsWhole, Whole
  <2>2. \A q \in Runs : q # r /\ pc[q] \in Downloading => ~alone'[q]
    BY <1>2 DEF FindsNothing
  <2>3. alone'[r] => \A q \in Runs : q # r => pc[q] \notin Downloading
    BY <1>2 DEF FindsNothing
  <2>4. \A q \in Runs : q # r => pc'[q] = pc[q] /\ opened'[q] = opened[q] /\ (alone'[q]
    => alone[q])
    BY <1>2 DEF FindsNothing, Goto, AtWay
  <2>5. pc'[r] = "try" /\ ~opened'[r] /\ emptied' = emptied
    BY <1>2 DEF FindsNothing, Goto, AtWay
  <2> QED
    BY <2>1, <2>2, <2>3, <2>4, <2>5
<1>3. ASSUME NEW r \in Runs, Begin(r) PROVE AloneInv'
  BY <1>3 DEF Begin, Goto
<1>4. ASSUME NEW r \in Runs, CannotBegin(r) PROVE AloneInv'
  BY <1>4 DEF CannotBegin, NextWay, AtWay, Goto
<1>5. ASSUME NEW r \in Runs, Writes(r) PROVE AloneInv'
  BY <1>5 DEF Writes
<1>6. ASSUME NEW r \in Runs, Breaks(r) PROVE AloneInv'
  BY <1>6 DEF Breaks, Lost, NextWay, AtWay, Goto, file_present
<1>7. ASSUME NEW r \in Runs, Completes(r) PROVE AloneInv'
  BY <1>7 DEF Completes, NextWay, AtWay, Goto, file_present
<1>8. ASSUME NEW r \in Runs, GivesUp(r) PROVE AloneInv'
  BY <1>8 DEF GivesUp, Goto
<1>9. ASSUME NEW r \in Runs, Killed(r) PROVE AloneInv'
  BY <1>9 DEF Killed, Lost, Goto
<1>10. ASSUME NEW r \in Runs, OrphanEnds(r) PROVE AloneInv'
  BY <1>10 DEF OrphanEnds, Lost, Goto
<1> QED
  BY <1>1, <1>2, <1>3, <1>4, <1>5, <1>6, <1>7, <1>8, <1>9, <1>10 DEF Next, Step

(* A download that nobody disturbed is whole when it completes. *)
LEMMA FetchedStep ==
  ASSUME Blind = {}, TypeOK, TransferInv, LastInv, AloneInv, FetchedIsWhole, Next
  PROVE  FetchedIsWhole'
<1> USE DEF TypeOK, AloneInv, FetchedIsWhole, Whole, Fetching, Downloading, Ended, fileVars, getVars
<1>1. ASSUME NEW r \in Runs, Finds(r) PROVE FetchedIsWhole'
  BY <1>1 DEF Finds, Goto, file_present
<1>2. ASSUME NEW r \in Runs, FindsNothing(r) PROVE FetchedIsWhole'
  BY <1>2 DEF FindsNothing, Goto, AtWay, file_present
<1>3. ASSUME NEW r \in Runs, Begin(r) PROVE FetchedIsWhole'
  BY <1>3 DEF Begin, Goto
<1>4. ASSUME NEW r \in Runs, CannotBegin(r) PROVE FetchedIsWhole'
  BY <1>4 DEF CannotBegin, NextWay, AtWay, Goto
<1>5. ASSUME NEW r \in Runs, Writes(r) PROVE FetchedIsWhole'
  BY <1>5 DEF Writes
<1>6. ASSUME NEW r \in Runs, Breaks(r) PROVE FetchedIsWhole'
  BY <1>6 DEF Breaks, Lost, NextWay, AtWay, Goto, file_present
<1>7. ASSUME NEW r \in Runs, Completes(r) PROVE FetchedIsWhole'
  <2>1. ASSUME alone[r] PROVE Whole
    <3>1. opened[r] /\ off[r] = Size
      BY <1>7, CacheAssumption DEF Completes, TransferInv, CacheAssumption
    <3>2. emptied = r
      BY <1>7, <2>1, <3>1 DEF Completes
    <3>3. 1 .. Size \subseteq right
      BY <3>1, <3>2 DEF LastInv
    <3> QED
      BY <3>3, AllRight
  <2> QED
    BY <1>7, <2>1 DEF Completes, NextWay, AtWay, Goto
<1>8. ASSUME NEW r \in Runs, GivesUp(r) PROVE FetchedIsWhole'
  BY <1>8 DEF GivesUp, Goto
<1>9. ASSUME NEW r \in Runs, Killed(r) PROVE FetchedIsWhole'
  BY <1>9 DEF Killed, Lost, Goto
<1>10. ASSUME NEW r \in Runs, OrphanEnds(r) PROVE FetchedIsWhole'
  BY <1>10 DEF OrphanEnds, Lost, Goto
<1> QED
  BY <1>1, <1>2, <1>3, <1>4, <1>5, <1>6, <1>7, <1>8, <1>9, <1>10 DEF Next, Step

(* What holds at the start, and is not disturbed by a stutter. *)
LEMMA InitIInv == ASSUME Init PROVE FullInv
<1>1. TypeOK
  BY CacheAssumption DEF Init, TypeOK, CacheAssumption, Fetching, Downloading, Ended
<1> QED
  BY <1>1, CacheAssumption DEF FullInv, IInv, Init, TransferInv, LastInv, AloneInv, FetchedIsWhole,
    Fetching, CacheAssumption

(* A stutter keeps it. *)
LEMMA Stutter ==
  ASSUME FullInv, UNCHANGED vars
  PROVE  FullInv'
BY DEF FullInv, IInv, TypeOK, TransferInv, LastInv, AloneInv, FetchedIsWhole, Whole, vars, fileVars,
  getVars

(* The inductive invariant.  It needs every way to notice a transfer that  *)
(* breaks: the libcurl, curl and wget of POSIX systems do.                 *)
THEOREM FullInvHolds == Blind = {} => (Spec => []FullInv)
<1>1. Init => FullInv
  BY InitIInv
<1>2. ASSUME Blind = {} PROVE FullInv /\ [Next]_vars => FullInv'
  <2> SUFFICES ASSUME FullInv, [Next]_vars PROVE FullInv'
    OBVIOUS
  <2>1. CASE UNCHANGED vars
    BY <2>1, Stutter
  <2>2. CASE Next
    BY <1>2, <2>2, TypeStep, TransferStep, LastStep, AloneStep, FetchedStep DEF FullInv, IInv
  <2> QED
    BY <2>1, <2>2
<1>3. ASSUME Blind = {} PROVE Spec => []FullInv
  <2>1. FullInv /\ [Next]_vars => FullInv'
    BY <1>2, <1>3
  <2> QED
    BY <1>1, <2>1, PTL DEF Spec
<1> QED
  BY <1>3

(* What was downloaded with nobody else in fetch is the whole model. *)
THEOREM FetchedCorrect == Blind = {} => (Spec => []FetchedIsWhole)
<1>1. FullInv => FetchedIsWhole
  BY DEF FullInv
<1> QED
  BY <1>1, FullInvHolds, PTL

(* For every platform: types, what the last download settles, and what a   *)
(* run can find.                                                           *)
BaseInv == TypeOK /\ TransferInv /\ LastInv /\ CauseInv /\ FoundInv

(* What holds on every platform, also where a broken transfer is not noticed. *)
THEOREM BaseInvHolds == Spec => []BaseInv
<1>1. Init => BaseInv
  <2> SUFFICES ASSUME Init PROVE BaseInv
    OBVIOUS
  <2>1. CauseInv /\ FoundInv
    BY NobodyElse DEF Init, CauseInv, FoundInv
  <2> QED
    BY <2>1, InitIInv DEF BaseInv, FullInv, IInv
<1>2. BaseInv /\ [Next]_vars => BaseInv'
  <2> SUFFICES ASSUME BaseInv, [Next]_vars PROVE BaseInv'
    OBVIOUS
  <2>1. CASE UNCHANGED vars
    BY <2>1 DEF BaseInv, TypeOK, TransferInv, LastInv, CauseInv, FoundInv, Whole,
                file_present, vars, fileVars, getVars
  <2>2. CASE Next
    BY <2>2, TypeStep, TransferStep, LastStep, CauseStep, FoundStep DEF BaseInv
  <2> QED
    BY <2>1, <2>2
<1> QED
  BY <1>1, <1>2, PTL DEF Spec

(* Every state is well formed. *)
THEOREM CacheTypeCorrect == Spec => []TypeOK
<1>1. BaseInv => TypeOK
  BY DEF BaseInv
<1> QED
  BY <1>1, BaseInvHolds, PTL

(* Whoever emptied the file last and completes leaves the whole model. *)
THEOREM LastOneCorrect == Spec => []LastOneSettles
<1>1. BaseInv => LastOneSettles
  <2> SUFFICES ASSUME BaseInv, NEW r \in Runs, emptied = r, opened[r], off[r] = Size
               PROVE  Whole
    BY DEF LastOneSettles
  <2>1. 1 .. Size \subseteq right
    BY DEF BaseInv, LastInv
  <2> QED
    BY <2>1, AllRight DEF BaseInv
<1> QED
  BY <1>1, BaseInvHolds, PTL

(* A run that finds the file while nothing is downloading has the whole    *)
(* model, or what a download that broke or was killed has left.            *)
THEOREM FoundCorrect == Spec => []FoundIsSettled
<1>1. BaseInv => FoundIsSettled
  <2> SUFFICES ASSUME BaseInv, NEW r \in Runs, pc[r] = "found", alone[r]
               PROVE  Whole \/ emptied = Nobody
    BY DEF FoundIsSettled
  <2>1. \A q \in Runs : pc[q] \notin {"get", "orphan"}
    BY DEF BaseInv, FoundInv, Downloading, Fetching
  <2>2. emptied \in Runs \cup {Nobody}
    BY DEF BaseInv, TypeOK
  <2> QED
    BY <2>1, <2>2 DEF BaseInv, CauseInv
<1> QED
  BY <1>1, BaseInvHolds, PTL
=============================================================================
