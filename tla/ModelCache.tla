------------------------------ MODULE ModelCache ------------------------------
(***************************************************************************)
(* The model cache (src/stelnet_cache.cpp): runs of the program look a     *)
(* model file up, and download it when it is not there.                    *)
(*                                                                         *)
(* Every run writes to the final name of the file: fetch opens it, which   *)
(* empties it, and writes what arrives, each download at its own offset.   *)
(* It tries one way to download after the other (WinHTTP, libcurl, the     *)
(* commands curl and wget) and believes one that ends well and leaves a    *)
(* file that is not empty.  Nothing removes what a broken download left,   *)
(* and nothing keeps two runs from one file.                               *)
(*                                                                         *)
(* The file is Size blocks.  All downloads bring the same bytes, so that   *)
(* the content is a length and the set of the blocks that are right; the   *)
(* others are holes.  Other directories that are searched (the list of     *)
(* well_known_search_dirs) hold files that the program never writes and    *)
(* are left out: a file found there ends the story.                        *)
(*                                                                         *)
(* A definition marked "Faulty" is not part of the specification: it is    *)
(* what a mistake in the definition after it would look like, to show that *)
(* a property notices.                                                     *)
(***************************************************************************)
EXTENDS Integers, Sequences

CONSTANTS
  Runs,      (* runs of the program, at once or one after the other         *)
  Nobody,    (* not a run                                                   *)
  Size,      (* blocks of the file                                          *)
  Ways,      (* the ways to download, in the order in which fetch tries them *)
  Lazy,      (* those that open the file with the first byte: curl          *)
  Blind,     (* those that do not notice a transfer that breaks: WinHTTP    *)
  Commands   (* those that std::system runs: curl and wget                  *)

ASSUME CacheAssumption ==
  /\ Nobody \notin Runs
  /\ Size \in Nat \ {0}
  /\ Ways \in Seq(STRING)
  /\ Lazy \subseteq STRING /\ Blind \subseteq STRING /\ Commands \subseteq STRING

VARIABLES
  len, right,   (* the file: its length (0 also when it does not exist) and its right blocks *)
  pc,           (* where each run is                                                *)
  way,          (* the way to download it is at                                     *)
  opened,       (* it has opened the file for writing                               *)
  off,          (* blocks it has written in this transfer                           *)
  emptied,      (* history: the run that emptied the file last; Nobody once its     *)
                (* download has broken or was killed                                *)
  alone         (* history: no other download during its own, or when it found one  *)

fileVars == <<len, right>>
getVars  == <<way, opened, off>>
vars == <<fileVars, pc, getVars, emptied, alone>>

Fetching    == {"try", "get"}
Downloading == Fetching \cup {"orphan"}
Ended       == {"found", "fetched", "failed", "killed"}
Others(r)   == {q \in Runs \ {r} : pc[q] \in Downloading}

(* file_present                                                            *)
file_present == len > 0
Whole == len = Size /\ right = 1 .. Size

Init ==
  /\ len = 0 /\ right = {}
  /\ pc = [r \in Runs |-> "lookup"]
  /\ way = [r \in Runs |-> 1]
  /\ opened = [r \in Runs |-> FALSE]
  /\ off = [r \in Runs |-> 0]
  /\ emptied = Nobody
  /\ alone = [r \in Runs |-> TRUE]

(***************************************************************************)
(* ensure_cached_file                                                      *)
(***************************************************************************)

Goto(r, l) == pc' = [pc EXCEPT ![r] = l]
AtWay(r, n) ==
  /\ way' = [way EXCEPT ![r] = n]
  /\ opened' = [opened EXCEPT ![r] = FALSE]
  /\ off' = [off EXCEPT ![r] = 0]

Finds(r) ==
  /\ pc[r] = "lookup" /\ file_present
  /\ Goto(r, "found")
  /\ alone' = [alone EXCEPT ![r] = Others(r) = {}]
  /\ UNCHANGED <<fileVars, getVars, emptied>>

FindsNothing(r) ==
  /\ pc[r] = "lookup" /\ ~file_present
  /\ Goto(r, "try")
  /\ AtWay(r, 1)
  /\ alone' = [q \in Runs |-> IF q = r THEN Others(r) = {} ELSE alone[q] /\ q \notin Others(r)]
  /\ UNCHANGED <<fileVars, emptied>>

(***************************************************************************)
(* fetch                                                                   *)
(***************************************************************************)

(* fopen(dest, "wb") of libcurl and WinHTTP, wget -O; the curl command     *)
(* begins its transfer without the file.                                   *)
Begin(r) ==
  /\ pc[r] = "try" /\ way[r] <= Len(Ways)
  /\ Goto(r, "get")
  /\ IF Ways[way[r]] \in Lazy
     THEN UNCHANGED <<fileVars, opened, emptied>>
     ELSE /\ len' = 0 /\ right' = {}
          /\ opened' = [opened EXCEPT ![r] = TRUE]
          /\ emptied' = r
  /\ UNCHANGED <<way, off, alone>>

(* Faulty: what arrives is appended to the file, whoever else writes it.   *)
Appends(r) ==
  /\ pc[r] \in {"get", "orphan"} /\ off[r] < Size
  /\ off' = [off EXCEPT ![r] = @ + 1]
  /\ opened' = [opened EXCEPT ![r] = TRUE]
  /\ LET kept == IF opened[r] THEN len ELSE 0
     IN  /\ len' = kept + 1
         /\ right' = {b \in right : b <= kept} \cup {b \in {kept + 1} : b = off[r] + 1}
  /\ emptied' = IF opened[r] THEN emptied ELSE r
  /\ UNCHANGED <<pc, way, alone>>

(* The next block arrives and is written at the offset of this download.   *)
Writes(r) ==
  /\ pc[r] \in {"get", "orphan"} /\ off[r] < Size
  /\ off' = [off EXCEPT ![r] = @ + 1]
  /\ opened' = [opened EXCEPT ![r] = TRUE]
  /\ IF opened[r]
     THEN /\ len' = IF len < off'[r] THEN off'[r] ELSE len
          /\ right' = right \cup {off'[r]}
          /\ UNCHANGED emptied
     ELSE /\ len' = 1 /\ right' = {1}
          /\ emptied' = r
  /\ UNCHANGED <<pc, way, alone>>

NextWay(r) ==
  /\ AtWay(r, way[r] + 1)
  /\ Goto(r, "try")

(* This way is not there, cannot open the file or reaches no server.       *)
CannotBegin(r) ==
  /\ pc[r] = "try" /\ way[r] <= Len(Ways)
  /\ NextWay(r)
  /\ UNCHANGED <<fileVars, emptied, alone>>

(* Faulty: what counts is the file, not how its download ended.            *)
BreaksUnseen(r) ==
  /\ pc[r] = "get"
  /\ IF file_present THEN Goto(r, "fetched") /\ UNCHANGED getVars
                     ELSE NextWay(r)
  /\ UNCHANGED <<fileVars, emptied, alone>>

(* The download of this run will not be completed. *)
Lost(r) == emptied' = IF emptied = r THEN Nobody ELSE emptied

(* The transfer breaks: an error, the five minutes of CURLOPT_TIMEOUT, a   *)
(* full disk.  One that does not notice leaves it to file_present.         *)
Breaks(r) ==
  /\ pc[r] = "get"
  /\ IF Ways[way[r]] \in Blind /\ file_present
     THEN Goto(r, "fetched") /\ UNCHANGED getVars
     ELSE NextWay(r)
  /\ Lost(r)
  /\ UNCHANGED <<fileVars, alone>>

(* The transfer ends well, "&& file_present(dest)".                        *)
Completes(r) ==
  /\ pc[r] = "get" /\ off[r] = Size
  /\ IF file_present THEN Goto(r, "fetched") /\ UNCHANGED getVars
                     ELSE NextWay(r)
  /\ UNCHANGED <<fileVars, emptied, alone>>

(* "download failed": no way is left.                                      *)
GivesUp(r) ==
  /\ pc[r] = "try" /\ way[r] > Len(Ways)
  /\ Goto(r, "failed")
  /\ UNCHANGED <<fileVars, getVars, emptied, alone>>

(***************************************************************************)
(* A run is killed: by a signal, a crash, a power cut.  std::system starts *)
(* a process of its own, which may go on without the run.                  *)
(***************************************************************************)

Killed(r) ==
  /\ pc[r] \in Fetching
  /\ \/ Goto(r, "killed") /\ Lost(r)
     \/ /\ pc[r] = "get" /\ Ways[way[r]] \in Commands
        /\ Goto(r, "orphan") /\ UNCHANGED emptied
  /\ UNCHANGED <<fileVars, getVars, alone>>

(* The command completes or breaks, and nobody looks at its file.          *)
OrphanEnds(r) ==
  /\ pc[r] = "orphan"
  /\ Goto(r, "killed")
  /\ Lost(r) \/ (off[r] = Size /\ UNCHANGED emptied)
  /\ UNCHANGED <<fileVars, getVars, alone>>

Step(r) ==
  Finds(r) \/ FindsNothing(r) \/ Begin(r) \/ CannotBegin(r) \/ Writes(r) \/ Breaks(r)
  \/ Completes(r) \/ GivesUp(r)

Next == \E r \in Runs : Step(r) \/ Killed(r) \/ OrphanEnds(r)

Spec == Init /\ [][Next]_vars

(***************************************************************************)
(* Properties.                                                             *)
(***************************************************************************)

(* The state is well formed: nothing is written past the end of the model, *)
(* and a right block is within the file.                                   *)
TypeOK ==
  /\ len \in 0 .. Size /\ right \subseteq 1 .. len
  /\ pc \in [Runs -> {"lookup"} \cup Downloading \cup Ended]
  /\ way \in [Runs -> 1 .. Len(Ways) + 1]
  /\ opened \in [Runs -> BOOLEAN]
  /\ off \in [Runs -> 0 .. Size]
  /\ emptied \in Runs \cup {Nobody}
  /\ alone \in [Runs -> BOOLEAN]

(* What fetch reports as downloaded is the whole model and stays it while  *)
(* the run uses it, if no other download was under way at the same time,   *)
(* that of a command left behind by a killed run included: what an earlier *)
(* way of the same fetch had left in the file does not count.              *)
FetchedIsWhole == \A r \in Runs : pc[r] = "fetched" /\ alone[r] => Whole

(* Two downloads at once do no lasting harm: if the one that emptied the   *)
(* file last completes, the file is whole, whatever the others wrote       *)
(* around it, and whether they were killed or it outlived its own run.     *)
LastOneSettles ==
  \A r \in Runs : emptied = r /\ opened[r] /\ off[r] = Size => Whole

(* When no download is under way, the file is whole unless the one that    *)
(* emptied it last broke or was killed: downloads that all end well leave  *)
(* nothing else, however they overlapped.  So a run that finds the file    *)
(* then has the whole model, or the rest of a failure, as long as it runs. *)
FoundIsSettled ==
  \A r \in Runs : pc[r] = "found" /\ alone[r] => Whole \/ emptied = Nobody

=============================================================================
