----------------------------- MODULE ParamsFetch -----------------------------
(***************************************************************************)
(* `gpuproxy paramfetch` (gpuproxy/src/cli/params_fetch): it brings the    *)
(* parameter files that c2 needs into the cache directory, with ipget,     *)
(* which it downloads first, and ends when the digests of all are right.   *)
(* One process at a time works on the directory; it may die at any point   *)
(* and is started again on what it left there.                             *)
(***************************************************************************)
CONSTANTS
  Files,       \* the entries of parameters.json: name, ext and sector_size
  SectorSizes  \* the sizes asked for with --sector-size

VARIABLES
  cache,    \* file -> its content in the cache directory
  ipget,    \* the ipget binary
  pc,
  todo,     \* the files still to be looked at, or downloaded, in this round
  wanted,   \* the files found to need a download
  misread,  \* history: the files that could not be read when checked
  faulty    \* whether processes still die and reads of files fail

vars == <<cache, ipget, pc, todo, wanted, misread, faulty>>

\* "wrong" is any content with another digest, as of a broken download.
Content == {"absent", "wrong", "good"}

\* Whatever verifying keys are for, they are not fetched.
Selected ==
  {f \in Files : f.ext # "vk" /\ (f.ext = "params" => f.sector_size \in SectorSizes)}

Init ==
  /\ cache \in [Files -> Content]
  /\ ipget \in {"absent", "good"}
  /\ pc = "down"
  /\ todo = {} /\ wanted = {} /\ misread = {}
  /\ faulty = TRUE

\* Mutant: the entries are not filtered.
StartUnfiltered ==
  /\ pc \in {"down", "done"}
  /\ pc' = "check"
  /\ todo' = Files /\ wanted' = {}
  /\ UNCHANGED <<cache, ipget, misread, faulty>>

Start ==
  /\ pc \in {"down", "done"}
  /\ pc' = "check"
  /\ todo' = Selected /\ wanted' = {}
  /\ UNCHANGED <<cache, ipget, misread, faulty>>

-----------------------------------------------------------------------------
(* get_filenames_requiring_download, one file at a time *)

Keep(f) == todo' = todo \ {f} /\ UNCHANGED wanted
Want(f) == todo' = todo \ {f} /\ wanted' = wanted \cup {f}

Checking == pc \in {"check", "recheck"}

\* Mutant: a file that is there is downloaded again, whatever is in it.
CheckDigestWantsAll(f) ==
  /\ Checking
  /\ f \in todo
  /\ Want(f)
  /\ UNCHANGED <<cache, ipget, pc, misread, faulty>>

\* A wrong file is renamed to "...-invalid-digest".
CheckDigest(f) ==
  /\ Checking
  /\ f \in todo
  /\ IF cache[f] = "good" THEN Keep(f) ELSE Want(f)
  /\ cache' = [cache EXCEPT ![f] = IF @ = "wrong" THEN "absent" ELSE @]
  /\ UNCHANGED <<ipget, pc, misread, faulty>>

\* A file that cannot be read is wanted, and left where it is.
CheckFails(f) ==
  /\ faulty
  /\ Checking
  /\ f \in todo
  /\ cache[f] # "absent"
  /\ Want(f)
  /\ misread' = misread \cup {f}
  /\ UNCHANGED <<cache, ipget, pc, faulty>>

\* Mutant: the loop does not look at the new list.
CheckedAgain ==
  /\ Checking
  /\ todo = {}
  /\ IF pc = "check"
     THEN pc' = (IF wanted = {} THEN "done" ELSE "ipget") /\ UNCHANGED todo
     ELSE pc' = "download" /\ todo' = wanted
  /\ UNCHANGED <<cache, ipget, wanted, misread, faulty>>

Checked ==
  /\ Checking
  /\ todo = {}
  /\ \/ wanted = {} /\ pc' = "done" /\ UNCHANGED todo
     \/ wanted # {} /\ pc = "check" /\ pc' = "ipget" /\ UNCHANGED todo
     \/ wanted # {} /\ pc = "recheck" /\ pc' = "download" /\ todo' = wanted
  /\ UNCHANGED <<cache, ipget, wanted, misread, faulty>>

-----------------------------------------------------------------------------
(* ipget, and the loop of downloads *)

\* A path that exists is taken for the binary; otherwise the archive is
\* downloaded and its unpacking begins.
FindIpget ==
  /\ pc = "ipget"
  /\ \/ ipget # "absent" /\ pc' = "download" /\ todo' = wanted /\ UNCHANGED ipget
     \/ ipget = "absent" /\ pc' = "unpack" /\ ipget' = "partial" /\ UNCHANGED todo
  /\ UNCHANGED <<cache, wanted, misread, faulty>>

Unpack ==
  /\ pc = "unpack"
  /\ ipget' = "good"
  /\ pc' = "download" /\ todo' = wanted
  /\ UNCHANGED <<cache, wanted, misread, faulty>>

\* What ipget may leave in the cache, whether it reports success or not; a
\* binary that is cut short cannot be run.
Written(f) == IF ipget = "good" THEN {cache[f], "wrong", "good"} ELSE {cache[f]}

Download(f) ==
  /\ pc = "download"
  /\ f \in todo
  /\ \E content \in Written(f) : cache' = [cache EXCEPT ![f] = content]
  /\ todo' = todo \ {f}
  /\ UNCHANGED <<ipget, pc, wanted, misread, faulty>>

\* Mutant: a round of downloads is taken for a success.
RecheckSkipped ==
  /\ pc = "download"
  /\ todo = {}
  /\ pc' = "done"
  /\ UNCHANGED <<cache, ipget, todo, wanted, misread, faulty>>

\* All of the round are checked again.
Recheck ==
  /\ pc = "download"
  /\ todo = {}
  /\ pc' = "recheck"
  /\ todo' = wanted /\ wanted' = {}
  /\ UNCHANGED <<cache, ipget, misread, faulty>>

-----------------------------------------------------------------------------
\* The process dies, with the ipget it runs; a failing download or unpacking
\* of ipget and a failing rename end it, too.
Crash ==
  /\ faulty
  /\ pc \notin {"down", "done"}
  /\ pc' = "down"
  /\ \/ UNCHANGED cache
     \/ \E f \in todo : /\ pc = "download" /\ ipget = "good"
                        /\ cache' = [cache EXCEPT ![f] = "wrong"]
  /\ todo' = {} /\ wanted' = {}
  /\ UNCHANGED <<ipget, misread, faulty>>

Calm ==
  /\ faulty
  /\ faulty' = FALSE
  /\ UNCHANGED <<cache, ipget, pc, todo, wanted, misread>>

Step ==
  \/ \E f \in Files : CheckDigest(f) \/ Download(f)
  \/ Checked \/ FindIpget \/ Unpack \/ Recheck

Next == Start \/ Step \/ (\E f \in Files : CheckFails(f)) \/ Crash \/ Calm

Spec == Init /\ [][Next]_vars

(***************************************************************************)
(* The process goes on, is started again when it died, and a file that is  *)
(* downloaded again and again arrives at last.                             *)
(***************************************************************************)
Fairness ==
  /\ WF_vars(Step)
  /\ WF_vars(pc = "down" /\ Start)
  /\ \A f \in Files : SF_vars(Download(f) /\ cache'[f] = "good")

FairSpec == Spec /\ Fairness

-----------------------------------------------------------------------------
\* The types of the variables; only selected files are worked on, and the
\* binary is cut short only while it is unpacked or after a crash.
TypeOK ==
  /\ cache \in [Files -> Content]
  /\ ipget \in {"absent", "partial", "good"}
  /\ pc \in {"down", "check", "ipget", "unpack", "download", "recheck", "done"}
  /\ todo \subseteq Selected /\ wanted \subseteq Selected
  /\ misread \subseteq Selected
  /\ faulty \in BOOLEAN

(***************************************************************************)
(* mod.rs "succesfully updated all files, exiting": when the command ends  *)
(* by itself, every selected file is in the cache with the right digest,   *)
(* those too that were looked at in the first round only.                  *)
(***************************************************************************)
DoneIsComplete == pc = "done" => \A f \in Selected : cache[f] = "good"

(***************************************************************************)
(* A good file, hours of download, is not moved away, downloaded again or  *)
(* overwritten, in this run of the command or in a later one, unless it    *)
(* could not be read when it was checked.                                  *)
(***************************************************************************)
GoodIsKept ==
  [][\A f \in Files :
       cache[f] = "good" /\ f \notin misread => cache'[f] = "good"]_vars

(***************************************************************************)
(* After the faults the command ends, unless an earlier run died while it  *)
(* unpacked ipget: what is at the path passes for the binary, cannot be    *)
(* run, and the loop goes round for ever.                                  *)
(***************************************************************************)
FetchEnds == ~faulty ~> (pc = "done" \/ [](ipget = "partial"))
=============================================================================
