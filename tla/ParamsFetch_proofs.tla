------------------------- MODULE ParamsFetch_proofs -------------------------
(***************************************************************************)
(* Proofs about the parameter fetch for every list of files and sizes.     *)
(***************************************************************************)
EXTENDS ParamsFetch, TLAPS

(***************************************************************************)
(* While the command runs a selected file that is not good is still to be  *)
(* looked at or known to be wanted, and what it downloads it knows to be   *)
(* wanted: nothing drops out of the rounds.                                *)
(***************************************************************************)
NothingForgotten ==
  /\ pc # "down" => \A f \in Selected : cache[f] = "good" \/ f \in todo \cup wanted
  /\ pc = "download" => todo \subseteq wanted
  /\ pc \in {"ipget", "unpack", "done"} => todo = {}
  /\ pc = "done" => wanted = {}

\* The files the next download may overwrite.
Threatened == IF pc = "download" THEN todo ELSE wanted

(***************************************************************************)
(* Of the good files only those that could not be read are to be           *)
(* downloaded: a file that arrives in a round leaves the round.            *)
(***************************************************************************)
OnlyMisreadThreatened ==
  \A f \in Threatened : cache[f] = "good" => f \in misread

FetchInv == TypeOK /\ NothingForgotten /\ OnlyMisreadThreatened

-----------------------------------------------------------------------------
LEMMA InitFetch == Init => FetchInv
BY DEF Init, FetchInv, TypeOK, NothingForgotten, OnlyMisreadThreatened,
       Threatened, Content

LEMMA NextFetch == FetchInv /\ [Next]_vars => FetchInv'
<1> SUFFICES ASSUME FetchInv, [Next]_vars PROVE FetchInv'
  OBVIOUS
<1>t. TypeOK /\ NothingForgotten /\ OnlyMisreadThreatened
  BY DEF FetchInv
<1>s. Selected \subseteq Files
  BY DEF Selected
<1>1. CASE Start
  <2>1. TypeOK'
    BY <1>1, <1>t DEF Start, TypeOK
  <2>2. NothingForgotten' /\ OnlyMisreadThreatened'
    BY <1>1 DEF Start, NothingForgotten, OnlyMisreadThreatened, Threatened
  <2> QED
    BY <2>1, <2>2 DEF FetchInv
<1>2. ASSUME NEW f \in Files, CheckDigest(f)
      PROVE  FetchInv'
  <2>1. /\ cache' \in [Files -> Content]
        /\ cache'[f] = IF cache[f] = "wrong" THEN "absent" ELSE cache[f]
        /\ \A g \in Files \ {f} : cache'[g] = cache[g]
    BY <1>2, <1>t DEF CheckDigest, TypeOK, Content
  <2>2. \A g \in Files : cache'[g] = "good" <=> cache[g] = "good"
    BY <2>1
  <2>3. f \in Selected
    BY <1>2, <1>t DEF CheckDigest, TypeOK
  <2>4. TypeOK'
    BY <1>2, <1>t, <2>1, <2>3 DEF CheckDigest, TypeOK, Keep, Want
  <2>5. NothingForgotten'
    BY <1>2, <1>t, <1>s, <2>2
       DEF CheckDigest, NothingForgotten, Keep, Want, Checking
  <2>6. OnlyMisreadThreatened'
    <3>1. \A g \in wanted : cache[g] = "good" => g \in misread
      BY <1>2, <1>t
         DEF CheckDigest, Checking, OnlyMisreadThreatened, Threatened
    <3>2. Threatened' \subseteq wanted \cup (IF cache[f] = "good" THEN {} ELSE {f})
      BY <1>2 DEF CheckDigest, Checking, Threatened, Keep, Want
    <3>3. wanted \subseteq Files /\ UNCHANGED misread
      BY <1>2, <1>t, <1>s DEF CheckDigest, TypeOK
    <3> QED
      BY <2>2, <3>1, <3>2, <3>3 DEF OnlyMisreadThreatened
  <2> QED
    BY <2>4, <2>5, <2>6 DEF FetchInv
<1>3. ASSUME NEW f \in Files, CheckFails(f)
      PROVE  FetchInv'
  <2>1. f \in Selected
    BY <1>3, <1>t DEF CheckFails, TypeOK
  <2>2. TypeOK'
    BY <1>3, <1>t, <2>1 DEF CheckFails, TypeOK, Want
  <2>3. NothingForgotten'
    BY <1>3, <1>t DEF CheckFails, NothingForgotten, Want, Checking
  <2>4. OnlyMisreadThreatened'
    BY <1>3, <1>t
       DEF CheckFails, OnlyMisreadThreatened, Threatened, Want, Checking
  <2> QED
    BY <2>2, <2>3, <2>4 DEF FetchInv
<1>4. CASE Checked
  <2>1. TypeOK'
    BY <1>4, <1>t DEF Checked, TypeOK
  <2>2. NothingForgotten'
    BY <1>4, <1>t DEF Checked, NothingForgotten, Checking
  <2>3. OnlyMisreadThreatened'
    BY <1>4, <1>t DEF Checked, OnlyMisreadThreatened, Threatened, Checking
  <2> QED
    BY <2>1, <2>2, <2>3 DEF FetchInv
<1>5. CASE FindIpget \/ Unpack
  <2>1. TypeOK'
    BY <1>5, <1>t DEF FindIpget, Unpack, TypeOK
  <2>2. NothingForgotten'
    BY <1>5, <1>t DEF FindIpget, Unpack, NothingForgotten
  <2>3. OnlyMisreadThreatened'
    BY <1>5, <1>t DEF FindIpget, Unpack, OnlyMisreadThreatened, Threatened
  <2> QED
    BY <2>1, <2>2, <2>3 DEF FetchInv
<1>6. ASSUME NEW f \in Files, Download(f)
      PROVE  FetchInv'
  <2>1. /\ cache' \in [Files -> Content]
        /\ \A g \in Files \ {f} : cache'[g] = cache[g]
    <3>1. Written(f) \subseteq Content
      BY <1>t DEF Written, TypeOK, Content
    <3>2. PICK content \in Content : cache' = [cache EXCEPT ![f] = content]
      BY <1>6, <3>1 DEF Download
    <3> QED
      BY <1>t, <3>2 DEF TypeOK
  <2>2. TypeOK'
    BY <1>6, <1>t, <2>1 DEF Download, TypeOK
  <2>3. NothingForgotten'
    BY <1>6, <1>t, <1>s, <2>1 DEF Download, NothingForgotten
  <2>4. OnlyMisreadThreatened'
    BY <1>6, <1>t, <1>s, <2>1
       DEF Download, OnlyMisreadThreatened, Threatened, TypeOK
  <2> QED
    BY <2>2, <2>3, <2>4 DEF FetchInv
<1>7. CASE Recheck
  <2>1. TypeOK'
    BY <1>7, <1>t DEF Recheck, TypeOK
  <2>2. NothingForgotten' /\ OnlyMisreadThreatened'
    BY <1>7, <1>t
       DEF Recheck, NothingForgotten, OnlyMisreadThreatened, Threatened
  <2> QED
    BY <2>1, <2>2 DEF FetchInv
<1>8. CASE Crash
  <2>1. cache' \in [Files -> Content]
    BY <1>8, <1>t DEF Crash, TypeOK, Content
  <2>2. TypeOK'
    BY <1>8, <1>t, <2>1 DEF Crash, TypeOK
  <2>3. NothingForgotten' /\ OnlyMisreadThreatened'
    BY <1>8 DEF Crash, NothingForgotten, OnlyMisreadThreatened, Threatened
  <2> QED
    BY <2>2, <2>3 DEF FetchInv
<1>9. CASE Calm \/ UNCHANGED vars
  BY <1>9, <1>t
     DEF Calm, vars, FetchInv, TypeOK, NothingForgotten,
         OnlyMisreadThreatened, Threatened
<1> QED
  BY <1>1, <1>2, <1>3, <1>4, <1>5, <1>6, <1>7, <1>8, <1>9 DEF Next, Step

LEMMA FetchInvariant == Spec => []FetchInv
BY InitFetch, NextFetch, PTL DEF Spec

-----------------------------------------------------------------------------
(***************************************************************************)
(* The variables of `paramfetch` have their types, and only selected files *)
(* are looked at, wanted or downloaded (mod.rs get_ps: a verifying key or  *)
(* a file of another sector size is never touched).                        *)
(***************************************************************************)
THEOREM FetchTyped == Spec => []TypeOK
BY FetchInvariant, PTL DEF FetchInv

(***************************************************************************)
(* The command ends by itself only when every selected file is in the      *)
(* cache with the right digest, whatever crashed, was misread or was badly *)
(* downloaded before (mod.rs, the loop of get_filenames_requiring_download)*)
(***************************************************************************)
THEOREM FetchComplete == Spec => []DoneIsComplete
<1>1. FetchInv => DoneIsComplete
  BY DEF FetchInv, NothingForgotten, DoneIsComplete
<1> QED
  BY <1>1, FetchInvariant, PTL

(***************************************************************************)
(* No step of the command, in this run of it or in a later one, replaces a *)
(* file with the right digest, but one it failed to read when it checked   *)
(* it (check_file and the rename to "...-invalid-digest").                 *)
(***************************************************************************)
THEOREM FetchKeepsGood == Spec => GoodIsKept
<1>1. FetchInv /\ [Next]_vars
        => [\A f \in Files :
              cache[f] = "good" /\ f \notin misread => cache'[f] = "good"]_vars
  <2> SUFFICES ASSUME FetchInv, [Next]_vars,
                      NEW f \in Files, cache[f] = "good", f \notin misread
               PROVE  cache'[f] = "good"
    OBVIOUS
  <2>t. cache \in [Files -> Content] /\ f \notin Threatened
    BY DEF FetchInv, TypeOK, OnlyMisreadThreatened
  <2>1. ASSUME NEW g \in Files, CheckDigest(g) PROVE cache'[f] = "good"
    BY <2>1, <2>t DEF CheckDigest
  <2>2. ASSUME NEW g \in Files, Download(g) PROVE cache'[f] = "good"
    <3>1. g # f
      BY <2>2, <2>t DEF Download, Threatened
    <3>2. PICK content : cache' = [cache EXCEPT ![g] = content]
      BY <2>2 DEF Download
    <3> QED
      BY <2>t, <3>1, <3>2
  <2>3. CASE Crash
    <3>1. CASE UNCHANGED cache
      BY <3>1
    <3>2. ASSUME NEW g \in todo, pc = "download",
                 cache' = [cache EXCEPT ![g] = "wrong"]
          PROVE  cache'[f] = "good"
      BY <2>t, <3>2 DEF Threatened
    <3> QED
      BY <2>3, <3>1, <3>2 DEF Crash
  <2>4. CASE UNCHANGED cache
    BY <2>4
  <2> QED
    BY <2>1, <2>2, <2>3, <2>4
       DEF Next, Start, Step, Checked, FindIpget, Unpack, Recheck, CheckFails,
           Calm, vars
<1> QED
  BY <1>1, FetchInvariant, PTL DEF Spec, GoodIsKept
=============================================================================
