--------------------------- MODULE RunFilesProofs ---------------------------
(***************************************************************************)
(* Proofs about the two files of a run that outlive its scan, each written *)
(* by several threads.  CheckpointStore, for every size of a checkpoint    *)
(* and every bound: its types, and that saves which do not overlap are     *)
(* durable across crashes.  AuthSessions, for every number of sessions and *)
(* of refreshes at work: when the file of a session goes back.             *)
(***************************************************************************)
EXTENDS CheckpointStore, AuthSessions, SequenceTheorems, TLAPS

\* The assumptions, constant by constant.
LEMMA Constant ==
    /\ Chunks \in Nat /\ Chunks >= 1 /\ Retries \in Nat /\ Retries >= 1
    /\ MaxSaves \in Nat /\ MaxRequests \in Nat /\ MaxStarts \in Nat
    /\ Hole \notin 0..MaxSaves
BY BoundAssumption, FileAssumption, HoleAssumption DEF Payloads

USE Constant

\* No payload is ahead of the crawler's saves; without this, its progress after a
\* resume has no bound.
SavesBound ==
    /\ progress <= saves /\ saved <= saves
    /\ \A s \in Savers : saver[s].payload <= saves
    /\ \A i \in Inodes, k \in 1..Chunks : content[i][k] # Hole => content[i][k] <= saves

Filled(p) == [k \in 1..Chunks |-> p]

\* The checkpoint is the payload that was saved last.
Stored == IF name["main"] = NoFile THEN saved = 0 ELSE content[name["main"]] = Filled(saved)

\* A saver that writes has the temporary file, filled up to its chunk; before its
\* rename the temporary file is full.
HasWritten(s) ==
    /\ saver[s].pc = "open" => saver[s].chunk = 1
    /\ saver[s].pc = "write" =>
          /\ name["tmp"] = saver[s].inode /\ name["tmp"] # NoFile
          /\ \A k \in 1..Chunks :
                k < saver[s].chunk => content[saver[s].inode][k] = saver[s].payload
    /\ saver[s].pc = "rename" =>
          /\ name["tmp"] # NoFile
          /\ content[name["tmp"]] = Filled(saver[s].payload)

LoneSaver ==
    ~raced =>
        /\ \A s, t \in Savers : Busy(s) /\ Busy(t) => s = t
        /\ Stored
        /\ \A s \in Savers : HasWritten(s)

IInv == TypeOK /\ SavesBound /\ LoneSaver

\* There is no file before the first save.
LEMMA InitIInv == Init => IInv
<1> SUFFICES ASSUME Init PROVE IInv
  OBVIOUS
<1>0. Idle \in [pc : {"idle", "open", "write", "rename"}, payload : Payloads,
                inode : {NoFile} \cup Inodes, chunk : 1..Chunks, attempt : 1..Retries]
  BY DEF Idle, Payloads
<1>n. /\ name \in [Names -> {NoFile} \cup Inodes]
      /\ name["tmp"] = NoFile
  BY DEF Init, Names
<1>c. content \in [Inodes -> [1..Chunks -> Payloads \cup {Hole}]]
  BY DEF Init, Blank
<1>s. /\ saver \in [Savers -> [pc : {"idle", "open", "write", "rename"}, payload : Payloads,
                              inode : {NoFile} \cup Inodes, chunk : 1..Chunks,
                              attempt : 1..Retries]]
  BY <1>0 DEF Init
<1>r. /\ crawl = "off" /\ progress \in Payloads /\ saves \in 0..MaxSaves
      /\ requests \in 0..MaxRequests /\ starts \in 0..MaxStarts
      /\ saved \in Payloads
  BY DEF Init, Payloads
<1>1. TypeOK
  BY <1>n, <1>c, <1>s, <1>r DEF Init, TypeOK
<1>2. SavesBound
  BY DEF Init, SavesBound, Idle, Blank, Savers, Inodes
<1>3. LoneSaver
  BY DEF Init, LoneSaver, Stored, HasWritten, Busy, Idle, Names, NoFile, Savers
<1> QED
  BY <1>1, <1>2, <1>3 DEF IInv

\* What load returns is no further than the crawler's saves.
LEMMA LoadedIsBounded == IInv => Loaded \in 0..saves
<1> SUFFICES ASSUME IInv PROVE Loaded \in 0..saves
  OBVIOUS
<1>1. CASE name["main"] # NoFile /\ Whole(name["main"])
  <2>1. name["main"] \in Inodes
    BY <1>1 DEF IInv, TypeOK, Names
  <2>2. PICK p \in Payloads : content[name["main"]] = [k \in 1..Chunks |-> p]
    BY <1>1 DEF Whole
  <2>3. content[name["main"]][1] = p
    BY <2>2
  <2>4. p # Hole /\ p <= saves
    BY <2>1, <2>3 DEF IInv, SavesBound, Payloads
  <2> QED
    BY <1>1, <2>3, <2>4 DEF Loaded, Payloads, IInv, TypeOK
<1>2. CASE ~(name["main"] # NoFile /\ Whole(name["main"]))
  BY <1>2 DEF Loaded, IInv, TypeOK
<1> QED
  BY <1>1, <1>2

\* While no two saves have overlapped, load returns what was saved last.
LEMMA LoneLoad == IInv => LoneSavesAreDurable
<1> SUFFICES ASSUME IInv, ~raced PROVE Loaded = saved
  BY DEF LoneSavesAreDurable
<1>1. Stored
  BY DEF IInv, LoneSaver
<1>2. CASE name["main"] = NoFile
  BY <1>1, <1>2 DEF Stored, Loaded
<1>3. CASE name["main"] # NoFile
  <2>1. content[name["main"]] = [k \in 1..Chunks |-> saved]
    BY <1>1, <1>3 DEF Stored, Filled
  <2>2. saved \in Payloads
    BY DEF IInv, TypeOK
  <2>3. Whole(name["main"])
    BY <2>1, <2>2 DEF Whole
  <2> QED
    BY <1>3, <2>1, <2>3 DEF Loaded
<1> QED
  BY <1>2, <1>3

\* Two names and two open files leave an inode for a new one.
LEMMA FreshInode ==
    IInv /\ name["tmp"] = NoFile =>
        /\ Fresh \in Inodes
        /\ Fresh # name["main"]
        /\ \A s \in Savers : saver[s].inode # Fresh
<1> SUFFICES ASSUME IInv, name["tmp"] = NoFile
             PROVE  \E i \in Inodes : /\ \A n \in Names : name[n] # i
                                      /\ \A s \in Savers : saver[s].inode # i
  BY DEF Fresh, Names
<1>1. PICK i \in Inodes : i # name["main"] /\ i # saver["crawler"].inode /\ i # saver["api"].inode
  BY DEF Inodes
<1> QED
  BY <1>1 DEF Names, Savers, NoFile, Inodes

\* A save that begins with a payload within the bound.
LEMMA SaveBegins ==
    ASSUME IInv, NEW s \in Savers, NEW p \in 0..saves',
           ~Busy(s), BeginSave(s, p), saves' \in saves..MaxSaves,
           UNCHANGED <<name, content, saved>>, progress' \in 0..saves',
           crawl' \in {"off", "on", "over"}, requests' \in 0..MaxRequests,
           starts' \in 0..MaxStarts
    PROVE  IInv'
<1> USE DEF IInv
<1>0. p \in Payloads /\ saves \in Nat /\ saves' \in Nat /\ saves <= saves'
  BY DEF Payloads, TypeOK
<1>t. saver \in [Savers -> [pc : {"idle", "open", "write", "rename"}, payload : Payloads,
                           inode : {NoFile} \cup Inodes, chunk : 1..Chunks,
                           attempt : 1..Retries]]
  BY DEF TypeOK
<1> DEFINE call == [pc |-> "open", payload |-> p, inode |-> NoFile, chunk |-> 1, attempt |-> 1]
<1>1. /\ saver' = [saver EXCEPT ![s] = call]
      /\ saver'[s] = call
      /\ \A t \in Savers \ {s} : saver'[t] = saver[t]
  <2>1. saver' = [saver EXCEPT ![s] = call]
    BY DEF BeginSave
  <2> HIDE DEF call
  <2> QED
    BY <1>t, <2>1
<1>c. call \in [pc : {"idle", "open", "write", "rename"}, payload : Payloads,
               inode : {NoFile} \cup Inodes, chunk : 1..Chunks, attempt : 1..Retries]
  BY <1>0
<1>2. TypeOK'
  <2>1. saver' \in [Savers -> [pc : {"idle", "open", "write", "rename"}, payload : Payloads,
                              inode : {NoFile} \cup Inodes, chunk : 1..Chunks,
                              attempt : 1..Retries]]
    <3> HIDE DEF call
    <3> QED
      BY <1>1, <1>t, <1>c
  <2>2. progress' \in Payloads /\ saves' \in 0..MaxSaves /\ raced' \in BOOLEAN
    BY <1>0 DEF BeginSave, TypeOK, Payloads
  <2> QED
    BY <2>1, <2>2 DEF TypeOK
<1>3. SavesBound'
  <2>1. \A t \in Savers : saver'[t].payload <= saves'
    BY <1>0, <1>1 DEF SavesBound, TypeOK, Payloads
  <2>2. ASSUME NEW i \in Inodes, NEW k \in 1..Chunks, content'[i][k] # Hole
        PROVE  content'[i][k] <= saves'
    <3>1. content'[i][k] = content[i][k] /\ content[i][k] <= saves
      BY <2>2 DEF SavesBound
    <3>2. content[i][k] \in Nat
      BY <2>2 DEF TypeOK, Payloads
    <3> QED
      BY <1>0, <3>1, <3>2
  <2>3. progress' <= saves' /\ saved' <= saves'
    BY <1>0 DEF SavesBound, TypeOK, Payloads
  <2> QED
    BY <2>1, <2>2, <2>3 DEF SavesBound
<1>4. LoneSaver'
  <2> SUFFICES ASSUME ~raced' PROVE LoneSaver!2'
    BY DEF LoneSaver
  <2>1. ~raced /\ \A t \in Savers \ {s} : ~Busy(t)
    BY DEF BeginSave, TypeOK
  <2>2. \A t \in Savers \ {s} : ~Busy(t)'
    BY <1>1, <2>1 DEF Busy
  <2>3. Stored'
    BY <2>1 DEF LoneSaver, Stored
  <2>4. \A t \in Savers : HasWritten(t)'
    BY <1>1, <2>1, <2>2 DEF HasWritten, Busy
  <2> QED
    BY <2>2, <2>3, <2>4
<1> QED
  BY <1>2, <1>3, <1>4

\* The engine's checkpoint.
LEMMA CrawlerSavesKeeps == IInv /\ CrawlerSaves => IInv'
<1> SUFFICES ASSUME IInv, CrawlerSaves PROVE IInv'
  OBVIOUS
<1>1. saves' \in saves..MaxSaves /\ progress' \in 0..saves'
  BY DEF CrawlerSaves, IInv, TypeOK, SavesBound, Payloads
<1> QED
  BY <1>1, SaveBegins DEF CrawlerSaves, IInv, TypeOK, Savers

\* The last save of run_scan, with the loaded checkpoint.
LEMMA FinalSaveKeeps == IInv /\ FinalSave => IInv'
<1> SUFFICES ASSUME IInv, FinalSave PROVE IInv'
  OBVIOUS
<1>1. saves' \in saves..MaxSaves /\ progress' \in 0..saves' /\ Loaded \in 0..saves'
  BY LoadedIsBounded DEF FinalSave, IInv, TypeOK, SavesBound, Payloads
<1> QED
  BY <1>1, SaveBegins DEF FinalSave, IInv, TypeOK, Savers

\* A user's save-progress, with the loaded checkpoint.
LEMMA SaveProgressKeeps == IInv /\ SaveProgress => IInv'
<1> SUFFICES ASSUME IInv, SaveProgress PROVE IInv'
  OBVIOUS
<1>1. saves' \in saves..MaxSaves /\ progress' \in 0..saves' /\ Loaded \in 0..saves'
  BY LoadedIsBounded DEF SaveProgress, IInv, TypeOK, SavesBound, Payloads
<1>2. requests' \in 0..MaxRequests
  BY DEF SaveProgress, IInv, TypeOK
<1> QED
  BY <1>1, <1>2, SaveBegins DEF SaveProgress, IInv, TypeOK, Savers

\* The temporary file is another inode than the checkpoint, so that truncating it
\* leaves the checkpoint alone.
LEMMA OpenKeeps == ASSUME IInv, NEW s \in Savers, Open(s) PROVE IInv'
<1> USE DEF IInv
<1> DEFINE i == IF name["tmp"] = NoFile THEN Fresh ELSE name["tmp"]
<1>1. i \in Inodes /\ i # name["main"]
  <2>1. CASE name["tmp"] = NoFile
    BY <2>1, FreshInode
  <2>2. CASE name["tmp"] # NoFile
    BY <2>2 DEF TypeOK, Names
  <2> QED
    BY <2>1, <2>2
<1>2. /\ name' = [name EXCEPT !["tmp"] = i]
      /\ content' = [content EXCEPT ![i] = Blank]
      /\ saver' = [saver EXCEPT ![s].pc = "write", ![s].inode = i]
      /\ saver[s].pc = "open"
  BY DEF Open
<1>z. i # NoFile
  BY <1>1 DEF Inodes, NoFile
<1> HIDE DEF i
<1>b. Blank \in [1..Chunks -> Payloads \cup {Hole}] /\ \A k \in 1..Chunks : Blank[k] = Hole
  BY DEF Blank
<1>s. /\ saver'[s].pc = "write" /\ saver'[s].inode = i
      /\ saver'[s].chunk = saver[s].chunk /\ saver'[s].payload = saver[s].payload
      /\ \A t \in Savers \ {s} : saver'[t] = saver[t]
  BY <1>2 DEF TypeOK
<1>n. name'["tmp"] = i /\ name'["main"] = name["main"]
  BY <1>2 DEF TypeOK, Names
<1>f. content'[i] = Blank /\ \A j \in Inodes \ {i} : content'[j] = content[j]
  BY <1>1, <1>2 DEF TypeOK
<1>3. TypeOK'
  <2>1. name' \in [Names -> {NoFile} \cup Inodes]
    BY <1>1, <1>2 DEF TypeOK
  <2>2. content' \in [Inodes -> [1..Chunks -> Payloads \cup {Hole}]]
    BY <1>1, <1>2, <1>b DEF TypeOK
  <2>3. saver' \in [Savers -> [pc : {"idle", "open", "write", "rename"}, payload : Payloads,
                              inode : {NoFile} \cup Inodes, chunk : 1..Chunks,
                              attempt : 1..Retries]]
    BY <1>1, <1>2, ZenonT(60) DEF TypeOK
  <2> QED
    BY <1>1, <1>n, <2>1, <2>2, <2>3 DEF TypeOK, Open
<1>4. SavesBound'
  <2>1. \A t \in Savers : saver'[t].payload <= saves
    BY <1>s DEF SavesBound
  <2>2. \A j \in Inodes, k \in 1..Chunks : content'[j][k] # Hole => content'[j][k] <= saves
    BY <1>f, <1>b DEF SavesBound
  <2> QED
    BY <2>1, <2>2 DEF SavesBound, Open
<1>5. LoneSaver'
  <2> SUFFICES ASSUME ~raced PROVE LoneSaver!2'
    BY DEF LoneSaver, Open
  <2>1. \A t \in Savers \ {s} : ~Busy(t)
    BY <1>2 DEF LoneSaver, Busy
  <2>2. \A t \in Savers \ {s} : ~Busy(t)'
    BY <1>s, <2>1 DEF Busy
  <2>3. Stored'
    BY <1>1, <1>n, <1>f DEF LoneSaver, Stored, Open, TypeOK, Names
  <2>4. HasWritten(s)'
    BY <1>2, <1>s, <1>n, <1>z DEF HasWritten, LoneSaver, TypeOK
  <2>5. \A t \in Savers \ {s} : HasWritten(t)'
    BY <2>2 DEF HasWritten, Busy
  <2> QED
    BY <2>2, <2>3, <2>4, <2>5
<1> QED
  BY <1>3, <1>4, <1>5

\* A chunk goes into the temporary file; the last one completes it.
LEMMA WriteKeeps == ASSUME IInv, NEW s \in Savers, Write(s) PROVE IInv'
<1> USE DEF IInv
<1> DEFINE k == saver[s].chunk
           i == saver[s].inode
           p == saver[s].payload
<1>t. k \in 1..Chunks /\ i \in {NoFile} \cup Inodes /\ p \in Payloads /\ p # Hole /\ p <= saves
  BY DEF TypeOK, SavesBound, Payloads
<1>1. /\ content' = [content EXCEPT ![i] = [@ EXCEPT ![k] = p]]
      /\ saver[s].pc = "write"
      /\ UNCHANGED <<name, crawl, progress, saves, requests, starts, saved, raced>>
  BY DEF Write
<1>v. \/ k < Chunks /\ saver' = [saver EXCEPT ![s].chunk = k + 1]
      \/ k = Chunks /\ saver' = [saver EXCEPT ![s].pc = "rename", ![s].inode = NoFile]
  BY <1>t DEF Write
<1>s. /\ saver'[s].payload = p
      /\ \/ k < Chunks /\ saver'[s].pc = "write" /\ saver'[s].inode = i /\ saver'[s].chunk = k + 1
         \/ k = Chunks /\ saver'[s].pc = "rename"
      /\ \A t \in Savers \ {s} : saver'[t] = saver[t]
  BY <1>v, <1>1 DEF TypeOK
<1>f. /\ \A j \in Inodes \ {i} : content'[j] = content[j]
      /\ i \in Inodes => content'[i] = [content[i] EXCEPT ![k] = p]
  BY <1>1 DEF TypeOK
<1>c. \A j \in Inodes : content[j] \in [1..Chunks -> Payloads \cup {Hole}]
  BY DEF TypeOK
<1>g. i \in Inodes =>
        \A n \in 1..Chunks : content'[i][n] = IF n = k THEN p ELSE content[i][n]
  BY <1>f, <1>c
<1>3. TypeOK'
  <2>1. content' \in [Inodes -> [1..Chunks -> Payloads \cup {Hole}]]
    BY <1>1, <1>t, <1>c DEF TypeOK
  <2>2. saver' \in [Savers -> [pc : {"idle", "open", "write", "rename"}, payload : Payloads,
                              inode : {NoFile} \cup Inodes, chunk : 1..Chunks,
                              attempt : 1..Retries]]
    <3>1. CASE k < Chunks /\ saver' = [saver EXCEPT ![s].chunk = k + 1]
      <4>1. k + 1 \in 1..Chunks
        BY <1>t, <3>1
      <4> HIDE DEF k
      <4> QED
        BY <3>1, <4>1 DEF TypeOK
    <3>2. CASE saver' = [saver EXCEPT ![s].pc = "rename", ![s].inode = NoFile]
      BY <3>2, ZenonT(60) DEF TypeOK
    <3> QED
      BY <1>v, <3>1, <3>2
  <2> QED
    BY <1>1, <2>1, <2>2 DEF TypeOK
<1>4. SavesBound'
  <2>1. \A t \in Savers : saver'[t].payload <= saves
    BY <1>s, <1>t DEF SavesBound
  <2>2. \A j \in Inodes, n \in 1..Chunks : content'[j][n] # Hole => content'[j][n] <= saves
    BY <1>f, <1>g, <1>t DEF SavesBound
  <2> QED
    BY <1>1, <2>1, <2>2 DEF SavesBound
<1>5. LoneSaver'
  <2> SUFFICES ASSUME ~raced PROVE LoneSaver!2'
    BY <1>1 DEF LoneSaver
  <2>1. \A t \in Savers \ {s} : ~Busy(t)
    BY <1>1 DEF LoneSaver, Busy
  <2>2. \A t \in Savers \ {s} : ~Busy(t)'
    BY <1>s, <2>1 DEF Busy
  <2>3. /\ name["tmp"] = i /\ i # NoFile /\ i \in Inodes /\ name["main"] # i
        /\ \A n \in 1..Chunks : n < k => content[i][n] = p
    BY <1>1, <1>t DEF HasWritten, LoneSaver, TypeOK
  <2>4. Stored'
    BY <1>1, <1>f, <2>3 DEF LoneSaver, Stored, TypeOK, Names
  <2>5. HasWritten(s)'
    <3>1. CASE k < Chunks
      BY <1>1, <1>s, <1>g, <1>t, <2>3, <3>1 DEF HasWritten
    <3>2. CASE k = Chunks
      <4>1. \A n \in 1..Chunks : content'[i][n] = p
        BY <1>g, <1>t, <2>3, <3>2
      <4>2. content'[i] \in [1..Chunks -> Payloads \cup {Hole}]
        BY <1>3, <2>3 DEF TypeOK
      <4>3. content'[i] = Filled(p)
        BY <4>1, <4>2 DEF Filled
      <4> QED
        BY <1>1, <1>s, <2>3, <3>2, <4>3 DEF HasWritten
    <3> QED
      BY <1>t, <3>1, <3>2
  <2>6. \A t \in Savers \ {s} : HasWritten(t)'
    BY <2>2 DEF HasWritten, Busy
  <2> QED
    BY <2>2, <2>4, <2>5, <2>6
<1> QED
  BY <1>3, <1>4, <1>5

\* What a lone saver renames is its own full file.
LEMMA RenameKeeps == ASSUME IInv, NEW s \in Savers, Rename(s) PROVE IInv'
<1> USE DEF IInv
<1>1. /\ name' = [n \in Names |-> IF n = "main" THEN name["tmp"] ELSE NoFile]
      /\ saved' = saver[s].payload
      /\ saver' = [saver EXCEPT ![s] = Idle]
      /\ saver[s].pc = "rename" /\ name["tmp"] # NoFile
      /\ UNCHANGED <<content, crawl, progress, saves, requests, starts, raced>>
  BY DEF Rename
<1>i. Idle \in [pc : {"idle", "open", "write", "rename"}, payload : Payloads,
                inode : {NoFile} \cup Inodes, chunk : 1..Chunks, attempt : 1..Retries]
      /\ Idle.pc = "idle" /\ Idle.payload = 0
  BY DEF Idle, Payloads
<1>n. name'["main"] = name["tmp"] /\ name'["tmp"] = NoFile
  BY <1>1 DEF Names
<1>s. saver'[s] = Idle /\ \A t \in Savers \ {s} : saver'[t] = saver[t]
  BY <1>1 DEF TypeOK
<1>3. TypeOK'
  <2>1. name' \in [Names -> {NoFile} \cup Inodes]
    BY <1>1 DEF TypeOK, Names
  <2>2. saver' \in [Savers -> [pc : {"idle", "open", "write", "rename"}, payload : Payloads,
                              inode : {NoFile} \cup Inodes, chunk : 1..Chunks,
                              attempt : 1..Retries]]
    BY <1>1, <1>i DEF TypeOK
  <2>3. saved' \in Payloads
    BY <1>1 DEF TypeOK
  <2> QED
    BY <1>1, <1>n, <2>1, <2>2, <2>3 DEF TypeOK
<1>4. SavesBound'
  BY <1>1, <1>s, <1>i DEF SavesBound, TypeOK, Payloads
<1>5. LoneSaver'
  <2> SUFFICES ASSUME ~raced PROVE LoneSaver!2'
    BY <1>1 DEF LoneSaver
  <2>1. \A t \in Savers : ~Busy(t)'
    BY <1>1, <1>s, <1>i DEF LoneSaver, Busy
  <2>2. Stored'
    BY <1>1, <1>n DEF LoneSaver, HasWritten, Stored
  <2> QED
    BY <2>1, <2>2 DEF HasWritten, Busy
<1> QED
  BY <1>3, <1>4, <1>5

\* Only another saver can have taken the temporary file.
LEMMA RenameFailsKeeps == ASSUME IInv, NEW s \in Savers, RenameFails(s) PROVE IInv'
<1> USE DEF IInv
<1>1. /\ saver[s].pc = "rename" /\ name["tmp"] = NoFile
      /\ UNCHANGED <<name, content, crawl, progress, saves, requests, starts, saved, raced>>
  BY DEF RenameFails
<1>i. Idle \in [pc : {"idle", "open", "write", "rename"}, payload : Payloads,
                inode : {NoFile} \cup Inodes, chunk : 1..Chunks, attempt : 1..Retries]
      /\ Idle.payload = 0
  BY DEF Idle, Payloads
<1>v. \/ saver[s].attempt < Retries /\ saver' = [saver EXCEPT ![s].attempt = @ + 1]
      \/ saver' = [saver EXCEPT ![s] = Idle]
  BY DEF RenameFails
<1>2. saver' \in [Savers -> [pc : {"idle", "open", "write", "rename"}, payload : Payloads,
                            inode : {NoFile} \cup Inodes, chunk : 1..Chunks,
                            attempt : 1..Retries]]
  <2>1. CASE saver[s].attempt < Retries /\ saver' = [saver EXCEPT ![s].attempt = @ + 1]
    <3>1. saver[s].attempt + 1 \in 1..Retries
      BY <2>1 DEF TypeOK
    <3>2. saver' = [saver EXCEPT ![s].attempt = saver[s].attempt + 1]
      BY <2>1
    <3> DEFINE n == saver[s].attempt + 1
    <3> HIDE DEF n
    <3> QED
      BY <3>1, <3>2 DEF TypeOK, n
  <2>2. CASE saver' = [saver EXCEPT ![s] = Idle]
    BY <1>i, <2>2 DEF TypeOK
  <2> QED
    BY <1>v, <2>1, <2>2
<1>3. TypeOK'
  BY <1>1, <1>2 DEF TypeOK
<1>4. \A t \in Savers : saver'[t].payload <= saves
  <2>1. CASE saver' = [saver EXCEPT ![s].attempt = @ + 1]
    BY <2>1 DEF SavesBound, TypeOK
  <2>2. CASE saver' = [saver EXCEPT ![s] = Idle]
    BY <1>i, <2>2 DEF SavesBound, TypeOK
  <2> QED
    BY <1>v, <2>1, <2>2
<1>5. SavesBound'
  BY <1>1, <1>4 DEF SavesBound
<1>6. LoneSaver'
  BY <1>1 DEF LoneSaver, HasWritten
<1> QED
  BY <1>3, <1>5, <1>6

\* The death of the process leaves the files, whatever it was doing to them.
LEMMA CrashKeeps == IInv /\ Crash => IInv'
<1> SUFFICES ASSUME IInv, Crash PROVE IInv'
  OBVIOUS
<1> USE DEF IInv
<1>i. Idle \in [pc : {"idle", "open", "write", "rename"}, payload : Payloads,
                inode : {NoFile} \cup Inodes, chunk : 1..Chunks, attempt : 1..Retries]
      /\ Idle.pc = "idle" /\ Idle.payload = 0
  BY DEF Idle, Payloads
<1>1. /\ \A s \in Savers : saver'[s] = Idle
      /\ saver' = [s \in Savers |-> Idle]
      /\ crawl' = "off" /\ progress' = 0
      /\ UNCHANGED <<name, content, saves, requests, starts, saved, raced>>
  BY DEF Crash
<1>2. TypeOK'
  BY <1>1, <1>i DEF TypeOK, Payloads
<1>3. SavesBound'
  BY <1>1, <1>i DEF SavesBound, TypeOK
<1>4. LoneSaver'
  BY <1>1, <1>i DEF LoneSaver, Stored, HasWritten, Busy
<1> QED
  BY <1>2, <1>3, <1>4

\* A crawl starts or ends; no file is touched.
LEMMA CrawlKeeps == IInv /\ (StartCrawl \/ CrawlEnds) => IInv'
<1> SUFFICES ASSUME IInv, StartCrawl \/ CrawlEnds PROVE IInv'
  OBVIOUS
<1> USE DEF IInv
<1>1. /\ UNCHANGED <<name, content, saver, saves, requests, saved, raced>>
      /\ progress' \in 0..saves /\ starts' \in 0..MaxStarts /\ crawl' \in {"off", "on", "over"}
  BY LoadedIsBounded DEF StartCrawl, CrawlEnds, TypeOK, SavesBound, Payloads
<1>2. TypeOK'
  BY <1>1 DEF TypeOK, Payloads
<1>3. SavesBound'
  BY <1>1 DEF SavesBound, TypeOK
<1>4. LoneSaver'
  BY <1>1 DEF LoneSaver, Stored, HasWritten, Busy
<1> QED
  BY <1>2, <1>3, <1>4

\* Every step keeps the invariant.
LEMMA NextKeepsIInv == IInv /\ [Next]_vars => IInv'
<1> SUFFICES ASSUME IInv, [Next]_vars PROVE IInv'
  OBVIOUS
<1>1. CASE StartCrawl \/ CrawlEnds
  BY <1>1, CrawlKeeps
<1>2. CASE CrawlerSaves
  BY <1>2, CrawlerSavesKeeps
<1>3. CASE FinalSave
  BY <1>3, FinalSaveKeeps
<1>4. CASE SaveProgress
  BY <1>4, SaveProgressKeeps
<1>5. CASE Crash
  BY <1>5, CrashKeeps
<1>6. ASSUME NEW s \in Savers, SaveStep(s) PROVE IInv'
  BY <1>6, OpenKeeps, WriteKeeps, RenameKeeps, RenameFailsKeeps DEF SaveStep
<1>7. CASE UNCHANGED vars
  BY <1>7 DEF vars, IInv, TypeOK, SavesBound, LoneSaver, Stored, HasWritten, Busy
<1> QED
  BY <1>1, <1>2, <1>3, <1>4, <1>5, <1>6, <1>7 DEF Next

\* The inductive invariant: the types, the bound of payloads and what a lone saver
\* has written, in every reachable state.
THEOREM Invariance == Spec => []IInv
<1>1. Init => IInv
  BY InitIInv
<1>2. IInv /\ [Next]_vars => IInv'
  BY NextKeepsIInv
<1> QED
  BY <1>1, <1>2, PTL DEF Spec

\* The store, its savers and its counters keep their types and bounds.
THEOREM TypeCorrectness == Spec => []TypeOK
<1>1. IInv => TypeOK
  BY DEF IInv
<1> QED
  BY <1>1, Invariance, PTL

\* While saves do not overlap, a load returns what was saved last, wherever the
\* process has died.
THEOREM Durability == Spec => []LoneSavesAreDurable
<1> QED
  BY LoneLoad, Invariance, PTL

---------------------------------------------------------------------------
(* The session files (AuthSessions): what the threads that write one hold, *)
(* and what becomes of it when scans, refreshes, the application and       *)
(* module discovery interleave.                                            *)
HIDE Constant

SessionStates == {"live", "revoked", "expired"}
ScanPlaces == {"off", "check", "probe", "open", "login", "crawl", "expired", "expired_early",
               "failed", "save", "done"}
ScanThreads == [pc : ScanPlaces, path : Nat, session : Nat, found : Nat,
                credentials : BOOLEAN]
RefreshThreads == [pc : {"off", "login", "save", "bind"}, run : Runs \cup {"none"},
                   path : Nat, session : Nat, found : Nat]
Contexts == [path : Nat,
             status : {"none", "discovered", "running", "scanned", "partial_scanned", "paused", "failed"}]

\* The places of a scan at which a browser context of its own is open.
BrowserPlaces == {"login", "crawl", "expired", "failed", "save"}

(* The parts of the invariant, where n sessions were issued and there are  *)
(* m files.  What matters is that a browser has a session as new as the    *)
(* one its file held when it got it.                                       *)
FilesOK(f, n) == f \in Seq(Nat) /\ \A i \in 1..Len(f) : f[i] <= n
ContextOK(c, m) == c \in Contexts /\ c.path <= m
ScanOK(s, n, m) ==
    /\ s \in ScanThreads /\ s.path <= m /\ s.session <= n
    /\ s.pc = "check" => s.path # 0
    /\ s.pc \in BrowserPlaces => s.found <= s.session
RefreshOK(h, n, m) ==
    /\ h \in RefreshThreads /\ h.path <= m /\ h.session <= n
    /\ h.pc # "off" => h.run \in Runs
    /\ h.pc = "bind" => h.path # 0
    /\ h.pc = "save" => h.found <= h.session

SessionsInv ==
    /\ app \in Apps /\ sessions \in Seq(SessionStates)
    /\ FilesOK(files, Len(sessions)) /\ told \subseteq 1..Len(files)
    /\ context \in [Runs -> Contexts] /\ \A r \in Runs : ContextOK(context[r], Len(files))
    /\ scan \in [Runs -> ScanThreads] /\ \A r \in Runs : ScanOK(scan[r], Len(sessions), Len(files))
    /\ refresh \in [Refreshes -> RefreshThreads]
    /\ \A k \in Refreshes : RefreshOK(refresh[k], Len(sessions), Len(files))

\* What a step may do to what the threads share.
Grows ==
    /\ app' = app /\ sessions' \in Seq(SessionStates) /\ Len(sessions) <= Len(sessions')
    /\ FilesOK(files', Len(sessions')) /\ Len(files) <= Len(files') /\ told' \subseteq 1..Len(files')

\* The numbers of sessions and files, before and after.
LEMMA Sizes ==
    ASSUME SessionsInv
    PROVE  /\ Len(sessions) \in Nat /\ Len(files) \in Nat /\ files \in Seq(Nat)
           /\ DOMAIN files = 1..Len(files) /\ DOMAIN sessions = 1..Len(sessions)
           /\ \A i \in 1..Len(files) : files[i] \in 0..Len(sessions)
<1>1. sessions \in Seq(SessionStates) /\ files \in Seq(Nat) /\ \A i \in 1..Len(files) : files[i] <= Len(sessions)
  BY DEF SessionsInv, FilesOK
<1>2. \A i \in 1..Len(files) : files[i] \in Nat
  BY <1>1, ElementOfSeq
<1> QED
  BY <1>1, <1>2, LenProperties

LEMMA SizesAfter ==
    ASSUME Grows
    PROVE  Len(sessions') \in Nat /\ Len(files') \in Nat
BY LenProperties DEF Grows, FilesOK

\* What the invariant says of a run and of a refresh.
LEMMA RunOfInv ==
    ASSUME SessionsInv, NEW r \in Runs
    PROVE  /\ context[r] \in Contexts /\ ContextOK(context[r], Len(files)) /\ context \in [Runs -> Contexts]
           /\ scan[r] \in ScanThreads /\ ScanOK(scan[r], Len(sessions), Len(files)) /\ scan \in [Runs -> ScanThreads]
BY DEF SessionsInv

LEMMA RefreshOfInv ==
    ASSUME SessionsInv, NEW k \in Refreshes
    PROVE  /\ refresh[k] \in RefreshThreads /\ RefreshOK(refresh[k], Len(sessions), Len(files))
           /\ refresh \in [Refreshes -> RefreshThreads]
BY DEF SessionsInv

\* What was so with fewer sessions and files is so with more.
LEMMA StaysOK ==
    ASSUME SessionsInv, Grows
    PROVE  /\ \A r \in Runs : ContextOK(context[r], Len(files')) /\ ScanOK(scan[r], Len(sessions'), Len(files'))
           /\ \A k \in Refreshes : RefreshOK(refresh[k], Len(sessions'), Len(files'))
<1>1. /\ Len(sessions) \in Nat /\ Len(files) \in Nat /\ Len(sessions') \in Nat /\ Len(files') \in Nat
      /\ Len(sessions) <= Len(sessions') /\ Len(files) <= Len(files')
  BY Sizes, SizesAfter DEF Grows
<1>2. ASSUME NEW r \in Runs
      PROVE  ContextOK(context[r], Len(files')) /\ ScanOK(scan[r], Len(sessions'), Len(files'))
  <2>1. ContextOK(context[r], Len(files')) 
    BY <1>1, RunOfInv DEF ContextOK, Contexts
  <2>2. ScanOK(scan[r], Len(sessions'), Len(files'))
    BY <1>1, RunOfInv DEF ScanOK, ScanThreads
  <2> QED
    BY <2>1, <2>2
<1>3. ASSUME NEW k \in Refreshes
      PROVE  RefreshOK(refresh[k], Len(sessions'), Len(files'))
  BY <1>1, RefreshOfInv DEF RefreshOK, RefreshThreads
<1> QED
  BY <1>2, <1>3

\* A step of a run: its context and its scan may change, and the sessions and files grow.
LEMMA RunMoves ==
    ASSUME SessionsInv, Grows, NEW r \in Runs, NEW c, NEW s,
           ContextOK(c, Len(files')), ScanOK(s, Len(sessions'), Len(files')),
           context' = [context EXCEPT ![r] = c], scan' = [scan EXCEPT ![r] = s], refresh' = refresh
    PROVE  SessionsInv'
<1>1. c \in Contexts /\ s \in ScanThreads /\ context \in [Runs -> Contexts] /\ scan \in [Runs -> ScanThreads]
  BY RunOfInv DEF ContextOK, ScanOK
<1>2. context' \in [Runs -> Contexts] /\ scan' \in [Runs -> ScanThreads]
  BY <1>1
<1>3. \A q \in Runs : /\ context'[q] = IF q = r THEN c ELSE context[q]
                      /\ scan'[q] = IF q = r THEN s ELSE scan[q]
  BY <1>1
<1>4. \A q \in Runs : ContextOK(context'[q], Len(files')) /\ ScanOK(scan'[q], Len(sessions'), Len(files'))
  BY <1>3, StaysOK
<1>5. \A k \in Refreshes : RefreshOK(refresh'[k], Len(sessions'), Len(files'))
  BY StaysOK
<1> QED
  BY <1>2, <1>4, <1>5 DEF SessionsInv, Grows

\* A step of a refresh, which may change the context of its run.
LEMMA RefreshMoves ==
    ASSUME SessionsInv, Grows, NEW k \in Refreshes, NEW h, NEW r \in Runs, NEW c,
           ContextOK(c, Len(files')), RefreshOK(h, Len(sessions'), Len(files')),
           context' = [context EXCEPT ![r] = c], scan' = scan, refresh' = [refresh EXCEPT ![k] = h]
    PROVE  SessionsInv'
<1>1. c \in Contexts /\ h \in RefreshThreads /\ context \in [Runs -> Contexts] /\ refresh \in [Refreshes -> RefreshThreads]
  BY RunOfInv, RefreshOfInv DEF ContextOK, RefreshOK
<1>2. context' \in [Runs -> Contexts] /\ refresh' \in [Refreshes -> RefreshThreads]
  BY <1>1
<1>3. /\ \A q \in Runs : context'[q] = IF q = r THEN c ELSE context[q]
      /\ \A j \in Refreshes : refresh'[j] = IF j = k THEN h ELSE refresh[j]
  BY <1>1
<1>4. \A q \in Runs : ContextOK(context'[q], Len(files')) /\ ScanOK(scan'[q], Len(sessions'), Len(files'))
  BY <1>3, StaysOK
<1>5. \A j \in Refreshes : RefreshOK(refresh'[j], Len(sessions'), Len(files'))
  BY <1>3, StaysOK
<1>6. scan' \in [Runs -> ScanThreads]
  BY DEF SessionsInv
<1> QED
  BY <1>2, <1>4, <1>5, <1>6 DEF SessionsInv, Grows

---------------------------------------------------------------------------
\* The ways in which the sessions and the files grow.
LEMMA NothingGrows ==
    ASSUME SessionsInv, UNCHANGED <<app, sessions, files, told>>
    PROVE  Grows
BY Sizes DEF SessionsInv, Grows

\* What was stored stays no newer than the newest session.
LEMMA SessionsGrow ==
    ASSUME SessionsInv, sessions' \in Seq(SessionStates), Len(sessions) <= Len(sessions'),
           UNCHANGED <<app, files, told>>
    PROVE  Grows
<1>1. Len(sessions') \in Nat
  BY LenProperties
<1>2. \A i \in 1..Len(files) : files[i] <= Len(sessions')
  BY <1>1, Sizes
<1> QED
  BY <1>2, Sizes DEF SessionsInv, Grows, FilesOK

\* What a login adds to the sessions of the application.
LEMMA LoginIssues ==
    ASSUME SessionsInv, NEW state \in {"live", Rejected}, LoginReturns(state)
    PROVE  /\ sessions' \in Seq(SessionStates) /\ Len(sessions') = Len(sessions) + 1
           /\ NewSession = Len(sessions') /\ Len(sessions) <= Len(sessions')
<1>1. state \in SessionStates
  BY DEF SessionStates, Rejected
<1>2. sessions' \in Seq(SessionStates) /\ Len(sessions') = Len(sessions) + 1
  BY <1>1, AppendProperties DEF LoginReturns, SessionsInv
<1> QED
  BY <1>2, Sizes DEF NewSession

\* A session stored in a file that is there.
LEMMA StoreGrows ==
    ASSUME SessionsInv, sessions' \in Seq(SessionStates), Len(sessions) <= Len(sessions'),
           NEW path \in 1..Len(files), NEW s \in 0..Len(sessions'), files' = Store(path, s), UNCHANGED <<app, told>>
    PROVE  Grows /\ Len(files') = Len(files)
<1>1. Len(sessions') \in Nat
  BY LenProperties
<1> DEFINE f == [files EXCEPT ![path] = s]
<1>2. /\ f \in Seq(Nat) /\ Len(f) = Len(files)
      /\ \A i \in 1..Len(files) : f[i] = IF i = path THEN s ELSE files[i]
  BY Sizes, ExceptSeq
<1>3. files' = f
  BY DEF Store
<1> HIDE DEF f
<1>4. \A i \in 1..Len(f) : f[i] <= Len(sessions')
  BY <1>1, <1>2, Sizes
<1>5. FilesOK(f, Len(sessions'))
  BY <1>2, <1>4 DEF FilesOK
<1> QED
  BY <1>2, <1>3, <1>5, Sizes DEF SessionsInv, Grows

\* A session stored in a file of its own.
LEMMA AppendGrows ==
    ASSUME SessionsInv, sessions' \in Seq(SessionStates), Len(sessions) <= Len(sessions'),
           NEW s \in 0..Len(sessions'), files' = Append(files, s), app' = app,
           told' \subseteq told \cup {Len(files')}
    PROVE  Grows /\ Len(files') = Len(files) + 1
<1>1. Len(sessions') \in Nat
  BY LenProperties
<1> DEFINE f == Append(files, s)
<1>2. /\ f \in Seq(Nat) /\ Len(f) = Len(files) + 1
      /\ \A i \in 1..Len(files) : f[i] = files[i]
      /\ f[Len(files) + 1] = s
  BY Sizes, AppendProperties
<1>3. files' = f
  OBVIOUS
<1> HIDE DEF f
<1>4. \A i \in 1..Len(f) : f[i] <= Len(sessions')
  <2> SUFFICES ASSUME NEW i \in 1..Len(files) + 1 PROVE f[i] <= Len(sessions')
    BY <1>2
  <2>1. CASE i = Len(files) + 1
    BY <1>1, <1>2, <2>1
  <2>2. CASE i # Len(files) + 1
    <3>1. i \in 1..Len(files)
      BY <2>2, Sizes
    <3> QED
      BY <1>1, <1>2, <3>1, Sizes
  <2> QED
    BY <2>1, <2>2
<1>5. FilesOK(f, Len(sessions'))
  BY <1>2, <1>4 DEF FilesOK
<1>6. told' \subseteq 1..Len(f) /\ Len(files) <= Len(f)
  <2>1. told \subseteq 1..Len(files)
    BY DEF SessionsInv
  <2>2. Len(files) \in Nat /\ told' \subseteq told \cup {Len(f)}
    BY <1>3, Sizes
  <2> QED
    BY <1>2, <2>1, <2>2
<1> QED
  BY <1>2, <1>3, <1>5, <1>6 DEF Grows

---------------------------------------------------------------------------
\* No run has a context or a scan at first, and nothing is at work.
LEMMA SessionsInit == AuthInit => SessionsInv
<1> SUFFICES ASSUME AuthInit PROVE SessionsInv
  OBVIOUS
<1>1. sessions \in Seq(SessionStates) /\ Len(sessions) = 0 /\ files \in Seq(Nat) /\ Len(files) = 0
  BY EmptySeq DEF AuthInit
<1>2. NoScan \in ScanThreads /\ Quiet \in RefreshThreads /\ [path |-> 0, status |-> "none"] \in Contexts
  BY DEF NoScan, Quiet, ScanThreads, RefreshThreads, ScanPlaces, Contexts
<1>3. ContextOK([path |-> 0, status |-> "none"], 0) /\ ScanOK(NoScan, 0, 0) /\ RefreshOK(Quiet, 0, 0)
  BY <1>2 DEF ContextOK, ScanOK, RefreshOK, NoScan, Quiet, BrowserPlaces
<1>4. FilesOK(files, 0) /\ told \subseteq 1..Len(files)
  BY <1>1 DEF FilesOK, AuthInit
<1> QED
  BY <1>1, <1>2, <1>3, <1>4 DEF AuthInit, SessionsInv

\* Module discovery, which may leave a run with a file.
LEMMA DiscoverKeeps ==
    ASSUME SessionsInv, NEW r \in Runs, NEW credentials \in BOOLEAN, Discover(r, credentials)
    PROVE  SessionsInv'
<1> DEFINE c == [path |-> IF credentials THEN Len(files') ELSE 0, status |-> "discovered"]
           s == scan[r]
<1>1. Grows
  <2>1. CASE credentials
    <3>1. PICK state \in {"live", Rejected} : LoginReturns(state)
      BY <2>1 DEF Discover
    <3>2. files' = Append(files, NewSession) /\ told' = told \cup {Len(files')} /\ app' = app
      BY <2>1 DEF Discover
    <3>3. NewSession \in 0..Len(sessions')
      BY <3>1, LoginIssues, Sizes
    <3> QED
      BY <3>1, <3>2, <3>3, LoginIssues, AppendGrows
  <2>2. CASE ~credentials
    BY <2>2, NothingGrows DEF Discover
  <2> QED
    BY <2>1, <2>2
<1>2. context' = [context EXCEPT ![r] = c] /\ scan' = [scan EXCEPT ![r] = s] /\ refresh' = refresh
  BY DEF Discover, SessionsInv
<1>3. ContextOK(c, Len(files'))
  BY <1>1, SizesAfter DEF ContextOK, Contexts
<1>4. ScanOK(s, Len(sessions'), Len(files'))
  BY <1>1, StaysOK
<1> HIDE DEF c, s
<1> QED
  BY <1>1, <1>2, <1>3, <1>4, RunMoves

\* A scan starts without a browser and without a session, with a file if it has one.
LEMMA StartScanKeeps ==
    ASSUME SessionsInv, NEW r \in Runs, NEW named \in told \cup {0}, NEW credentials \in BOOLEAN,
           StartScan(r, named, credentials)
    PROVE  SessionsInv'
<1> DEFINE path == IF named # 0 THEN named ELSE context[r].path
           c == [context[r] EXCEPT !.path = path, !.status = "running"]
           s == [NoScan EXCEPT !.pc = IF path # 0 THEN "check" ELSE "open",
                               !.path = path, !.credentials = credentials]
<1>1. path \in Nat /\ path <= Len(files)
  <2>1. context[r].path \in Nat /\ context[r].path <= Len(files)
    BY RunOfInv DEF ContextOK, Contexts
  <2>2. named # 0 => named \in 1..Len(files)
    BY DEF SessionsInv
  <2> QED
    BY <2>1, <2>2, Sizes
<1>2. Grows /\ Len(sessions') = Len(sessions) /\ Len(files') = Len(files)
  BY NothingGrows DEF StartScan
<1>3. context' = [context EXCEPT ![r] = c] /\ scan' = [scan EXCEPT ![r] = s] /\ refresh' = refresh
  <2>1. context \in [Runs -> Contexts]
    BY RunOfInv
  <2> QED
    BY <2>1 DEF StartScan
<1> HIDE DEF path
<1>4. ContextOK(c, Len(files'))
  BY <1>1, <1>2, RunOfInv DEF ContextOK, Contexts
<1>5. ScanOK(s, Len(sessions'), Len(files'))
  <2>1. s \in ScanThreads /\ s.path = path /\ s.session = 0 /\ s.pc = IF path # 0 THEN "check" ELSE "open"
    BY <1>1 DEF NoScan, ScanThreads, ScanPlaces
  <2> HIDE DEF s
  <2> QED
    BY <1>1, <1>2, <2>1, Sizes DEF ScanOK, BrowserPlaces
<1> HIDE DEF c, s
<1> QED
  BY <1>2, <1>3, <1>4, <1>5, RunMoves

\* A step of the scan thread that leaves everything else alone.
LEMMA ScanGoesOn ==
    ASSUME SessionsInv, NEW r \in Runs, NEW s, ScanOK(s, Len(sessions), Len(files)),
           scan' = [scan EXCEPT ![r] = s], UNCHANGED <<app, sessions, files, told, context, refresh>>
    PROVE  SessionsInv'
<1> DEFINE c == context[r]
<1>1. Grows /\ Len(sessions') = Len(sessions) /\ Len(files') = Len(files)
  BY NothingGrows
<1>2. context' = [context EXCEPT ![r] = c] /\ ContextOK(c, Len(files'))
  BY <1>1, RunOfInv
<1> HIDE DEF c
<1> QED
  BY <1>1, <1>2, RunMoves

\* The check before a scan, of the file and of a page.
LEMMA CheckKeeps ==
    ASSUME SessionsInv, NEW r \in Runs, CheckFile(r) \/ Probe(r)
    PROVE  SessionsInv'
<1>1. scan[r] \in ScanThreads /\ ScanOK(scan[r], Len(sessions), Len(files)) /\ scan \in [Runs -> ScanThreads]
  BY RunOfInv
<1>2. /\ scan[r].pc \in {"check", "probe"} /\ UNCHANGED <<app, sessions, files, told, context, refresh>>
  BY DEF CheckFile, Probe
<1>3. PICK place \in {"expired_early", "open", "probe"}, session \in Nat :
         /\ scan' = [scan EXCEPT ![r] = [scan[r] EXCEPT !.pc = place, !.session = session]]
         /\ session <= Len(sessions)
  <2>1. scan[r].session \in Nat /\ scan[r].session <= Len(sessions)
    BY <1>1 DEF ScanOK, ScanThreads
  <2>2. ASSUME NEW place \in {"expired_early", "open"}, scan' = [scan EXCEPT ![r].pc = place]
        PROVE  scan' = [scan EXCEPT ![r] = [scan[r] EXCEPT !.pc = place, !.session = scan[r].session]]
    <3>1. [scan[r] EXCEPT !.pc = place] = [scan[r] EXCEPT !.pc = place, !.session = scan[r].session]
      BY <1>1 DEF ScanThreads
    <3>2. scan' = [scan EXCEPT ![r] = [scan[r] EXCEPT !.pc = place]]
      BY <1>1, <2>2
    <3> QED
      BY <3>1, <3>2
  <2>3. CASE \E place \in {"expired_early", "open"} : scan' = [scan EXCEPT ![r].pc = place]
    BY <2>1, <2>2, <2>3
  <2>4. CASE CheckFile(r) /\ scan' = [scan EXCEPT ![r].pc = "probe", ![r].session = files[scan[r].path]]
    <3>1. scan[r].path \in 1..Len(files)
      BY <1>1, <2>4, Sizes DEF CheckFile, ScanOK, ScanThreads
    <3>2. files[scan[r].path] \in Nat /\ files[scan[r].path] <= Len(sessions)
      BY <3>1, Sizes
    <3> DEFINE held == files[scan[r].path]
    <3>3. scan' = [scan EXCEPT ![r] = [scan[r] EXCEPT !.pc = "probe", !.session = held]]
      BY <1>1, <2>4
    <3> QED
      BY <3>2, <3>3
  <2>5. \/ \E place \in {"expired_early", "open"} : scan' = [scan EXCEPT ![r].pc = place]
        \/ CheckFile(r) /\ scan' = [scan EXCEPT ![r].pc = "probe", ![r].session = files[scan[r].path]]
    BY DEF CheckFile, Probe, Refuse
  <2> QED
    BY <2>3, <2>4, <2>5
<1> DEFINE s == [scan[r] EXCEPT !.pc = place, !.session = session]
<1>4. s \in ScanThreads /\ s.pc = place /\ s.session = session /\ s.path = scan[r].path
  BY <1>1, <1>3 DEF ScanThreads, ScanPlaces
<1>5. scan' = [scan EXCEPT ![r] = s]
  BY <1>3
<1> HIDE DEF s
<1>6. ScanOK(s, Len(sessions), Len(files))
  BY <1>1, <1>3, <1>4 DEF ScanOK, BrowserPlaces
<1> QED
  BY <1>2, <1>5, <1>6, ScanGoesOn

\* The browser of the scan begins with what the file holds.
LEMMA OpenContextKeeps ==
    ASSUME SessionsInv, NEW r \in Runs, OpenContext(r)
    PROVE  SessionsInv'
<1> DEFINE now == Held(scan[r].path)
           place == AfterOpen(r)
           s == [scan[r] EXCEPT !.pc = place, !.session = now, !.found = now]
<1>1. scan[r] \in ScanThreads /\ ScanOK(scan[r], Len(sessions), Len(files)) /\ scan \in [Runs -> ScanThreads]
  BY RunOfInv
<1>2. now \in Nat /\ now <= Len(sessions)
  <2>1. scan[r].path \in Nat /\ scan[r].path <= Len(files)
    BY <1>1 DEF ScanOK, ScanThreads
  <2>2. CASE scan[r].path = 0
    BY <2>2, Sizes DEF Held
  <2>3. CASE scan[r].path # 0
    <3>1. scan[r].path \in 1..Len(files)
      BY <2>1, <2>3, Sizes
    <3>2. files[scan[r].path] \in 0..Len(sessions)
      BY <3>1, Sizes
    <3> QED
      BY <2>3, <3>2, Sizes DEF Held
  <2> QED
    BY <2>2, <2>3
<1>3. place \in {"login", "crawl"}
  BY DEF AfterOpen
<1>4. scan' = [scan EXCEPT ![r] = s] /\ UNCHANGED <<app, sessions, files, told, context, refresh>>
  BY <1>1 DEF OpenContext
<1> HIDE DEF now, place
<1>5. s \in ScanThreads /\ s.pc = place /\ s.session = now /\ s.found = now /\ s.path = scan[r].path
  BY <1>1, <1>2, <1>3 DEF ScanThreads, ScanPlaces
<1> HIDE DEF s
<1>6. ScanOK(s, Len(sessions), Len(files))
  BY <1>1, <1>2, <1>3, <1>5 DEF ScanOK
<1> QED
  BY <1>4, <1>6, ScanGoesOn

\* The steps of a scan that only lead on.
LEMMA ScanPlacesKeep ==
    ASSUME SessionsInv, NEW r \in Runs, GiveUp(r) \/ ScanReturns(r)
    PROVE  SessionsInv'
<1>1. scan[r] \in ScanThreads /\ ScanOK(scan[r], Len(sessions), Len(files)) /\ scan \in [Runs -> ScanThreads]
  BY RunOfInv
<1>2. CASE GiveUp(r)
  <2> DEFINE s == [scan[r] EXCEPT !.pc = "expired"]
  <2>1. scan' = [scan EXCEPT ![r] = s] /\ UNCHANGED <<app, sessions, files, told, context, refresh>>
    BY <1>2 DEF GiveUp, Expire
  <2>2. /\ s \in ScanThreads /\ s.pc = "expired" /\ s.path = scan[r].path
        /\ s.session = scan[r].session /\ s.found = scan[r].found /\ scan[r].pc = "crawl"
    BY <1>1, <1>2 DEF ScanThreads, ScanPlaces, GiveUp
  <2> HIDE DEF s
  <2>3. ScanOK(s, Len(sessions), Len(files))
    BY <1>1, <2>2 DEF ScanOK, BrowserPlaces
  <2> QED
    BY <2>1, <2>3, ScanGoesOn
<1>3. CASE ScanReturns(r)
  <2>1. ScanOK(NoScan, Len(sessions), Len(files))
    BY Sizes DEF ScanOK, NoScan, ScanThreads, ScanPlaces, BrowserPlaces
  <2>2. scan' = [scan EXCEPT ![r] = NoScan] /\ UNCHANGED <<app, sessions, files, told, context, refresh>>
    BY <1>3 DEF ScanReturns
  <2> QED
    BY <2>1, <2>2, ScanGoesOn
<1> QED
  BY <1>2, <1>3

\* A login of the scan: the session is newer than any, and is stored or not.
LEMMA SignInKeeps ==
    ASSUME SessionsInv, NEW r \in Runs, SignIn(r)
    PROVE  SessionsInv'
<1>1. scan[r] \in ScanThreads /\ ScanOK(scan[r], Len(sessions), Len(files)) /\ scan \in [Runs -> ScanThreads]
  BY RunOfInv
<1>2. scan[r].pc = "login" /\ UNCHANGED <<app, told, context, refresh>>
  BY DEF SignIn
<1>3. CASE scan' = [scan EXCEPT ![r].pc = "failed"] /\ UNCHANGED <<sessions, files>>
  <2> DEFINE s == [scan[r] EXCEPT !.pc = "failed"]
  <2>1. scan' = [scan EXCEPT ![r] = s]
    BY <1>3
  <2>2. /\ s \in ScanThreads /\ s.pc = "failed" /\ s.path = scan[r].path
        /\ s.session = scan[r].session /\ s.found = scan[r].found
    BY <1>1 DEF ScanThreads, ScanPlaces
  <2> HIDE DEF s
  <2>3. ScanOK(s, Len(sessions), Len(files))
    BY <1>1, <1>2, <2>2 DEF ScanOK, BrowserPlaces
  <2> QED
    BY <1>2, <1>3, <2>1, <2>3, ScanGoesOn
<1>4. ASSUME NEW state \in {"live", Rejected}, LoginReturns(state), NEW found \in {scan[r].found, NewSession},
             scan' = [scan EXCEPT ![r].pc = "crawl", ![r].session = NewSession, ![r].found = found],
             \/ UNCHANGED files
             \/ scan[r].path # 0 /\ files' = Store(scan[r].path, NewSession)
      PROVE  SessionsInv'
  <2> DEFINE s == [scan[r] EXCEPT !.pc = "crawl", !.session = NewSession, !.found = found]
             c == context[r]
  <2>1. /\ sessions' \in Seq(SessionStates) /\ NewSession = Len(sessions') /\ NewSession = Len(sessions) + 1
        /\ Len(sessions) <= Len(sessions') /\ Len(sessions) \in Nat
    BY <1>4, LoginIssues, Sizes
  <2>2. scan[r].path \in 0..Len(files)
    BY <1>1, Sizes DEF ScanOK, ScanThreads
  <2>3. Grows /\ Len(files') = Len(files)
    <3>1. CASE UNCHANGED files
      BY <1>2, <2>1, <3>1, SessionsGrow
    <3>2. CASE scan[r].path # 0 /\ files' = Store(scan[r].path, NewSession)
      <4>1. scan[r].path \in 1..Len(files) /\ NewSession \in 0..Len(sessions')
        BY <2>1, <2>2, <3>2, Sizes
      <4> QED
        BY <1>2, <2>1, <3>2, <4>1, StoreGrows
    <3> QED
      BY <1>4, <3>1, <3>2
  <2>4. scan' = [scan EXCEPT ![r] = s]
    BY <1>1, <1>4
  <2>5. found \in Nat /\ found <= NewSession /\ NewSession \in Nat
    BY <1>1, <1>2, <1>4, <2>1 DEF ScanOK, ScanThreads, BrowserPlaces
  <2>6. s \in ScanThreads /\ s.pc = "crawl" /\ s.session = NewSession /\ s.found = found /\ s.path = scan[r].path
    BY <1>1, <2>5 DEF ScanThreads, ScanPlaces
  <2> HIDE DEF s
  <2>7. ScanOK(s, Len(sessions'), Len(files'))
    BY <1>1, <2>1, <2>3, <2>5, <2>6 DEF ScanOK
  <2>8. context' = [context EXCEPT ![r] = c] /\ ContextOK(c, Len(files'))
    BY <1>2, <2>3, RunOfInv
  <2> HIDE DEF c
  <2> QED
    BY <1>2, <2>3, <2>4, <2>7, <2>8, RunMoves
<1>5. CASE scan' # [scan EXCEPT ![r].pc = "failed"] \/ ~UNCHANGED <<sessions, files>>
  <2>1. PICK state \in {"live", Rejected} : LoginReturns(state)
    BY <1>5 DEF SignIn
  <2>2. \/ scan' = [scan EXCEPT ![r].pc = "crawl", ![r].session = NewSession] /\ UNCHANGED files
        \/ /\ scan[r].path # 0 /\ files' = Store(scan[r].path, NewSession)
           /\ scan' = [scan EXCEPT ![r].pc = "crawl", ![r].session = NewSession, ![r].found = NewSession]
    BY <1>5 DEF SignIn
  <2>3. CASE scan' = [scan EXCEPT ![r].pc = "crawl", ![r].session = NewSession] /\ UNCHANGED files
    <3>1. scan' = [scan EXCEPT ![r].pc = "crawl", ![r].session = NewSession, ![r].found = scan[r].found]
      BY <1>1, <2>3 DEF ScanThreads
    <3> QED
      BY <1>4, <2>1, <2>3, <3>1
  <2> QED
    BY <1>4, <2>1, <2>2, <2>3
<1> QED
  BY <1>3, <1>5

\* A session that the browser has got meanwhile, by signing in again or from the application.
LEMMA NewSessionKeeps ==
    ASSUME SessionsInv, NEW r \in Runs, SignInAgain(r) \/ Rotate(r)
    PROVE  SessionsInv'
<1>1. scan[r] \in ScanThreads /\ ScanOK(scan[r], Len(sessions), Len(files)) /\ scan \in [Runs -> ScanThreads]
  BY RunOfInv
<1>2. /\ scan[r].pc = "crawl" /\ UNCHANGED <<app, files, told, context, refresh>>
      /\ scan' = [scan EXCEPT ![r].session = NewSession]
  BY DEF SignInAgain, Rotate
<1> DEFINE s == [scan[r] EXCEPT !.session = NewSession]
           c == context[r]
<1>3. sessions' \in Seq(SessionStates) /\ Len(sessions') = Len(sessions) + 1
  <2>1. CASE SignInAgain(r)
    BY <2>1, LoginIssues DEF SignInAgain
  <2>2. CASE Rotate(r)
    <3> DEFINE old == [sessions EXCEPT ![scan[r].session] = "revoked"]
    <3>1. "revoked" \in SessionStates /\ "live" \in SessionStates
      BY DEF SessionStates
    <3>2. scan[r].session \in 1..Len(sessions)
      BY <2>2, Sizes DEF Rotate, IsLive, Issued
    <3>3. old \in Seq(SessionStates) /\ Len(old) = Len(sessions)
      BY <3>1, <3>2, ExceptSeq DEF SessionsInv
    <3>4. sessions' = Append(old, "live")
      BY <2>2 DEF Rotate
    <3> HIDE DEF old
    <3> QED
      BY <3>1, <3>3, <3>4, AppendProperties
  <2> QED
    BY <2>1, <2>2, <1>2
<1>4. Len(sessions) \in Nat /\ Len(sessions) <= Len(sessions') /\ NewSession = Len(sessions')
  BY <1>3, Sizes DEF NewSession
<1>5. Grows /\ Len(files') = Len(files)
  BY <1>2, <1>3, <1>4, SessionsGrow
<1>a. NewSession \in Nat
  BY <1>3, <1>4
<1>6. s \in ScanThreads /\ s.pc = "crawl" /\ s.session = NewSession /\ s.found = scan[r].found /\ s.path = scan[r].path
  BY <1>1, <1>2, <1>a DEF ScanThreads
<1>7. scan' = [scan EXCEPT ![r] = s]
  BY <1>2
<1> HIDE DEF s
<1>8. ScanOK(s, Len(sessions'), Len(files'))
  BY <1>1, <1>2, <1>3, <1>4, <1>5, <1>6 DEF ScanOK, ScanThreads, BrowserPlaces
<1>9. context' = [context EXCEPT ![r] = c] /\ ContextOK(c, Len(files'))
  BY <1>2, <1>5, RunOfInv
<1> HIDE DEF c
<1> QED
  BY <1>2, <1>5, <1>7, <1>8, <1>9, RunMoves

\* The steps of a scan that write its status.
LEMMA StatusKeeps ==
    ASSUME SessionsInv, NEW r \in Runs, CrawlReturns(r) \/ ScanExpired(r) \/ ScanFailed(r)
    PROVE  SessionsInv'
<1>1. /\ scan[r] \in ScanThreads /\ ScanOK(scan[r], Len(sessions), Len(files)) /\ scan \in [Runs -> ScanThreads]
      /\ context[r] \in Contexts /\ ContextOK(context[r], Len(files)) /\ context \in [Runs -> Contexts]
  BY RunOfInv
<1>2. /\ scan[r].pc \in {"crawl", "expired", "expired_early", "failed"}
      /\ UNCHANGED <<app, sessions, files, told, refresh>>
  BY DEF CrawlReturns, ScanExpired, ScanFailed
<1>3. PICK place \in {"save", "done"} :
          /\ scan' = [scan EXCEPT ![r].pc = place]
          /\ place = "save" => scan[r].pc # "expired_early"
  BY <1>1 DEF CrawlReturns, ScanExpired, ScanFailed
<1>4. PICK outcome \in {"scanned", "partial_scanned", "paused", "failed"} :
          context' = [context EXCEPT ![r].status = outcome]
  BY DEF CrawlReturns, ScanExpired, ScanFailed
<1> DEFINE c == [context[r] EXCEPT !.status = outcome]
           s == [scan[r] EXCEPT !.pc = place]
<1>5. Grows /\ Len(sessions') = Len(sessions) /\ Len(files') = Len(files)
  BY <1>2, NothingGrows
<1>6. context' = [context EXCEPT ![r] = c] /\ scan' = [scan EXCEPT ![r] = s]
  BY <1>1, <1>3, <1>4
<1>7. c \in Contexts /\ c.path = context[r].path
  BY <1>1, <1>4 DEF Contexts
<1>8. /\ s \in ScanThreads /\ s.pc = place /\ s.path = scan[r].path
      /\ s.session = scan[r].session /\ s.found = scan[r].found
  BY <1>1, <1>3 DEF ScanThreads, ScanPlaces
<1> HIDE DEF s, c
<1>9. ContextOK(c, Len(files')) /\ ScanOK(s, Len(sessions'), Len(files'))
  BY <1>1, <1>2, <1>3, <1>5, <1>7, <1>8 DEF ContextOK, ScanOK, BrowserPlaces
<1> QED
  BY <1>2, <1>5, <1>6, <1>9, RunMoves

\* The end of a scan writes the session of its browser over its file.
LEMMA SaveKeeps ==
    ASSUME SessionsInv, NEW r \in Runs, SaveState(r)
    PROVE  SessionsInv'
<1>1. scan[r] \in ScanThreads /\ ScanOK(scan[r], Len(sessions), Len(files)) /\ scan \in [Runs -> ScanThreads]
  BY RunOfInv
<1>2. UNCHANGED <<app, sessions, told, context, refresh>>
  BY DEF SaveState
<1> DEFINE s == [scan[r] EXCEPT !.pc = "done"]
           c == context[r]
<1>3. Grows /\ Len(files') = Len(files)
  <2>1. CASE UNCHANGED files
    BY <1>2, <2>1, NothingGrows
  <2>2. CASE scan[r].path # 0 /\ files' = Store(scan[r].path, scan[r].session)
    <3>1. scan[r].path \in 1..Len(files) /\ scan[r].session \in 0..Len(sessions')
      BY <1>1, <1>2, <2>2, Sizes DEF ScanOK, ScanThreads
    <3>2. sessions' \in Seq(SessionStates) /\ Len(sessions) <= Len(sessions')
      BY <1>2, Sizes DEF SessionsInv
    <3> QED
      BY <1>2, <2>2, <3>1, <3>2, StoreGrows
  <2> QED
    BY <2>1, <2>2 DEF SaveState
<1>4. /\ s \in ScanThreads /\ s.pc = "done" /\ s.path = scan[r].path /\ s.session = scan[r].session
      /\ scan' = [scan EXCEPT ![r] = s]
  BY <1>1 DEF ScanThreads, ScanPlaces, SaveState
<1> HIDE DEF s
<1>5. ScanOK(s, Len(sessions'), Len(files'))
  BY <1>1, <1>2, <1>3, <1>4 DEF ScanOK, BrowserPlaces
<1>6. context' = [context EXCEPT ![r] = c] /\ ContextOK(c, Len(files'))
  BY <1>2, <1>3, RunOfInv
<1> HIDE DEF c
<1> QED
  BY <1>2, <1>3, <1>4, <1>5, <1>6, RunMoves

\* A step of a refresh that leaves the contexts alone.
LEMMA RefreshGoesOn ==
    ASSUME SessionsInv, Grows, NEW k \in Refreshes, NEW r \in Runs, NEW h,
           RefreshOK(h, Len(sessions'), Len(files')),
           refresh' = [refresh EXCEPT ![k] = h], UNCHANGED <<context, scan>>
    PROVE  SessionsInv'
<1> DEFINE c == context[r]
<1>1. context' = [context EXCEPT ![r] = c] /\ ContextOK(c, Len(files'))
  BY RunOfInv, StaysOK
<1> HIDE DEF c
<1> QED
  BY <1>1, RefreshMoves

\* The beginning of a refresh, and its end without a session.
LEMMA StartRefreshKeeps ==
    ASSUME SessionsInv, NEW k \in Refreshes, NEW r \in Runs, StartRefresh(k, r) \/ RefreshFails(k)
    PROVE  SessionsInv'
<1>1. /\ Grows /\ Len(sessions') = Len(sessions) /\ Len(files') = Len(files) /\ UNCHANGED <<context, scan>>
      /\ Len(sessions) \in Nat /\ Len(files) \in Nat
  BY NothingGrows, Sizes DEF StartRefresh, RefreshFails
<1>2. CASE StartRefresh(k, r)
  <2> DEFINE path == context[r].path
             h == [Quiet EXCEPT !.pc = "login", !.run = r, !.path = path]
  <2>1. path \in Nat /\ path <= Len(files)
    BY RunOfInv DEF ContextOK, Contexts
  <2>2. refresh' = [refresh EXCEPT ![k] = h]
    BY <1>2 DEF StartRefresh
  <2> HIDE DEF path
  <2>3. h \in RefreshThreads /\ h.path = path /\ h.session = 0 /\ h.run = r /\ h.pc = "login"
    BY <2>1 DEF Quiet, RefreshThreads
  <2> HIDE DEF h
  <2>4. RefreshOK(h, Len(sessions'), Len(files'))
    BY <1>1, <2>1, <2>3 DEF RefreshOK
  <2> QED
    BY <1>1, <2>2, <2>4, RefreshGoesOn
<1>3. CASE RefreshFails(k)
  <2>1. RefreshOK(Quiet, Len(sessions'), Len(files'))
    BY <1>1 DEF RefreshOK, RefreshThreads, Quiet
  <2>2. refresh' = [refresh EXCEPT ![k] = Quiet]
    BY <1>3 DEF RefreshFails
  <2> QED
    BY <1>1, <2>1, <2>2, RefreshGoesOn
<1> QED
  BY <1>2, <1>3

\* What the file of a thread holds is no newer than the newest session.
LEMMA HeldBound ==
    ASSUME SessionsInv, NEW path \in 0..Len(files)
    PROVE  Held(path) \in Nat /\ Held(path) <= Len(sessions)
<1>1. CASE path = 0
  BY <1>1, Sizes DEF Held
<1>2. CASE path # 0
  <2>1. path \in 1..Len(files)
    BY <1>2, Sizes
  <2>2. files[path] \in 0..Len(sessions)
    BY <2>1, Sizes
  <2> QED
    BY <1>2, <2>2, Sizes DEF Held
<1> QED
  BY <1>1, <1>2

\* The login of a refresh: its session is newer than what the file holds.
LEMMA RefreshLoginKeeps ==
    ASSUME SessionsInv, NEW k \in Refreshes, RefreshLogin(k)
    PROVE  SessionsInv'
<1>1. /\ refresh[k] \in RefreshThreads /\ RefreshOK(refresh[k], Len(sessions), Len(files))
      /\ refresh \in [Refreshes -> RefreshThreads] /\ refresh[k].pc = "login"
  BY RefreshOfInv DEF RefreshLogin
<1>2. PICK state \in {"live", Rejected} : LoginReturns(state)
  BY DEF RefreshLogin
<1>3. /\ sessions' \in Seq(SessionStates) /\ NewSession = Len(sessions') /\ NewSession = Len(sessions) + 1
      /\ Len(sessions) <= Len(sessions') /\ Len(sessions) \in Nat
  BY <1>2, LoginIssues, Sizes
<1>4. UNCHANGED <<app, files, told, context, scan>>
  BY DEF RefreshLogin
<1>5. Grows /\ Len(files') = Len(files)
  BY <1>3, <1>4, SessionsGrow
<1> DEFINE found == Held(refresh[k].path)
           h == [refresh[k] EXCEPT !.pc = "save", !.session = NewSession, !.found = found]
<1>6. refresh[k].path \in 0..Len(files) /\ refresh[k].run \in Runs
  BY <1>1, Sizes DEF RefreshOK, RefreshThreads
<1>7. found \in Nat /\ found <= Len(sessions)
  BY <1>6, HeldBound
<1>8. refresh' = [refresh EXCEPT ![k] = h]
  BY <1>1 DEF RefreshLogin
<1> HIDE DEF found
<1>a. NewSession \in Nat
  BY <1>3
<1>9. /\ h \in RefreshThreads /\ h.pc = "save" /\ h.session = NewSession /\ h.found = found
      /\ h.path = refresh[k].path /\ h.run = refresh[k].run
  BY <1>1, <1>7, <1>a DEF RefreshThreads
<1> HIDE DEF h
<1>10. RefreshOK(h, Len(sessions'), Len(files'))
  BY <1>1, <1>3, <1>5, <1>6, <1>7, <1>9 DEF RefreshOK
<1> QED
  BY <1>4, <1>5, <1>6, <1>8, <1>10, RefreshGoesOn

\* A refresh stores its session in its file, or in a new one.
LEMMA RefreshSaveKeeps ==
    ASSUME SessionsInv, NEW k \in Refreshes, RefreshSave(k)
    PROVE  SessionsInv'
<1>1. /\ refresh[k] \in RefreshThreads /\ RefreshOK(refresh[k], Len(sessions), Len(files))
      /\ refresh \in [Refreshes -> RefreshThreads] /\ refresh[k].pc = "save"
  BY RefreshOfInv DEF RefreshSave
<1>2. UNCHANGED <<app, sessions, told, context, scan>> /\ Len(sessions) \in Nat /\ Len(files) \in Nat
  BY Sizes DEF RefreshSave
<1>3. /\ refresh[k].path \in 0..Len(files) /\ refresh[k].run \in Runs
      /\ refresh[k].session \in 0..Len(sessions') /\ sessions' \in Seq(SessionStates)
      /\ Len(sessions) <= Len(sessions')
  BY <1>1, <1>2 DEF RefreshOK, RefreshThreads, SessionsInv
<1>4. PICK path \in Nat : /\ refresh' = [refresh EXCEPT ![k] = [refresh[k] EXCEPT !.pc = "bind", !.path = path]]
                          /\ Grows /\ path \in 1..Len(files')
  <2>1. CASE refresh[k].path # 0
    <3>1. /\ files' = Store(refresh[k].path, refresh[k].session)
          /\ refresh' = [refresh EXCEPT ![k].pc = "bind"]
      BY <2>1 DEF RefreshSave
    <3>2. refresh[k].path \in 1..Len(files)
      BY <1>2, <1>3, <2>1
    <3>3. Grows /\ Len(files') = Len(files)
      BY <1>2, <1>3, <3>1, <3>2, StoreGrows
    <3>4. refresh' = [refresh EXCEPT ![k] = [refresh[k] EXCEPT !.pc = "bind", !.path = refresh[k].path]]
      BY <1>1, <3>1 DEF RefreshThreads
    <3>5. refresh[k].path \in Nat /\ refresh[k].path \in 1..Len(files')
      BY <3>2, <3>3
    <3> QED
      BY <3>3, <3>4, <3>5
  <2>2. CASE refresh[k].path = 0
    <3>1. /\ files' = Append(files, refresh[k].session)
          /\ refresh' = [refresh EXCEPT ![k].pc = "bind", ![k].path = Len(files')]
      BY <2>2 DEF RefreshSave
    <3>2. told' \subseteq told \cup {Len(files')}
      BY <1>2
    <3>3. Grows /\ Len(files') = Len(files) + 1
      BY <1>2, <1>3, <3>1, <3>2, AppendGrows
    <3>4. refresh' = [refresh EXCEPT ![k] = [refresh[k] EXCEPT !.pc = "bind", !.path = Len(files')]]
      BY <1>1, <3>1
    <3>5. Len(files') \in Nat /\ Len(files') \in 1..Len(files')
      BY <1>2, <3>3
    <3> QED
      BY <3>3, <3>4, <3>5
  <2> QED
    BY <2>1, <2>2
<1> DEFINE h == [refresh[k] EXCEPT !.pc = "bind", !.path = path]
<1>5. refresh' = [refresh EXCEPT ![k] = h]
  BY <1>4
<1>6. /\ h \in RefreshThreads /\ h.pc = "bind" /\ h.path = path
      /\ h.session = refresh[k].session /\ h.run = refresh[k].run
  BY <1>1, <1>4 DEF RefreshThreads
<1> HIDE DEF h
<1>7. RefreshOK(h, Len(sessions'), Len(files'))
  <2>1. Len(files') \in Nat /\ Len(sessions') = Len(sessions)
    BY <1>2, <1>4, SizesAfter
  <2> QED
    BY <1>1, <1>2, <1>3, <1>4, <1>6, <2>1 DEF RefreshOK
<1> QED
  BY <1>2, <1>3, <1>4, <1>5, <1>7, RefreshGoesOn

\* It binds its run to the file.
LEMMA RefreshBindKeeps ==
    ASSUME SessionsInv, NEW k \in Refreshes, RefreshBind(k)
    PROVE  SessionsInv'
<1> DEFINE r == refresh[k].run
           path == refresh[k].path
           c == [context[r] EXCEPT !.path = path]
<1>1. /\ RefreshOK(refresh[k], Len(sessions), Len(files)) /\ refresh[k] \in RefreshThreads
      /\ refresh[k].pc = "bind" /\ UNCHANGED <<app, sessions, files, scan>>
      /\ Len(sessions) \in Nat /\ Len(files) \in Nat
  BY RefreshOfInv, Sizes DEF RefreshBind
<1>2. r \in Runs /\ path \in 1..Len(files)
  BY <1>1 DEF RefreshOK, RefreshThreads
<1>3. Grows
  <2>1. told' \subseteq 1..Len(files')
    BY <1>1, <1>2 DEF RefreshBind, SessionsInv
  <2> QED
    BY <1>1, <2>1 DEF Grows, SessionsInv
<1>4. context[r] \in Contexts /\ context \in [Runs -> Contexts]
  BY <1>2, RunOfInv
<1>5. context' = [context EXCEPT ![r] = c] /\ refresh' = [refresh EXCEPT ![k] = Quiet] /\ scan' = scan
  BY <1>4 DEF RefreshBind
<1>6. ContextOK(c, Len(files'))
  BY <1>1, <1>2, <1>4 DEF ContextOK, Contexts
<1>7. RefreshOK(Quiet, Len(sessions'), Len(files'))
  BY <1>1 DEF RefreshOK, RefreshThreads, Quiet
<1> HIDE DEF r, path, c
<1> QED
  BY <1>2, <1>3, <1>5, <1>6, <1>7, RefreshMoves

\* A step that only the application takes part in.
LEMMA SessionsMove ==
    ASSUME SessionsInv, Grows, UNCHANGED <<context, scan, refresh>>
    PROVE  SessionsInv'
BY StaysOK DEF SessionsInv, Grows

\* The application revokes or expires a session, and no session changes its age.
LEMMA ApplicationKeeps ==
    ASSUME SessionsInv,
           \/ \E r \in Runs : DiscoverFails(r)
           \/ \E s \in Issued, state \in {"revoked", "expired"} : SessionEnds(s, state)
    PROVE  SessionsInv'
<1>1. ASSUME NEW r \in Runs, DiscoverFails(r)
      PROVE  SessionsInv'
  <2>1. PICK state \in {"live", Rejected} : LoginReturns(state)
    BY <1>1 DEF DiscoverFails
  <2>2. UNCHANGED <<app, files, told, context, scan, refresh>>
    BY <1>1 DEF DiscoverFails
  <2>3. Grows
    BY <2>1, <2>2, LoginIssues, SessionsGrow
  <2> QED
    BY <2>2, <2>3, SessionsMove
<1>2. ASSUME NEW s \in Issued, NEW state \in {"revoked", "expired"}, SessionEnds(s, state)
      PROVE  SessionsInv'
  <2>1. UNCHANGED <<app, files, told, context, scan, refresh>> /\ sessions' = [sessions EXCEPT ![s] = state]
    BY <1>2 DEF SessionEnds
  <2>2. sessions \in Seq(SessionStates) /\ state \in SessionStates /\ s \in 1..Len(sessions)
    BY Sizes DEF SessionsInv, SessionStates, Issued
  <2>3. sessions' \in Seq(SessionStates) /\ Len(sessions') = Len(sessions)
    BY <2>1, <2>2, ExceptSeq
  <2>4. Len(sessions) <= Len(sessions')
    BY <2>3, Sizes
  <2>5. Grows
    BY <2>1, <2>3, <2>4, SessionsGrow
  <2> QED
    BY <2>1, <2>5, SessionsMove
<1> QED
  BY <1>1, <1>2

\* The invariant holds after every step.
LEMMA SessionsNext == SessionsInv /\ [AuthNext]_authVars => SessionsInv'
<1> SUFFICES ASSUME SessionsInv, [AuthNext]_authVars PROVE SessionsInv'
  OBVIOUS
<1>1. ASSUME NEW r \in Runs, NEW credentials \in BOOLEAN, Discover(r, credentials)
      PROVE  SessionsInv'
  BY <1>1, DiscoverKeeps
<1>2. ASSUME NEW r \in Runs, NEW named \in told \cup {0}, NEW credentials \in BOOLEAN,
             StartScan(r, named, credentials)
      PROVE  SessionsInv'
  BY <1>2, StartScanKeeps
<1>3. ASSUME NEW r \in Runs, ScanStep(r)
      PROVE  SessionsInv'
  <2>1. CASE CheckFile(r) \/ Probe(r)
    BY <2>1, CheckKeeps
  <2>2. CASE OpenContext(r)
    BY <2>2, OpenContextKeeps
  <2>3. CASE SignIn(r)
    BY <2>3, SignInKeeps
  <2>4. CASE SignInAgain(r) \/ Rotate(r)
    BY <2>4, NewSessionKeeps
  <2>5. CASE GiveUp(r) \/ ScanReturns(r)
    BY <2>5, ScanPlacesKeep
  <2>6. CASE CrawlReturns(r) \/ ScanExpired(r) \/ ScanFailed(r)
    BY <2>6, StatusKeeps
  <2>7. CASE SaveState(r)
    BY <2>7, SaveKeeps
  <2> QED
    BY <1>3, <2>1, <2>2, <2>3, <2>4, <2>5, <2>6, <2>7 DEF ScanStep
<1>4. ASSUME NEW k \in Refreshes, NEW r \in Runs, StartRefresh(k, r)
      PROVE  SessionsInv'
  BY <1>4, StartRefreshKeeps
<1>5. ASSUME NEW k \in Refreshes, RefreshStep(k)
      PROVE  SessionsInv'
  <2>1. CASE RefreshFails(k)
    <3>1. refresh[k].run \in Runs
      BY <2>1, RefreshOfInv DEF RefreshFails, RefreshOK
    <3> QED
      BY <2>1, <3>1, StartRefreshKeeps
  <2> QED
    BY <1>5, <2>1, RefreshLoginKeeps, RefreshSaveKeeps, RefreshBindKeeps DEF RefreshStep
<1>6. CASE UNCHANGED authVars
  BY <1>6 DEF authVars, SessionsInv
<1> QED
  BY <1>1, <1>2, <1>3, <1>4, <1>5, <1>6, ApplicationKeeps DEF AuthNext

(* The invariant of the session handling: the types, and of every thread   *)
(* with a browser that its session is as new as the one its file held when *)
(* the browser got it (run_scan, refresh_auth_session).                    *)
THEOREM SessionsInvariance == AuthSpec => []SessionsInv
BY SessionsInit, SessionsNext, PTL DEF AuthSpec

(* A storage file goes back to an older session only by a lost update: at  *)
(* the end of a scan, or when a refresh saves, and only if somebody stored *)
(* another session in the file after that thread got its own.              *)
THEOREM SessionNeverReturns == AuthSpec => SessionNeverGoesBack
<1>1. ASSUME SessionsInv, [AuthNext]_authVars
      PROVE  [\A path \in DOMAIN files : files'[path] < files[path] =>
                 \/ \E r \in Runs : scan'[r] # scan[r] /\ IsOvertaken(scan[r], path)
                 \/ \E k \in Refreshes : refresh'[k] # refresh[k] /\ IsOvertaken(refresh[k], path)]_authVars
  <2> SUFFICES ASSUME NEW path \in DOMAIN files, files'[path] < files[path]
               PROVE  \/ \E r \in Runs : scan'[r] # scan[r] /\ IsOvertaken(scan[r], path)
                      \/ \E k \in Refreshes : refresh'[k] # refresh[k] /\ IsOvertaken(refresh[k], path)
    OBVIOUS
  <2>1. /\ Len(sessions) \in Nat /\ path \in 1..Len(files) /\ files \in Seq(Nat) /\ DOMAIN files = 1..Len(files)
        /\ files[path] \in 0..Len(sessions) /\ files' # files
    BY <1>1, Sizes
  <2>2. \/ \E r \in Runs : SignIn(r) \/ SaveState(r) \/ \E credentials \in BOOLEAN : Discover(r, credentials)
        \/ \E k \in Refreshes : RefreshSave(k)
    BY <1>1, <2>1
       DEF AuthNext, ScanStep, RefreshStep, authVars, DiscoverFails,
           StartScan, CheckFile, Probe, OpenContext, SignInAgain,
           GiveUp, Rotate, CrawlReturns, ScanExpired, ScanFailed,
           ScanReturns, StartRefresh, RefreshLogin, RefreshFails,
           RefreshBind, SessionEnds
  <2>3. ASSUME NEW p, NEW s \in Nat, files' = Store(p, s)
        PROVE  p = path /\ s < files[path]
    <3>1. files' = [files EXCEPT ![p] = s]
      BY <2>3 DEF Store
    <3> QED
      BY <2>1, <3>1
  <2>4. ASSUME NEW s \in Nat, files' = Append(files, s)
        PROVE  FALSE
    <3> DEFINE f == Append(files, s)
    <3>1. f[path] = files[path]
      BY <2>1, AppendProperties
    <3>2. files' = f
      BY <2>4
    <3> HIDE DEF f
    <3> QED
      BY <2>1, <3>1, <3>2
  <2>5. NewSession \in Nat /\ ~(NewSession < files[path])
    BY <2>1 DEF NewSession
  <2>6. ASSUME NEW r \in Runs, SaveState(r)
        PROVE  scan'[r] # scan[r] /\ IsOvertaken(scan[r], path)
    <3>1. /\ scan[r] \in ScanThreads /\ ScanOK(scan[r], Len(sessions), Len(files))
          /\ scan \in [Runs -> ScanThreads]
      BY <1>1, RunOfInv
    <3>2. files' = Store(scan[r].path, scan[r].session) /\ scan[r].pc = "save"
      BY <2>1, <2>6 DEF SaveState
    <3>3. scan[r].session \in Nat /\ scan[r].found \in Nat /\ scan[r].found <= scan[r].session
      BY <3>1, <3>2 DEF ScanOK, ScanThreads, BrowserPlaces
    <3>4. scan[r].path = path /\ scan[r].session < files[path]
      BY <2>3, <3>2, <3>3
    <3>5. scan[r].found # files[path]
      BY <2>1, <3>3, <3>4
    <3>6. scan'[r].pc = "done"
      BY <2>6, <3>1 DEF SaveState, ScanThreads
    <3> QED
      BY <3>2, <3>4, <3>5, <3>6 DEF IsOvertaken
  <2>7. ASSUME NEW k \in Refreshes, RefreshSave(k)
        PROVE  refresh'[k] # refresh[k] /\ IsOvertaken(refresh[k], path)
    <3>1. /\ refresh[k] \in RefreshThreads /\ RefreshOK(refresh[k], Len(sessions), Len(files))
          /\ refresh \in [Refreshes -> RefreshThreads] /\ refresh[k].pc = "save"
      BY <1>1, <2>7, RefreshOfInv DEF RefreshSave
    <3>2. /\ refresh[k].session \in Nat /\ refresh[k].found \in Nat /\ refresh[k].found <= refresh[k].session
      BY <3>1 DEF RefreshOK, RefreshThreads
    <3>3. \/ files' = Store(refresh[k].path, refresh[k].session) \/ files' = Append(files, refresh[k].session)
      BY <2>7 DEF RefreshSave
    <3>4. refresh[k].path = path /\ refresh[k].session < files[path]
      BY <2>3, <2>4, <3>2, <3>3
    <3>5. refresh[k].found # files[path]
      BY <2>1, <3>2, <3>4
    <3>6. refresh'[k].pc = "bind"
      BY <2>7, <3>1 DEF RefreshSave, RefreshThreads
    <3> QED
      BY <3>1, <3>4, <3>5, <3>6 DEF IsOvertaken
  <2>8. ASSUME NEW r \in Runs, SignIn(r) PROVE FALSE
    <3>1. files' = Store(scan[r].path, NewSession)
      BY <2>1, <2>8 DEF SignIn
    <3> QED
      BY <2>3, <2>5, <3>1
  <2>9. ASSUME NEW r \in Runs, NEW credentials \in BOOLEAN, Discover(r, credentials) PROVE FALSE
    <3>1. files' = Append(files, NewSession)
      BY <2>1, <2>9 DEF Discover
    <3> QED
      BY <2>4, <2>5, <3>1
  <2> QED
    BY <2>2, <2>6, <2>7, <2>8, <2>9
<1> QED
  BY <1>1, SessionsInvariance, PTL DEF AuthSpec, SessionNeverGoesBack
=============================================================================
