---------------------------- MODULE LibraryProofs ----------------------------
(***************************************************************************)
(* What holds of brand versions and assets for any number of processes,    *)
(* contents, projects and versions.  The brand rows need their type only;  *)
(* the assets need to know where a file that is not whole comes from.      *)
(***************************************************************************)
EXTENDS LibraryMC, TLAPS

(* Brand profiles.                                                          *)
BrandInv == active \in Seq(BOOLEAN) /\ OneActiveVersion

(* Assets.                                                                  *)
IsUpload(x) == /\ x = [pc |-> x.pc, d |-> x.d, p |-> x.p]
               /\ x.pc # "idle" => x.d \in Digests

Uploading == DOMAIN up = Uploads /\ \A u \in Uploads : IsUpload(up[u])

FileStates == {"absent", "partial", "full"}

(* A partial file is being copied or was left so by an interruption, and    *)
(* whoever copies a file, inserts a blob, or has, saw its file.             *)
FilesAccounted ==
    /\ disk \in [Digests -> FileStates]
    /\ blobs \subseteq Digests
    /\ \A d \in Digests : disk[d] = "partial" => Copying(d) # {} \/ <<"copy", d>> \in broken
    /\ \A d \in blobs : disk[d] # "absent"
    /\ \A u \in Uploads : up[u].pc \in {"copying", "insert_blob"} => disk[up[u].d] # "absent"

AssetInv == Uploading /\ FilesAccounted /\ ReferenceHasSidecar

LibraryInv == BrandInv /\ AssetInv

-----------------------------------------------------------------------------
(* Brand profiles.                                                         *)

LEMMA NoneActive ==
    ASSUME active \in Seq(BOOLEAN)
    PROVE  /\ AllInactive \in Seq(BOOLEAN) /\ Len(AllInactive) = Len(active)
           /\ \A v \in Versions : AllInactive[v] = FALSE
<1>1. Versions = 1 .. Len(active) /\ Len(active) \in Nat
    BY DEF Versions
<1>2. QED
    BY <1>1 DEF AllInactive

(* A version saved without being activated changes nothing of the others.   *)
LEMMA SaveProfileKeeps ==
    ASSUME BrandInv, NEW s \in Savers, NEW activate \in BOOLEAN, SaveProfile(s, activate)
    PROVE  /\ BrandInv'
           /\ SomeActive => SomeActive'
<1>1. active \in Seq(BOOLEAN) /\ Versions = 1 .. Len(active) /\ Len(active) \in Nat
    BY DEF BrandInv, Versions
<1> DEFINE base == IF activate THEN AllInactive ELSE active
<1>2. /\ base \in Seq(BOOLEAN) /\ Len(base) = Len(active)
      /\ \A v \in 1 .. Len(active) : base[v] = IF activate THEN FALSE ELSE active[v]
    BY <1>1, NoneActive
<1> HIDE DEF base
<1>3. CASE active' = active
    BY <1>1, <1>3 DEF BrandInv, OneActiveVersion, SomeActive, Versions
<1>4. CASE active' = Append(base, activate)
  <2>1. /\ active' \in Seq(BOOLEAN) /\ Len(active') = Len(active) + 1
        /\ DOMAIN active' = 1 .. Len(active) + 1
        /\ \A v \in 1 .. Len(active) : active'[v] = base[v]
        /\ active'[Len(active) + 1] = activate
      BY <1>1, <1>2, <1>4
  <2>2. ASSUME NEW u \in Versions', NEW v \in Versions', active'[u], active'[v]
        PROVE  u = v
    <3>1. CASE activate
      <4>1. \A k \in 1 .. Len(active) : ~active'[k]
          BY <1>2, <2>1, <3>1
      <4>2. u \in 1 .. Len(active) + 1 /\ u \notin 1 .. Len(active)
          BY <2>1, <2>2, <4>1 DEF Versions
      <4>3. v \in 1 .. Len(active) + 1 /\ v \notin 1 .. Len(active)
          BY <2>1, <2>2, <4>1 DEF Versions
      <4>4. QED
          BY <1>1, <4>2, <4>3
    <3>2. CASE ~activate
      <4>1. u \in Versions /\ v \in Versions /\ active[u] /\ active[v]
          BY <1>1, <1>2, <2>1, <2>2, <3>2 DEF Versions
      <4>2. QED
          BY <4>1 DEF BrandInv, OneActiveVersion
    <3>3. QED
        BY <3>1, <3>2
  <2>3. ASSUME NEW v \in Versions, active[v]
        PROVE  \E u \in Versions' : active'[u]
    <3>1. CASE activate
      <4>1. Len(active) + 1 \in Versions'
          BY <1>1, <2>1 DEF Versions
      <4>2. active'[Len(active) + 1]
          BY <2>1, <3>1
      <4>3. QED
          BY <4>1, <4>2
    <3>2. CASE ~activate
        BY <1>1, <1>2, <2>1, <2>3, <3>2 DEF Versions
    <3>3. QED
        BY <3>1, <3>2
  <2>4. QED
      BY <2>1, <2>2, <2>3 DEF BrandInv, OneActiveVersion, SomeActive
<1>5. QED
    BY <1>3, <1>4 DEF SaveProfile, base

LEMMA ActivateKeeps ==
    ASSUME BrandInv, NEW v \in Versions, Activate(v)
    PROVE  BrandInv' /\ SomeActive'
<1>1. active \in Seq(BOOLEAN) /\ Versions = 1 .. Len(active) /\ Len(active) \in Nat
    BY DEF BrandInv, Versions
<1>2. /\ AllInactive \in Seq(BOOLEAN) /\ Len(AllInactive) = Len(active)
      /\ \A u \in Versions : AllInactive[u] = FALSE
    BY <1>1, NoneActive
<1>3. active' = [AllInactive EXCEPT ![v] = TRUE]
    BY DEF Activate
<1> HIDE DEF AllInactive
<1>4. /\ active' \in Seq(BOOLEAN) /\ DOMAIN active' = Versions
      /\ active'[v] = TRUE
      /\ \A u \in Versions \ {v} : active'[u] = FALSE
    BY <1>1, <1>2, <1>3
<1>5. QED
    BY <1>4 DEF BrandInv, OneActiveVersion, SomeActive, Versions

LEMMA BrandNextKeeps ==
    ASSUME BrandInv, BrandNext
    PROVE  /\ BrandInv'
           /\ SomeActive => SomeActive'
<1>1. CASE \E s \in Savers : ReadNextVersion(s)
  <2>1. active' = active
      BY <1>1 DEF ReadNextVersion
  <2>2. QED
      BY <2>1 DEF BrandInv, OneActiveVersion, SomeActive, Versions
<1>2. CASE \E s \in Savers, b \in BOOLEAN : SaveProfile(s, b)
    BY <1>2, SaveProfileKeeps
<1>3. CASE \E v \in Versions : Activate(v)
    BY <1>3, ActivateKeeps
<1>4. QED
    BY <1>1, <1>2, <1>3 DEF BrandNext

-----------------------------------------------------------------------------
(* Uploads: how each of the three ways of moving on changes a process.      *)

Moved(u, x) == /\ DOMAIN up' = Uploads /\ up'[u] = x
               /\ \A k \in Uploads \ {u} : up'[k] = up[k]

LEMMA GotoMoves ==
    ASSUME Uploading, NEW u \in Uploads, NEW pc, up[u].pc # "idle", Goto(u, pc)
    PROVE  /\ Uploading' /\ Moved(u, up'[u])
           /\ up'[u].pc = pc /\ up'[u].d = up[u].d /\ up'[u].p = up[u].p
<1> DEFINE x == [up[u] EXCEPT !.pc = pc]
<1>1. IsUpload(up[u]) /\ DOMAIN up = Uploads
    BY DEF Uploading
<1>2. x = [pc |-> pc, d |-> up[u].d, p |-> up[u].p]
    BY <1>1 DEF IsUpload
<1>3. IsUpload(x) /\ x.pc = pc /\ x.d = up[u].d /\ x.p = up[u].p
    BY <1>1, <1>2 DEF IsUpload
<1>4. up' = [up EXCEPT ![u] = x]
    BY DEF Goto
<1> HIDE DEF x
<1>5. Moved(u, x)
    BY <1>1, <1>4 DEF Moved
<1>6. QED
    BY <1>3, <1>5 DEF Moved, Uploading

LEMMA EndsMoves ==
    ASSUME Uploading, NEW u \in Uploads, Ends(u)
    PROVE  Uploading' /\ Moved(u, Unused) /\ Unused.pc = "idle"
<1>1. IsUpload(Unused) /\ Unused.pc = "idle"
    BY DEF Unused, IsUpload
<1>2. Moved(u, Unused)
    BY DEF Ends, Moved, Uploading
<1>3. QED
    BY <1>1, <1>2 DEF Moved, Uploading

LEMMA IngestMoves ==
    ASSUME Uploading, NEW u \in Uploads, NEW d \in Digests, NEW p \in Projects, Ingest(u, d, p)
    PROVE  /\ Uploading' /\ Moved(u, up'[u]) /\ up'[u].pc = "find_blob"
<1> DEFINE x == [pc |-> "find_blob", d |-> d, p |-> p]
<1>1. IsUpload(x) /\ x.pc = "find_blob"
    BY DEF IsUpload
<1>2. up' = [up EXCEPT ![u] = x]
    BY DEF Ingest
<1> HIDE DEF x
<1>3. Moved(u, x)
    BY <1>2 DEF Moved, Uploading
<1>4. QED
    BY <1>1, <1>3 DEF Moved, Uploading

(* A process that moves without copying, inserting a blob or owing a        *)
(* sidecar disturbs nothing that is accounted for.                          *)
LEMMA AsideKeeps ==
    ASSUME AssetInv, NEW u \in Uploads, Uploading', Moved(u, up'[u]),
           ~At(u, "copying"), ~At(u, "sidecar"), up'[u].pc \notin {"copying", "insert_blob"},
           UNCHANGED <<disk, blobs, refs, sidecars, broken>>
    PROVE  AssetInv'
<1>1. ASSUME NEW d \in Digests PROVE Copying(d) \subseteq Copying(d)'
    BY DEF Copying, At, Moved
<1>2. FilesAccounted'
    BY <1>1 DEF AssetInv, FilesAccounted, At, Moved
<1>3. ReferenceHasSidecar'
    BY DEF AssetInv, ReferenceHasSidecar, At, Ref, Moved
<1>4. QED
    BY <1>2, <1>3 DEF AssetInv

LEMMA FindBlobKeeps ==
    ASSUME AssetInv, NEW u \in Uploads, FindBlob(u)
    PROVE  AssetInv'
<1>1. up[u].pc = "find_blob" /\ Uploading /\ UNCHANGED <<disk, blobs, refs, sidecars, broken>>
    BY DEF FindBlob, At, AssetInv
<1>2. \E pc \in {"find_ref", "find_file"} : Goto(u, pc)
    BY DEF FindBlob
<1>3. QED
    BY <1>1, <1>2, GotoMoves, AsideKeeps DEF At

(* A file that was found is accounted for, whole or not.                    *)
LEMMA FindFileKeeps ==
    ASSUME AssetInv, NEW u \in Uploads, FindFile(u)
    PROVE  AssetInv'
<1>1. /\ up[u].pc = "find_file" /\ Uploading
      /\ UNCHANGED <<disk, blobs, refs, sidecars, broken>>
    BY DEF FindFile, At, AssetInv
<1>2. CASE disk[up[u].d] = "absent"
  <2>1. Goto(u, "open")
      BY <1>2 DEF FindFile
  <2>2. QED
      BY <1>1, <2>1, GotoMoves, AsideKeeps DEF At
<1>3. CASE disk[up[u].d] # "absent"
  <2>1. Goto(u, "insert_blob")
      BY <1>3 DEF FindFile
  <2>2. /\ Uploading' /\ Moved(u, up'[u])
        /\ up'[u].pc = "insert_blob" /\ up'[u].d = up[u].d
      BY <1>1, <2>1, GotoMoves
  <2>3. ASSUME NEW d \in Digests PROVE Copying(d) \subseteq Copying(d)'
      BY <1>1, <2>2 DEF Copying, At, Moved
  <2>4. FilesAccounted'
      BY <1>1, <1>3, <2>2, <2>3 DEF AssetInv, FilesAccounted, At, Moved
  <2>5. ReferenceHasSidecar'
      BY <1>1, <2>2 DEF AssetInv, ReferenceHasSidecar, At, Ref, Moved
  <2>6. QED
      BY <2>2, <2>4, <2>5 DEF AssetInv
<1>4. QED
    BY <1>2, <1>3

LEMMA OpenCopyKeeps ==
    ASSUME AssetInv, NEW u \in Uploads, OpenCopy(u)
    PROVE  AssetInv'
<1>0. PICK f \in Digests : up[u].d = f
    BY DEF OpenCopy, At, AssetInv, Uploading, IsUpload
<1>1. /\ up[u].pc = "open" /\ Uploading
      /\ UNCHANGED <<blobs, refs, sidecars, broken>>
    BY DEF OpenCopy, At, AssetInv
<1>2. /\ Uploading' /\ Moved(u, up'[u])
      /\ up'[u].pc = "copying" /\ up'[u].d = f
    BY <1>0, <1>1, GotoMoves DEF OpenCopy
<1>3. disk' = [disk EXCEPT ![f] = "partial"]
    BY <1>0 DEF OpenCopy
<1>4. /\ disk' \in [Digests -> FileStates] /\ disk'[f] = "partial"
      /\ \A d \in Digests \ {f} : disk'[d] = disk[d]
    BY <1>1, <1>3 DEF AssetInv, FilesAccounted, FileStates
<1>5. ASSUME NEW d \in Digests PROVE Copying(d) \subseteq Copying(d)'
    BY <1>1, <1>2 DEF Copying, At, Moved
<1>6. u \in Copying(f)'
    BY <1>2 DEF Copying, At
<1>7. FilesAccounted'
  <2>1. \A d \in Digests : disk'[d] = "partial" => Copying(d)' # {} \/ <<"copy", d>> \in broken'
    <3> SUFFICES ASSUME NEW d \in Digests, disk'[d] = "partial", <<"copy", d>> \notin broken'
                 PROVE  Copying(d)' # {}
        OBVIOUS
    <3>1. d # f => Copying(d) # {}
        BY <1>1, <1>4 DEF AssetInv, FilesAccounted
    <3>2. QED
        BY <1>5, <1>6, <3>1
  <2>2. \A d \in Digests : disk[d] # "absent" => disk'[d] # "absent"
      BY <1>4
  <2>3. \A d \in blobs' : disk'[d] # "absent"
      BY <1>1, <2>2 DEF AssetInv, FilesAccounted
  <2>4. \A k \in Uploads : up'[k].pc \in {"copying", "insert_blob"} => disk'[up'[k].d] # "absent"
    <3>1. ASSUME NEW k \in Uploads \ {u}, up[k].pc \in {"copying", "insert_blob"}
          PROVE  disk'[up[k].d] # "absent"
        BY <3>1, <2>2 DEF AssetInv, FilesAccounted, Uploading, IsUpload
    <3>2. QED
        BY <1>0, <1>2, <1>4, <3>1 DEF Moved
  <2>5. QED
      BY <1>1, <1>4, <2>1, <2>3, <2>4 DEF AssetInv, FilesAccounted
<1>8. ReferenceHasSidecar'
    BY <1>1, <1>2 DEF AssetInv, ReferenceHasSidecar, At, Ref, Moved
<1>9. QED
    BY <1>2, <1>7, <1>8 DEF AssetInv

(* The last of the copies that overlap makes the file whole.                *)
LEMMA EndCopyKeeps ==
    ASSUME AssetInv, NEW u \in Uploads, EndCopy(u)
    PROVE  AssetInv'
<1>0. PICK f \in Digests : up[u].d = f
    BY DEF EndCopy, At, AssetInv, Uploading, IsUpload
<1>1. /\ up[u].pc = "copying" /\ Uploading /\ u \in Copying(f)
      /\ UNCHANGED <<blobs, refs, sidecars, broken>>
    BY <1>0 DEF EndCopy, At, AssetInv, Copying
<1>2. /\ Uploading' /\ Moved(u, up'[u])
      /\ up'[u].pc = "insert_blob" /\ up'[u].d = f
    BY <1>0, <1>1, GotoMoves DEF EndCopy
<1>3. disk' = IF Copying(f) = {u} THEN [disk EXCEPT ![f] = "full"] ELSE disk
    BY <1>0 DEF EndCopy
<1>4. \A d \in Digests : Copying(d) \ {u} \subseteq Copying(d)'
    BY <1>1, <1>2 DEF Copying, At, Moved
<1>5. \A d \in Digests \ {f} : u \notin Copying(d)
    BY <1>0 DEF Copying
<1>6. disk[f] # "absent"
    BY <1>0, <1>1 DEF AssetInv, FilesAccounted
<1>7. /\ disk' \in [Digests -> FileStates]
      /\ \A d \in Digests \ {f} : disk'[d] = disk[d]
      /\ \/ disk'[f] = "full"
         \/ disk'[f] = disk[f] /\ disk'[f] # "absent" /\ Copying(f)' # {}
  <2>1. disk \in [Digests -> FileStates]
      BY DEF AssetInv, FilesAccounted
  <2>2. CASE Copying(f) = {u}
      BY <1>3, <2>1, <2>2 DEF FileStates
  <2>3. CASE Copying(f) # {u}
    <3>1. Copying(f)' # {}
        BY <1>1, <1>4, <2>3
    <3>2. QED
        BY <1>3, <1>6, <2>1, <2>3, <3>1
  <2>4. QED
      BY <2>2, <2>3
<1>8. FilesAccounted'
  <2>1. \A d \in Digests : disk'[d] = "partial" => Copying(d)' # {} \/ <<"copy", d>> \in broken'
    <3> SUFFICES ASSUME NEW d \in Digests, disk'[d] = "partial", <<"copy", d>> \notin broken'
                 PROVE  Copying(d)' # {}
        OBVIOUS
    <3>1. d # f => Copying(d) # {}
        BY <1>1, <1>7 DEF AssetInv, FilesAccounted
    <3>2. d # f => Copying(d) \subseteq Copying(d)'
        BY <1>4, <1>5
    <3>3. QED
        BY <1>7, <3>1, <3>2
  <2>2. \A d \in Digests : disk[d] # "absent" => disk'[d] # "absent"
      BY <1>7
  <2>3. \A d \in blobs' : disk'[d] # "absent"
      BY <1>1, <2>2 DEF AssetInv, FilesAccounted
  <2>4. \A k \in Uploads : up'[k].pc \in {"copying", "insert_blob"} => disk'[up'[k].d] # "absent"
    <3>1. ASSUME NEW k \in Uploads \ {u}, up[k].pc \in {"copying", "insert_blob"}
          PROVE  disk'[up[k].d] # "absent"
        BY <3>1, <2>2 DEF AssetInv, FilesAccounted, Uploading, IsUpload
    <3>2. QED
        BY <1>0, <1>2, <1>7, <3>1 DEF Moved
  <2>5. QED
      BY <1>1, <1>7, <2>1, <2>3, <2>4 DEF AssetInv, FilesAccounted
<1>9. ReferenceHasSidecar'
    BY <1>1, <1>2 DEF AssetInv, ReferenceHasSidecar, At, Ref, Moved
<1>10. QED
    BY <1>2, <1>8, <1>9 DEF AssetInv

LEMMA InsertBlobKeeps ==
    ASSUME AssetInv, NEW u \in Uploads, InsertBlob(u)
    PROVE  AssetInv'
<1>0. PICK f \in Digests : up[u].d = f
    BY DEF InsertBlob, At, AssetInv, Uploading, IsUpload
<1>1. /\ up[u].pc = "insert_blob" /\ Uploading /\ disk[f] # "absent"
      /\ UNCHANGED <<disk, refs, sidecars, broken>> /\ blobs' = blobs \cup {f}
    BY <1>0 DEF InsertBlob, At, AssetInv, FilesAccounted
<1>2. /\ Uploading' /\ Moved(u, up'[u])
      /\ up'[u].pc \in {"idle", "find_ref"}
  <2>1. CASE Ends(u)
      BY <1>1, <2>1, EndsMoves DEF Moved
  <2>2. CASE Goto(u, "find_ref")
      BY <1>1, <2>2, GotoMoves
  <2>3. QED
      BY <2>1, <2>2 DEF InsertBlob
<1>3. ASSUME NEW d \in Digests PROVE Copying(d) \subseteq Copying(d)'
    BY <1>1, <1>2 DEF Copying, At, Moved
<1>4. FilesAccounted'
    BY <1>1, <1>2, <1>3 DEF AssetInv, FilesAccounted, At, Moved
<1>5. ReferenceHasSidecar'
    BY <1>1, <1>2 DEF AssetInv, ReferenceHasSidecar, At, Ref, Moved
<1>6. QED
    BY <1>2, <1>4, <1>5 DEF AssetInv

LEMMA FindRefKeeps ==
    ASSUME AssetInv, NEW u \in Uploads, FindRef(u)
    PROVE  AssetInv'
<1>1. /\ up[u].pc = "find_ref" /\ Uploading
      /\ UNCHANGED <<disk, blobs, refs, sidecars, broken>>
    BY DEF FindRef, At, AssetInv
<1>2. CASE Ends(u)
    BY <1>1, <1>2, EndsMoves, AsideKeeps DEF At, Moved
<1>3. CASE Goto(u, "insert_ref")
    BY <1>1, <1>3, GotoMoves, AsideKeeps DEF At
<1>4. QED
    BY <1>2, <1>3 DEF FindRef

(* Whoever inserts a reference owes its sidecar.                            *)
LEMMA InsertRefKeeps ==
    ASSUME AssetInv, NEW u \in Uploads, InsertRef(u)
    PROVE  AssetInv'
<1>1. /\ up[u].pc = "insert_ref" /\ Uploading
      /\ UNCHANGED <<disk, blobs, sidecars, broken>>
    BY DEF InsertRef, At, AssetInv
<1>2. CASE Ref(u) \in refs
  <2>1. Ends(u) /\ refs' = refs
      BY <1>2 DEF InsertRef
  <2>2. QED
      BY <1>1, <2>1, EndsMoves, AsideKeeps DEF At, Moved
<1>3. CASE Ref(u) \notin refs
  <2>1. Goto(u, "sidecar") /\ refs' = refs \cup {Ref(u)}
      BY <1>3 DEF InsertRef
  <2>2. /\ Uploading' /\ Moved(u, up'[u])
        /\ up'[u].pc = "sidecar" /\ up'[u].d = up[u].d /\ up'[u].p = up[u].p
      BY <1>1, <2>1, GotoMoves
  <2>3. ASSUME NEW d \in Digests PROVE Copying(d) \subseteq Copying(d)'
      BY <1>1, <2>2 DEF Copying, At, Moved
  <2>4. FilesAccounted'
      BY <1>1, <2>2, <2>3 DEF AssetInv, FilesAccounted, At, Moved
  <2>5. ReferenceHasSidecar'
      BY <1>1, <2>1, <2>2 DEF AssetInv, ReferenceHasSidecar, At, Ref, Moved
  <2>6. QED
      BY <2>2, <2>4, <2>5 DEF AssetInv
<1>4. QED
    BY <1>2, <1>3

LEMMA WriteSidecarKeeps ==
    ASSUME AssetInv, NEW u \in Uploads, WriteSidecar(u)
    PROVE  AssetInv'
<1>1. /\ up[u].pc = "sidecar" /\ Uploading
      /\ UNCHANGED <<disk, blobs, refs, broken>> /\ sidecars' = sidecars \cup {Ref(u)}
    BY DEF WriteSidecar, At, AssetInv
<1>2. Uploading' /\ Moved(u, up'[u]) /\ up'[u].pc = "idle"
    BY <1>1, EndsMoves DEF WriteSidecar, Moved
<1>3. ASSUME NEW d \in Digests PROVE Copying(d) \subseteq Copying(d)'
    BY <1>1, <1>2 DEF Copying, At, Moved
<1>4. FilesAccounted'
    BY <1>1, <1>2, <1>3 DEF AssetInv, FilesAccounted, At, Moved
<1>5. ReferenceHasSidecar'
    BY <1>1, <1>2 DEF AssetInv, ReferenceHasSidecar, At, Ref, Moved
<1>6. QED
    BY <1>2, <1>4, <1>5 DEF AssetInv

(* An interruption leaves a note of the copy or the sidecar it cut short.   *)
LEMMA InterruptKeeps ==
    ASSUME AssetInv, NEW u \in Uploads, Interrupt(u)
    PROVE  AssetInv'
<1>1. Uploading /\ UNCHANGED <<disk, blobs, refs, sidecars>> /\ Ends(u)
    BY DEF Interrupt, AssetInv
<1>2. Uploading' /\ Moved(u, up'[u]) /\ up'[u].pc = "idle"
    BY <1>1, EndsMoves DEF Moved
<1>3. /\ broken \subseteq broken'
      /\ At(u, "copying") => <<"copy", up[u].d>> \in broken'
      /\ At(u, "sidecar") => Ref(u) \in broken'
  <2>1. CASE At(u, "copying")
      BY <2>1 DEF Interrupt, At
  <2>2. CASE At(u, "sidecar")
      BY <2>2 DEF Interrupt, At
  <2>3. CASE ~At(u, "copying") /\ ~At(u, "sidecar")
      BY <2>3 DEF Interrupt
  <2>4. QED
      BY <2>1, <2>2, <2>3
<1>4. ASSUME NEW d \in Digests
      PROVE  Copying(d) \subseteq Copying(d)' \/ <<"copy", d>> \in broken'
    BY <1>2, <1>3 DEF Copying, At, Moved
<1>5. FilesAccounted'
    BY <1>1, <1>2, <1>3, <1>4 DEF AssetInv, FilesAccounted, At, Moved
<1>6. ReferenceHasSidecar'
    BY <1>1, <1>2, <1>3 DEF AssetInv, ReferenceHasSidecar, At, Ref, Moved
<1>7. QED
    BY <1>2, <1>5, <1>6 DEF AssetInv

LEMMA AssetNextKeeps ==
    ASSUME AssetInv, AssetNext
    PROVE  AssetInv'
<1>1. ASSUME NEW u \in Uploads, Upload(u) PROVE AssetInv'
    BY <1>1, FindBlobKeeps, FindFileKeeps, OpenCopyKeeps, EndCopyKeeps, InsertBlobKeeps,
       FindRefKeeps, InsertRefKeeps, WriteSidecarKeeps DEF Upload
<1>2. ASSUME NEW u \in Uploads, Interrupt(u) PROVE AssetInv'
    BY <1>2, InterruptKeeps
<1>3. ASSUME NEW u \in Uploads, NEW d \in Digests, NEW p \in Projects, Ingest(u, d, p)
      PROVE  AssetInv'
  <2>1. /\ up[u].pc = "idle" /\ Uploading
        /\ UNCHANGED <<disk, blobs, refs, sidecars, broken>>
      BY <1>3 DEF Ingest, At, AssetInv
  <2>2. QED
      BY <1>3, <2>1, IngestMoves, AsideKeeps DEF At
<1>4. ASSUME NEW d \in Digests, NEW p \in Projects, Publish(p, d) PROVE AssetInv'
    BY <1>4 DEF Publish, AssetInv, Uploading, FilesAccounted, ReferenceHasSidecar, Copying, At,
       Ref
<1>5. QED
    BY <1>1, <1>2, <1>3, <1>4 DEF AssetNext

-----------------------------------------------------------------------------
LEMMA LibraryInvHolds == LibrarySpec => []LibraryInv
<1>1. LibraryInit => LibraryInv
  <2> SUFFICES ASSUME LibraryInit PROVE LibraryInv
      OBVIOUS
  <2>1. BrandInv
      BY DEF LibraryInit, BrandInit, BrandInv, OneActiveVersion, Versions
  <2>2. IsUpload(Unused) /\ Unused.pc = "idle"
      BY DEF Unused, IsUpload
  <2>3. AssetInv
      BY <2>2 DEF LibraryInit, AssetInit, AssetInv, Uploading, FilesAccounted, FileStates,
         ReferenceHasSidecar
  <2>4. QED
      BY <2>1, <2>3 DEF LibraryInv
<1>2. LibraryInv /\ [LibraryNext]_<<brandVars, assetVars>> => LibraryInv'
  <2> SUFFICES ASSUME LibraryInv, [LibraryNext]_<<brandVars, assetVars>> PROVE LibraryInv'
      OBVIOUS
  <2>1. BrandInv'
    <3>1. CASE BrandNext
        BY <3>1, BrandNextKeeps DEF LibraryInv
    <3>2. CASE UNCHANGED brandVars
        BY <3>2 DEF brandVars, LibraryInv, BrandInv, OneActiveVersion, Versions
    <3>3. QED
        BY <3>1, <3>2 DEF LibraryNext
  <2>2. AssetInv'
    <3>1. CASE AssetNext
        BY <3>1, AssetNextKeeps DEF LibraryInv
    <3>2. CASE UNCHANGED assetVars
        BY <3>2 DEF assetVars, LibraryInv, AssetInv, Uploading, FilesAccounted,
           ReferenceHasSidecar, Copying, At, Ref
    <3>3. QED
        BY <3>1, <3>2 DEF LibraryNext
  <2>3. QED
      BY <2>1, <2>2 DEF LibraryInv
<1>3. QED
    BY <1>1, <1>2, PTL DEF LibrarySpec

(* However saves and activations of brand profiles overlap, at most one     *)
(* version is active: a save writes in one transaction (Store.              *)
(* save_brand_profile), and a stale one fails on the unique version.        *)
THEOREM OneBrandActive == LibrarySpec => []OneActiveVersion
<1>1. LibraryInv => OneActiveVersion
    BY DEF LibraryInv, BrandInv
<1>2. QED
    BY <1>1, LibraryInvHolds, PTL

(* No save that fails, and no activation, leaves the studio without the     *)
(* active profile it had.                                                   *)
THEOREM BrandStaysActive == LibrarySpec => ActiveIsKept
<1> DEFINE Kept == SomeActive => SomeActive'
<1>1. LibraryInv /\ [LibraryNext]_<<brandVars, assetVars>> => [Kept]_active
    BY BrandNextKeeps DEF LibraryInv, LibraryNext, brandVars
<1>2. QED
    BY <1>1, LibraryInvHolds, PTL DEF LibrarySpec, ActiveIsKept

(* Uploads of one content may find, copy and insert it in any overlap: the  *)
(* file of a stored blob is whole or being copied, unless a copy of it was  *)
(* interrupted (Store.add_asset).                                           *)
THEOREM BlobsAreWhole == LibrarySpec => []BlobFileWhole
<1>1. LibraryInv => BlobFileWhole
    BY DEF LibraryInv, AssetInv, FilesAccounted, FileStates, BlobFileWhole
<1>2. QED
    BY <1>1, LibraryInvHolds, PTL

(* The process that inserts a reference is the only one that writes its     *)
(* metadata file, and it does unless it is interrupted.                     *)
THEOREM ReferencesHaveSidecars == LibrarySpec => []ReferenceHasSidecar
<1>1. LibraryInv => ReferenceHasSidecar
    BY DEF LibraryInv, AssetInv
<1>2. QED
    BY <1>1, LibraryInvHolds, PTL
=============================================================================
