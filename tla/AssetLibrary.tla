---------------------------- MODULE AssetLibrary ----------------------------
(***************************************************************************)
(* Ingesting asset files (Store.add_asset): content is stored once, under  *)
(* its digest, and each project refers to it once.  Every ingestion is a   *)
(* process of its own (the command line), that may be interrupted; the     *)
(* copy of a file is not atomic, and the lookups before the two INSERTs    *)
(* are statements of their own.                                            *)
(*                                                                         *)
(* Abstracted: a file is its digest (one extension per content); the       *)
(* metadata of a reference.                                                *)
(***************************************************************************)
EXTENDS FiniteSets

CONSTANTS
    Uploads,    \* processes ingesting a file
    Digests,    \* file contents
    Projects

VARIABLES
    disk,       \* blobs/<digest>: "absent", "partial" or "full"
    blobs,      \* file_blobs, UNIQUE(sha256)
    refs,       \* asset_references, UNIQUE(project, blob)
    sidecars,   \* metadata files beside the references
    pubs,       \* publications that name an asset
    up,         \* each process: position in add_asset, content and project
    broken      \* history: copies and sidecars an interruption left undone

assetVars == <<disk, blobs, refs, sidecars, pubs, up, broken>>

Unused == [pc |-> "idle", d |-> "none", p |-> "none"]
At(u, pc) == up[u].pc = pc
Goto(u, pc) == up' = [up EXCEPT ![u].pc = pc]
Ends(u) == up' = [up EXCEPT ![u] = Unused]
Ref(u) == <<up[u].p, up[u].d>>
Copying(d) == {u \in Uploads : At(u, "copying") /\ up[u].d = d}

(* The source is read and hashed. *)
Ingest(u, d, p) ==
    /\ At(u, "idle")
    /\ up' = [up EXCEPT ![u] = [pc |-> "find_blob", d |-> d, p |-> p]]
    /\ UNCHANGED <<disk, blobs, refs, sidecars, pubs, broken>>

FindBlob(u) ==
    /\ At(u, "find_blob")
    /\ Goto(u, IF up[u].d \in blobs THEN "find_ref" ELSE "find_file")
    /\ UNCHANGED <<disk, blobs, refs, sidecars, pubs, broken>>

(* Faulty: the row is inserted before the copy is made.                     *)
RowBeforeFile(u) ==
    /\ At(u, "find_file")
    /\ blobs' = blobs \cup {up[u].d}
    /\ Goto(u, IF disk[up[u].d] = "absent" THEN "open" ELSE "insert_blob")
    /\ UNCHANGED <<disk, refs, sidecars, pubs, broken>>

(* A file that exists is taken for the whole content.                       *)
FindFile(u) ==
    /\ At(u, "find_file")
    /\ Goto(u, IF disk[up[u].d] = "absent" THEN "open" ELSE "insert_blob")
    /\ UNCHANGED <<disk, blobs, refs, sidecars, pubs, broken>>

OpenCopy(u) ==
    /\ At(u, "open")
    /\ disk' = [disk EXCEPT ![up[u].d] = "partial"]
    /\ Goto(u, "copying")
    /\ UNCHANGED <<blobs, refs, sidecars, pubs, broken>>

EndCopy(u) ==
    /\ At(u, "copying")
    /\ disk' = IF Copying(up[u].d) = {u} THEN [disk EXCEPT ![up[u].d] = "full"] ELSE disk
    /\ Goto(u, "insert_blob")
    /\ UNCHANGED <<blobs, refs, sidecars, pubs, broken>>

(* A blob inserted meanwhile is an IntegrityError: this ingestion fails.    *)
InsertBlob(u) ==
    /\ At(u, "insert_blob")
    /\ blobs' = blobs \cup {up[u].d}
    /\ IF up[u].d \in blobs THEN Ends(u) ELSE Goto(u, "find_ref")
    /\ UNCHANGED <<disk, refs, sidecars, pubs, broken>>

FindRef(u) ==
    /\ At(u, "find_ref")
    /\ IF Ref(u) \in refs THEN Ends(u) ELSE Goto(u, "insert_ref")
    /\ UNCHANGED <<disk, blobs, refs, sidecars, pubs, broken>>

(* Faulty: a reference to content already stored gets no metadata file.     *)
InsertRefOnly(u) ==
    /\ At(u, "insert_ref")
    /\ refs' = refs \cup {Ref(u)}
    /\ IF \E r \in refs : r[2] = up[u].d THEN Ends(u) ELSE Goto(u, "sidecar")
    /\ UNCHANGED <<disk, blobs, sidecars, pubs, broken>>

InsertRef(u) ==
    /\ At(u, "insert_ref")
    /\ refs' = refs \cup {Ref(u)}
    /\ IF Ref(u) \in refs THEN Ends(u) ELSE Goto(u, "sidecar")
    /\ UNCHANGED <<disk, blobs, sidecars, pubs, broken>>

WriteSidecar(u) ==
    /\ At(u, "sidecar")
    /\ sidecars' = sidecars \cup {Ref(u)}
    /\ Ends(u)
    /\ UNCHANGED <<disk, blobs, refs, pubs, broken>>

(* add_publication: an asset of another project is refused.                 *)
Publish(p, d) ==
    /\ <<p, d>> \in refs
    /\ pubs' = pubs \cup {<<p, d>>}
    /\ UNCHANGED <<disk, blobs, refs, sidecars, up, broken>>

Interrupt(u) ==
    /\ ~At(u, "idle")
    /\ broken' = CASE At(u, "copying") -> broken \cup {<<"copy", up[u].d>>}
                   [] At(u, "sidecar") -> broken \cup {Ref(u)}
                   [] OTHER -> broken
    /\ Ends(u)
    /\ UNCHANGED <<disk, blobs, refs, sidecars, pubs>>

AssetInit ==
    /\ disk = [d \in Digests |-> "absent"]
    /\ blobs = {} /\ refs = {} /\ sidecars = {} /\ pubs = {} /\ broken = {}
    /\ up = [u \in Uploads |-> Unused]

Upload(u) ==
    \/ FindBlob(u) \/ FindFile(u) \/ OpenCopy(u) \/ EndCopy(u) \/ InsertBlob(u)
    \/ FindRef(u) \/ InsertRef(u) \/ WriteSidecar(u)

AssetNext ==
    \/ \E u \in Uploads :
         \/ Upload(u) \/ Interrupt(u)
         \/ \E d \in Digests, p \in Projects : Ingest(u, d, p)
    \/ \E d \in Digests, p \in Projects : Publish(p, d)

(* The file of a stored blob is whole, or being copied, unless a copy of it *)
(* was interrupted: uploads of one content that overlap do not spoil it.    *)
BlobFileWhole ==
    \A d \in blobs : disk[d] = "full" \/ Copying(d) # {} \/ <<"copy", d>> \in broken

(* Every reference has its metadata file, or the process that inserted it   *)
(* is about to write it, unless that process was interrupted: no other      *)
(* upload writes it later.                                                  *)
ReferenceHasSidecar ==
    \A ref \in refs : \/ ref \in sidecars \cup broken
                      \/ \E u \in Uploads : At(u, "sidecar") /\ Ref(u) = ref
=============================================================================
