------------------------------ MODULE FileStorage ------------------------------
(***************************************************************************)
(* FilesService on top of StorageService: an upload stores an object and   *)
(* then inserts its row; nothing ties the two together but the order of    *)
(* the steps and a deletion that is tried once.  Objects are named by the  *)
(* call that stores them (a fresh UUID).                                   *)
(***************************************************************************)
EXTENDS Entitlements

CONSTANTS MaxUploadBytes, AllowedMimeTypes

ASSUME UploadAssumption == MaxUploadBytes \in Nat /\ \A f \in File : f.size \in Nat

VARIABLE object   \* what the storage provider holds

Office == {"docx", "xlsx"}

\* resolveMimeType: what the bytes are counts; a zip may be declared as one of the
\* formats that are zip containers; what is unknown is what it is declared as.
MimeMatches(f) ==
    \/ None \in {f.detected, f.declared}
    \/ f.detected = f.declared
    \/ f.detected = "zip" /\ f.declared \in Office

EffectiveMimeType(f) ==
    IF f.detected = None \/ (f.detected = "zip" /\ f.declared \in Office)
    THEN f.declared ELSE f.detected

Acceptable(f) ==
    /\ f.size \in 1 .. MaxUploadBytes
    /\ MimeMatches(f)
    /\ EffectiveMimeType(f) \in AllowedMimeTypes

\* The size is checked before the plan's limit, the type after it; neither check
\* changes anything.
StartUpload(c, f) ==
    /\ Idle(c) /\ Acceptable(f)
    /\ AssertWithinLimit(c, "storageBytes", f.size,
           [NoCall EXCEPT !.op = "upload", !.pc = "put", !.file = f])
    /\ UNCHANGED <<usageVars, object, troubled>>

PutObject(c) ==
    /\ At(c, "upload", "put")
    /\ object' = object \cup {c}
    /\ Go(c, "insert")
    /\ UNCHANGED <<usageVars, observed>>

\* The provider refuses, or takes the object and its answer is lost.
PutThrows(c) ==
    /\ At(c, "upload", "put")
    /\ \/ UNCHANGED <<object, troubled>>
       \/ object' = object \cup {c} /\ Trouble(c)
    /\ End(c)
    /\ UNCHANGED <<usageVars, excused>>

InsertFile(c) ==
    /\ At(c, "upload", "insert")
    /\ fileRow' = fileRow \cup {[key |-> c, file |-> call[c].file]}
    /\ call' = [call EXCEPT ![c].pc = "announce", ![c].holds = None]
    /\ UNCHANGED <<request, mailed, month, object, observed>>

\* Mistake: the error is passed on and the object stays.
InsertThrowsOn(c) ==
    /\ At(c, "upload", "insert")
    /\ \/ UNCHANGED <<fileRow, troubled>>
       \/ fileRow' = fileRow \cup {[key |-> c, file |-> call[c].file]} /\ Trouble(c)
    /\ End(c)
    /\ UNCHANGED <<request, mailed, month, object, excused>>

\* A reference to a row that is gone, or a connection that breaks, before the
\* row is committed or after it.
InsertThrows(c) ==
    /\ At(c, "upload", "insert")
    /\ \/ UNCHANGED <<fileRow, troubled>>
       \/ fileRow' = fileRow \cup {[key |-> c, file |-> call[c].file]} /\ Trouble(c)
    /\ Go(c, "cleanup")
    /\ UNCHANGED <<request, mailed, month, object, excused>>

\* safeDeleteStoredObject swallows its error.
DeleteObject(c) ==
    /\ At(c, "upload", "cleanup")
    /\ \/ object' = object \ {c} /\ UNCHANGED troubled
       \/ UNCHANGED object /\ Trouble(c)
    /\ End(c)
    /\ UNCHANGED <<usageVars, excused>>

\* The audit record, then emitEvent; if it throws, the caller is told that the
\* upload failed, and the file is there.
AnnounceFile(c) ==
    /\ At(c, "upload", "announce")
    /\ End(c)
    /\ UNCHANGED <<usageVars, object, observed>>

FileInit == object = {}

FileNext ==
    \/ \E c \in Call, f \in File : StartUpload(c, f)
    \/ \E c \in Call : \/ PutObject(c) \/ PutThrows(c) \/ InsertFile(c) \/ InsertThrows(c)
                       \/ DeleteObject(c) \/ AnnounceFile(c)
=============================================================================
