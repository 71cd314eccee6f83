----------------------------- MODULE ResourceTree -----------------------------
(***************************************************************************)
(* The rows of one organization that a call can be about, and the columns  *)
(* that say which workspace they belong to.  None of these columns is      *)
(* written after the row has been inserted.                                *)
(***************************************************************************)
CONSTANTS
    Workspace, Client, Template, Request, Submission, Item, Recipient,
    None,
    workspaceOf,   \* the workspace_id of clients, templates and requests
    requestOf,     \* submissions.request_id
    recipientOf,   \* submissions.recipient_id, which may be empty
    submissionOf,  \* submission_items.submission_id
    FileRow,       \* the references that the rows of file_assets hold
    ExportRow      \* the references that the rows of export_jobs hold

\* What a file, an export job or the body of a call that creates one names, as the
\* caller gave it; each may be empty.  `metadata` is the workspaceId noted when the
\* row was created.
References == [request : Request \cup {None}, submission : Submission \cup {None},
               item : Item \cup {None}, metadata : Workspace \cup {None}]

Named(r) == {r.request, r.submission, r.item} \ {None}

\* Callers may name things that do not belong together: no code checks it.
BelongTogether(r) ==
    /\ r.item # None /\ r.submission # None => submissionOf[r.item] = r.submission
    /\ r.item # None /\ r.request # None => requestOf[submissionOf[r.item]] = r.request
    /\ r.submission # None /\ r.request # None => requestOf[r.submission] = r.request

Narrowest(r) ==
    IF r.item # None THEN r.item ELSE IF r.submission # None THEN r.submission ELSE r.request

Widest(r) ==
    IF r.request # None THEN r.request ELSE IF r.submission # None THEN r.submission ELSE r.item

Body == {r \in References : r.metadata = None}

ASSUME TreeAssumption ==
    /\ workspaceOf \in [Client \cup Template \cup Request -> Workspace]
    /\ requestOf \in [Submission -> Request]
    /\ recipientOf \in [Submission -> Recipient \cup {None}]
    /\ submissionOf \in [Item -> Submission]
    /\ FileRow \subseteq References /\ ExportRow \subseteq References
    /\ None \notin Workspace \cup Request \cup Submission \cup Item \cup Recipient

----------------------------------------------------------------------------
\* Everything that belongs to a workspace, from the top down (what the code finds
\* from the bottom up).
Inside(w) ==
    LET above == {q \in DOMAIN workspaceOf : workspaceOf[q] = w}
        subs  == {s \in Submission : requestOf[s] \in above}
    IN  {w} \cup above \cup subs \cup {i \in Item : submissionOf[i] \in subs}
=============================================================================
