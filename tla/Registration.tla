---------------------------- MODULE Registration ----------------------------
(***************************************************************************)
(* Client identities of the standing mesh: the operator issues a one-time  *)
(* link (a row of ClientRegistrationsTable), a browser runs the two-step   *)
(* ceremony of registration_options.py and register_client.py, and the     *)
(* operator's scripts carry the key from the row to the local ids/ tree,   *)
(* to S3 and to the instances, where the nodes load it when they start.    *)
(*                                                                         *)
(* A link may be opened several times (two tabs, a second attempt), and    *)
(* the scripts may run at the same time as the ceremonies and each other.  *)
(* A ceremony stands for its challenge, fresh from generate_registration_  *)
(* options, and for the key its authenticator creates.  Lambda requests    *)
(* that are malformed, or fail the signature check, change nothing.        *)
(***************************************************************************)
EXTENDS FiniteSets

CONSTANTS
    Tokens,       \* one per registration link
    Ceremonies,   \* runs of registerDevice in a browser
    None          \* no challenge, no key, no file

ASSUME NoneIsNoCeremony == None \notin Ceremonies

VARIABLES
    row,      \* the token's row, see Rows
    stage,    \* where a ceremony is
    link,     \* the token a ceremony was opened with
    pending,  \* what materialize-registered-clients still has to do
    writing,  \* the pending entry whose files it has written
    removing, \* tokens whose row remove-registered-client has just deleted
    crt,      \* local ids/pub/clients/<client>.crt
    bucket,   \* the same file under ids/ in S3
    disk,     \* the same file on the instances
    catalog,  \* what the running nodes have loaded
    gone      \* history: what has been done since the removal of a client

ceremonyVars == <<stage, link>>
scriptVars == <<pending, writing, removing>>
fileVars == <<crt, bucket, disk, catalog>>
vars == <<row, ceremonyVars, scriptVars, fileVars, gone>>

Key == Ceremonies \cup {None}
Files == [Tokens -> Key]

\* named: the attributes of put-item are there; an update-item alone does not
\* give a row its client_name.
Rows == [exists : BOOLEAN, named : BOOLEAN, challenge : Key, key : Key, used : BOOLEAN,
         materialized : BOOLEAN]

NoRow == [exists |-> FALSE, named |-> FALSE, challenge |-> None, key |-> None,
          used |-> FALSE, materialized |-> FALSE]

TypeOK ==
    /\ row \in [Tokens -> Rows]
    /\ stage \in [Ceremonies -> {"new", "options", "challenged", "verified", "claimed",
                                 "refused"}]
    /\ link \in [Ceremonies -> Tokens \cup {None}]
    /\ pending \subseteq Tokens \X Ceremonies
    /\ writing \in (Tokens \X Ceremonies) \cup {<<>>}
    /\ removing \subseteq Tokens
    /\ crt \in Files /\ bucket \in Files /\ disk \in Files /\ catalog \in Files
    /\ gone \in [Tokens -> {"no", "deleted", "removed", "uploaded", "deployed"}]

Init ==
    /\ row = [t \in Tokens |-> NoRow]
    /\ stage = [c \in Ceremonies |-> "new"]
    /\ link = [c \in Ceremonies |-> None]
    /\ pending = {} /\ writing = <<>> /\ removing = {}
    /\ crt = [t \in Tokens |-> None]
    /\ bucket = crt /\ disk = crt /\ catalog = crt
    /\ gone = [t \in Tokens |-> "no"]

Set(t, r) == row' = [row EXCEPT ![t] = r]
Stage(c, s) == stage' = [stage EXCEPT ![c] = s]
Open(t) == row[t].exists /\ ~row[t].used
-----------------------------------------------------------------------------
(* The link and the ceremony. *)

\* generate-registration-link: a new random token, put-item.
GenerateLink(t) ==
    /\ row[t] = NoRow /\ gone[t] = "no"
    /\ Set(t, [NoRow EXCEPT !.exists = TRUE, !.named = TRUE])
    /\ UNCHANGED <<ceremonyVars, scriptVars, fileVars, gone>>

\* registration_options.py up to its conditional update; a row without a client_name
\* is a KeyError.
OptionsReads(c, t) ==
    /\ stage[c] = "new"
    /\ row[t].exists
    /\ link' = [link EXCEPT ![c] = t]
    /\ Stage(c, IF Open(t) /\ row[t].named THEN "options" ELSE "refused")
    /\ UNCHANGED <<row, scriptVars, fileVars, gone>>

\* The challenge of an earlier ceremony of the same link is overwritten.
OptionsStores(c) ==
    /\ stage[c] = "options"
    /\ IF Open(link[c])
       THEN /\ Set(link[c], [row[link[c]] EXCEPT !.challenge = c])
            /\ Stage(c, "challenged")
       ELSE Stage(c, "refused") /\ UNCHANGED row
    /\ UNCHANGED <<link, scriptVars, fileVars, gone>>

\* register_client.py: get_item, and the verification against the challenge it read.
RegisterReads(c) ==
    /\ stage[c] = "challenged"
    /\ Stage(c, IF Open(link[c]) /\ row[link[c]].challenge = c THEN "verified"
                                                               ELSE "refused")
    /\ UNCHANGED <<row, link, scriptVars, fileVars, gone>>

\* Mutant of RegisterClaims: the update only asks for an existing row.
RegisterClaimsAgain(c) ==
    /\ stage[c] = "verified"
    /\ row[link[c]].exists
    /\ Set(link[c], [row[link[c]] EXCEPT !.challenge = None, !.key = c, !.used = TRUE])
    /\ Stage(c, "claimed")
    /\ UNCHANGED <<link, scriptVars, fileVars, gone>>

\* The conditional update.  The challenge may be another one by now; a row without a
\* client_name is updated, and the answer is an error.
RegisterClaims(c) ==
    /\ stage[c] = "verified"
    /\ IF Open(link[c])
       THEN /\ Set(link[c], [row[link[c]] EXCEPT !.challenge = None, !.key = c,
                                                 !.used = TRUE])
            /\ Stage(c, IF row[link[c]].named THEN "claimed" ELSE "refused")
       ELSE Stage(c, "refused") /\ UNCHANGED row
    /\ UNCHANGED <<link, scriptVars, fileVars, gone>>
-----------------------------------------------------------------------------
(* The operator's scripts. *)

\* What list_client_registrations.py has to show.
Completed == {t \in Tokens : row[t].used /\ row[t].materialized}

\* Every row that is completed, unless one of them has no client_name: then the whole
\* listing is a KeyError.
Listed(t) == t \in Completed /\ \A u \in Completed : row[u].named

\* Mutant of MaterializeScans: rows that nobody has registered with are not skipped.
MaterializeScansAll ==
    /\ pending = {} /\ writing = <<>>
    /\ pending' = {<<t, row[t].key>> : t \in {u \in Tokens : row[u].exists
                                                   /\ ~row[u].materialized}}
    /\ pending' # {}
    /\ UNCHANGED <<row, ceremonyVars, writing, removing, fileVars, gone>>

\* materialize-registered-clients: one scan of the table, then one row at a time.
MaterializeScans ==
    /\ pending = {} /\ writing = <<>>
    /\ pending' = {<<t, row[t].key>> : t \in {u \in Tokens : row[u].used
                                                   /\ ~row[u].materialized}}
    /\ pending' # {}
    /\ UNCHANGED <<row, ceremonyVars, writing, removing, fileVars, gone>>

\* Every stored key is the 65-byte point the script wants (register_client.py 136): the
\* || continue that would leave an empty file behind is not taken.
MaterializeWrites(p) ==
    /\ writing = <<>> /\ p \in pending
    /\ crt' = [crt EXCEPT ![p[1]] = p[2]]
    /\ writing' = p
    /\ pending' = pending \ {p}
    /\ UNCHANGED <<row, ceremonyVars, removing, bucket, disk, catalog, gone>>

\* Mutant of MaterializeMarks: the rows are marked before their files are written.
MaterializeMarksEarly ==
    /\ pending # {} \/ writing # <<>>
    /\ row' = [t \in Tokens |-> IF \E p \in pending : p[1] = t
                                THEN [row[t] EXCEPT !.exists = TRUE, !.materialized = TRUE]
                                ELSE row[t]]
    /\ writing' = <<>>
    /\ UNCHANGED <<ceremonyVars, pending, removing, fileVars, gone>>

\* update-item without a condition: it makes a row of its own if there is none.
MaterializeMarks ==
    /\ writing # <<>>
    /\ Set(writing[1], [row[writing[1]] EXCEPT !.exists = TRUE, !.materialized = TRUE])
    /\ writing' = <<>>
    /\ UNCHANGED <<ceremonyVars, pending, removing, fileVars, gone>>

\* The script is interrupted, or one of its commands fails.
MaterializeStops ==
    /\ pending # {} \/ writing # <<>>
    /\ pending' = {} /\ writing' = <<>>
    /\ UNCHANGED <<row, ceremonyVars, removing, fileVars, gone>>

\* remove-registered-client: the scan finds the name, delete-item.
RemoveDeletes(t) ==
    /\ row[t].named
    /\ Set(t, NoRow)
    /\ removing' = removing \cup {t}
    /\ gone' = [gone EXCEPT ![t] = "deleted"]
    /\ UNCHANGED <<ceremonyVars, pending, writing, fileVars>>

\* Then the .crt file, if there is one (not the credential-ID file beside it).
RemoveUnlinks(t) ==
    /\ t \in removing
    /\ removing' = removing \ {t}
    /\ crt' = [crt EXCEPT ![t] = None]
    /\ gone' = [gone EXCEPT ![t] = "removed"]
    /\ UNCHANGED <<row, ceremonyVars, pending, writing, bucket, disk, catalog>>

\* Files of one tree copied over another: nothing is deleted from the target.
CopyOver(from, to) == [t \in Tokens |-> IF from[t] = None THEN to[t] ELSE from[t]]

Since(before, after) == gone' = [t \in Tokens |-> IF gone[t] = before THEN after
                                                                     ELSE gone[t]]

\* upload-ids: aws s3 sync without --delete.
UploadIds ==
    /\ bucket' = CopyOver(crt, bucket)
    /\ Since("removed", "uploaded")
    /\ UNCHANGED <<row, ceremonyVars, scriptVars, crt, disk, catalog>>

\* deploy: aws s3 cp --recursive on every instance, then its container restarts.
Deploy ==
    /\ disk' = CopyOver(bucket, disk)
    /\ catalog' = disk'
    /\ Since("uploaded", "deployed")
    /\ UNCHANGED <<row, ceremonyVars, scriptVars, crt, bucket>>
-----------------------------------------------------------------------------
Next ==
    \/ \E t \in Tokens : GenerateLink(t) \/ RemoveDeletes(t) \/ RemoveUnlinks(t)
    \/ \E c \in Ceremonies :
         \/ \E t \in Tokens : OptionsReads(c, t)
         \/ OptionsStores(c) \/ RegisterReads(c) \/ RegisterClaims(c)
    \/ MaterializeScans
    \/ \E p \in pending : MaterializeWrites(p)
    \/ MaterializeMarks \/ MaterializeStops
    \/ UploadIds \/ Deploy

Spec == Init /\ [][Next]_vars
-----------------------------------------------------------------------------
(* Properties *)

\* A link registers one device, whatever tabs and attempts raced for it: no two
\* ceremonies of one token are both told that they are registered.
OneClaim ==
    \A c, d \in Ceremonies :
        stage[c] = "claimed" /\ stage[d] = "claimed" /\ link[c] = link[d] => c = d

\* A node only ever loads a key that register_client.py verified and claimed for
\* that client, although the key passes through four places and several scripts.
CatalogIsVerified ==
    \A t \in Tokens : catalog[t] # None =>
        stage[catalog[t]] = "claimed" /\ link[catalog[t]] = t

\* The key a client has in the mesh is never exchanged for another one, by a second
\* registration or by a script that ran before or after it.
KeysAreStable ==
    [][\A t \in Tokens :
         catalog[t] # None => catalog'[t] = catalog[t]]_vars

\* The links, ceremonies and scripts together are the write-once register of keys that
\* KeyRegister describes: the rows, the local tree, the bucket and the instances may
\* disagree, but what a browser was told and what the nodes load never does.
Register == INSTANCE KeyRegister
              WITH Clients <- Tokens, Keys <- Ceremonies,
                   registered <- {<<link[c], c>> : c \in {d \in Ceremonies : stage[d] = "claimed"}},
                   loaded <- {<<t, catalog[t]>> : t \in {u \in Tokens : catalog[u] # None}}

RegisterImplemented == Register!Spec

\* A client the voter picker shows has its key in the local ids/ tree, whatever was
\* removed, interrupted or registered while it was materialized.
ListedHasFile ==
    \A t \in Tokens : Listed(t) => crt[t] = row[t].key

\* remove-registered-client, lines 11-12: removing the file takes effect on the live
\* mesh after ./upload-ids and ./deploy (and nothing has written it again).
RemovalTakesEffect ==
    \A t \in Tokens : gone[t] = "deployed" /\ crt[t] = None => catalog[t] = None
=============================================================================
