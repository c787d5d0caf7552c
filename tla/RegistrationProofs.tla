-------------------------- MODULE RegistrationProofs --------------------------
(***************************************************************************)
(* Proofs about Registration for every set of links and of ceremonies:     *)
(* one claim per link, only verified keys in the mesh, keys that stay, and *)
(* a file for every client that is listed, with the operator's scripts at  *)
(* any point of any ceremony.                                              *)
(*                                                                         *)
(* The key to all of them: a row has a client_name from its creation to    *)
(* its removal, and only a claim of a named row answers the browser, so a  *)
(* token has one claim ever; materialize carries nothing but claimed keys. *)
(* Together that makes the deployment the write-once register KeyRegister. *)
(***************************************************************************)
EXTENDS Registration, TLAPS

\* Ceremony c was told that it is registered for token t.
Claim(t, c) == stage[c] = "claimed" /\ link[c] = t

RowInv(t) ==
    /\ row[t].named => gone[t] = "no" /\ row[t].exists
    /\ row[t].exists /\ ~row[t].named => row[t].materialized
    /\ row[t].used => row[t].exists /\ row[t].key \in Ceremonies
    /\ row[t].used /\ row[t].named => Claim(t, row[t].key)
    /\ row[t].named /\ row[t].materialized => row[t].used /\ crt[t] = row[t].key
    /\ t \in removing => gone[t] # "no"

\* A claim is in the row until the client is removed.
ClaimInv(c) ==
    /\ stage[c] # "new" => link[c] \in Tokens
    /\ stage[c] = "claimed" =>
          \/ gone[link[c]] # "no"
          \/ row[link[c]].named /\ row[link[c]].used /\ row[link[c]].key = c

\* Every copy of a key, on its way or where it stays, is of a claim.
Carried ==
    /\ \A p \in pending : Claim(p[1], p[2])
    /\ writing # <<>> => /\ Claim(writing[1], writing[2])
                         /\ crt[writing[1]] = writing[2] \/ gone[writing[1]] # "no"
    /\ \A t \in Tokens : /\ crt[t] # None => Claim(t, crt[t])
                         /\ bucket[t] # None => Claim(t, bucket[t])
                         /\ disk[t] # None => Claim(t, disk[t])
    /\ catalog = disk

IInv == /\ TypeOK
        /\ \A t \in Tokens : RowInv(t)
        /\ \A c \in Ceremonies : ClaimInv(c)
        /\ Carried
-----------------------------------------------------------------------------
(* Facts about the invariant *)

\* Two claims of one token are the same, once the row says so.
LEMMA OneRow ==
  ASSUME NEW t \in Tokens, NEW c \in Ceremonies, ClaimInv(c), Claim(t, c), gone[t] = "no"
  PROVE  row[t].named /\ row[t].used /\ row[t].key = c
  BY DEF ClaimInv, Claim

LEMMA InitInvariant == Init => IInv /\ OneClaim
  <1> SUFFICES ASSUME Init
               PROVE  IInv /\ OneClaim
    OBVIOUS
  <1>1. TypeOK
    BY DEF Init, TypeOK, Rows, NoRow, Key, Files
  <1>2. QED
    BY <1>1 DEF Init, IInv, RowInv, ClaimInv, Carried, NoRow, OneClaim

LEMMA RowTypes ==
  ASSUME TypeOK, NEW t \in Tokens, NEW r \in Rows, Set(t, r)
  PROVE  /\ row' \in [Tokens -> Rows]
         /\ row'[t] = r
         /\ \A u \in Tokens : u # t => row'[u] = row[u]
  BY DEF TypeOK, Set

\* A removal is never taken back.
LEMMA GoneStays ==
  ASSUME TypeOK, [Next]_vars
  PROVE  \A t \in Tokens : gone[t] # "no" => gone'[t] # "no"
  BY ZenonT(60) DEF TypeOK, Next, vars, GenerateLink, RemoveDeletes, RemoveUnlinks, OptionsReads,
         OptionsStores, RegisterReads, RegisterClaims, MaterializeScans, MaterializeWrites,
         MaterializeMarks, MaterializeStops, UploadIds, Deploy, Since, Stage, Set

LEMMA ClaimStays ==
  ASSUME TypeOK, [Next]_vars, NEW t, NEW c \in Ceremonies, Claim(t, c)
  PROVE  stage'[c] = "claimed" /\ link'[c] = t
  BY DEF TypeOK, Claim, Next, vars, GenerateLink, RemoveDeletes, RemoveUnlinks, OptionsReads,
         OptionsStores, RegisterReads, RegisterClaims, MaterializeScans, MaterializeWrites,
         MaterializeMarks, MaterializeStops, UploadIds, Deploy, Stage, Set, ceremonyVars

\* A step that changes neither rows nor ceremonies keeps what is said of them.
LEMMA RowsStay ==
  ASSUME IInv, UNCHANGED <<row, stage, link>>,
         \A t \in Tokens : gone'[t] # "no" <=> gone[t] # "no",
         removing' \subseteq removing,
         \A t \in Tokens : row[t].named /\ row[t].materialized => crt'[t] = crt[t]
  PROVE  /\ \A t \in Tokens : RowInv(t)'
         /\ \A c \in Ceremonies : ClaimInv(c)'
  <1>1. \A t \in Tokens : gone[t] \in {"no", "deleted", "removed", "uploaded", "deployed"}
    BY DEF IInv, TypeOK
  <1>2. \A t \in Tokens : RowInv(t)'
    BY <1>1 DEF IInv, RowInv, Claim
  <1>3. \A c \in Ceremonies : ClaimInv(c)'
    BY <1>1 DEF IInv, ClaimInv
  <1>4. QED
    BY <1>2, <1>3

\* A step that moves no key keeps what is carried.
LEMMA CarriedStays ==
  ASSUME IInv, [Next]_vars, UNCHANGED <<pending, writing, fileVars>>
  PROVE  Carried'
  <1>1. \A t, c : c \in Ceremonies /\ Claim(t, c) => Claim(t, c)'
    BY ClaimStays DEF IInv, Claim
  <1>2. \A p \in pending : p[1] \in Tokens /\ p[2] \in Ceremonies
    BY DEF IInv, TypeOK
  <1>3. writing # <<>> => writing[1] \in Tokens /\ writing[2] \in Ceremonies
    BY DEF IInv, TypeOK
  <1>4. \A t \in Tokens : /\ crt[t] # None => crt[t] \in Ceremonies
                          /\ bucket[t] # None => bucket[t] \in Ceremonies
                          /\ disk[t] # None => disk[t] \in Ceremonies
    BY DEF IInv, TypeOK, Files, Key
  <1>5. \A t \in Tokens : gone[t] # "no" => gone'[t] # "no"
    BY GoneStays DEF IInv
  <1>6. QED
    BY <1>1, <1>2, <1>3, <1>4, <1>5 DEF IInv, Carried, fileVars
-----------------------------------------------------------------------------
(* The ceremonies *)

\* A step of a ceremony that writes at most a challenge.
LEMMA CeremonyStep ==
  ASSUME IInv, [Next]_vars, NEW c \in Ceremonies,
         \/ \E t \in Tokens : OptionsReads(c, t)
         \/ OptionsStores(c) \/ RegisterReads(c)
  PROVE  IInv' /\ (OneClaim => OneClaim')
  <1>1. TypeOK
    BY DEF IInv
  <1>2. TypeOK'
    BY <1>1 DEF TypeOK, OptionsReads, OptionsStores, RegisterReads, Set, Stage, scriptVars,
                fileVars, Rows, Key
  <1>3. /\ UNCHANGED <<scriptVars, fileVars, gone>>
        /\ \A d \in Ceremonies : d # c => stage'[d] = stage[d] /\ link'[d] = link[d]
        /\ stage[c] # "claimed" /\ stage'[c] # "claimed" /\ link'[c] \in Tokens
        /\ \A t \in Tokens :
              /\ row'[t].exists = row[t].exists /\ row'[t].named = row[t].named
              /\ row'[t].key = row[t].key /\ row'[t].used = row[t].used
              /\ row'[t].materialized = row[t].materialized
    <2>1. CASE \E t \in Tokens : OptionsReads(c, t)
      BY <1>1, <2>1 DEF TypeOK, OptionsReads, Stage
    <2>2. CASE OptionsStores(c)
      <3>1. link[c] \in Tokens
        BY <2>2 DEF IInv, ClaimInv, OptionsStores
      <3>2. QED
        BY <1>1, <2>2, <3>1 DEF TypeOK, OptionsStores, Set, Stage, Rows
    <2>3. CASE RegisterReads(c)
      BY <1>1, <2>3 DEF TypeOK, RegisterReads, Stage, IInv, ClaimInv
    <2>4. QED
      BY <2>1, <2>2, <2>3
  <1>4. Carried'
    BY <1>3, CarriedStays DEF scriptVars
  <1>5. ASSUME NEW t \in Tokens
        PROVE  RowInv(t)'
    <2>1. RowInv(t)
      BY DEF IInv
    <2>2. row[t].used /\ row[t].named =>
             stage'[row[t].key] = "claimed" /\ link'[row[t].key] = t
      BY <2>1, <1>1, ClaimStays DEF RowInv
    <2>3. QED
      BY <1>3, <2>1, <2>2 DEF RowInv, Claim, scriptVars, fileVars
  <1>6. \A d \in Ceremonies : ClaimInv(d)'
    <2>1. ASSUME NEW d \in Ceremonies
          PROVE  ClaimInv(d)'
      <3>1. ClaimInv(d) /\ (d # c => stage'[d] = stage[d] /\ link'[d] = link[d])
        BY <1>3 DEF IInv
      <3>2. CASE d = c
        BY <1>3, <3>2 DEF ClaimInv
      <3>3. CASE d # c
        <4>1. stage[d] = "claimed" => link[d] \in Tokens
          BY <3>1 DEF ClaimInv
        <4>2. QED
          BY <1>3, <3>1, <3>3, <4>1 DEF ClaimInv
      <3>4. QED
        BY <3>2, <3>3
    <2>2. QED
      BY <2>1
  <1>7. OneClaim => OneClaim'
    BY <1>3 DEF OneClaim
  <1>8. QED
    BY <1>2, <1>4, <1>5, <1>6, <1>7 DEF IInv

LEMMA ClaimStep ==
  ASSUME IInv, [Next]_vars, NEW c \in Ceremonies, RegisterClaims(c)
  PROVE  IInv' /\ (OneClaim => OneClaim')
  <1>1. TypeOK /\ link[c] \in Tokens /\ stage[c] = "verified"
    BY DEF IInv, RegisterClaims, ClaimInv
  <1>2. PICK t \in Tokens : t = link[c]
    BY <1>1
  <1> USE <1>2
  <1> DEFINE r == [row[t] EXCEPT !.challenge = None, !.key = c, !.used = TRUE]
  <1>3. /\ r \in Rows /\ r.exists = row[t].exists /\ r.named = row[t].named
        /\ r.materialized = row[t].materialized /\ r.key = c /\ r.used
    <2>1. row[t] \in Rows
      BY <1>1 DEF TypeOK
    <2>2. QED
      BY <2>1 DEF Rows, Key
  <1>4. row' = row \/ Set(t, r)
    BY DEF RegisterClaims
  <1>5. UNCHANGED <<link, scriptVars, fileVars, gone>> /\ \E s \in {"claimed", "refused"} : Stage(c, s)
    BY DEF RegisterClaims
  <1>6. TypeOK'
    <2> HIDE DEF r
    <2>1. row' \in [Tokens -> Rows]
      BY <1>1, <1>4, <1>3, RowTypes DEF TypeOK
    <2>2. QED
      BY <1>1, <1>5, <2>1 DEF TypeOK, Stage, scriptVars, fileVars
  <1>7. /\ UNCHANGED <<link, scriptVars, fileVars, gone>>
        /\ \A d \in Ceremonies : d # c => stage'[d] = stage[d]
        /\ \A u \in Tokens : u # t => row'[u] = row[u]
    <2> HIDE DEF r
    <2>1. QED
      BY <1>1, <1>5, <1>4, <1>3, RowTypes DEF TypeOK, Stage
  <1>8. Carried'
    BY <1>7, CarriedStays DEF scriptVars
  <1>9. CASE ~Open(t)
    <2>1. row' = row /\ stage'[c] = "refused"
      BY <1>1, <1>9 DEF TypeOK, RegisterClaims, Stage
    <2>2. \A u \in Tokens : RowInv(u)'
      BY <1>1, <1>7, <2>1 DEF IInv, RowInv, Claim, scriptVars, fileVars
    <2>3. \A d \in Ceremonies : ClaimInv(d)'
      BY <1>1, <1>7, <2>1 DEF IInv, ClaimInv
    <2>4. OneClaim => OneClaim'
      BY <1>7, <2>1 DEF OneClaim
    <2>5. QED
      BY <1>6, <1>8, <2>2, <2>3, <2>4 DEF IInv
  <1>10. CASE Open(t)
    <2>1. /\ row'[t].exists = row[t].exists /\ row'[t].named = row[t].named
          /\ row'[t].materialized = row[t].materialized
          /\ row'[t].key = c /\ row'[t].used
          /\ stage'[c] = IF row[t].named THEN "claimed" ELSE "refused"
          /\ row[t].exists /\ ~row[t].used
      <3>1. Set(t, r) /\ row[t].exists /\ ~row[t].used
            /\ Stage(c, IF row[t].named THEN "claimed" ELSE "refused")
        BY <1>10 DEF RegisterClaims, Open
      <3>2. row'[t] = r
        <4> HIDE DEF r
        <4>1. QED
          BY <1>1, <1>3, <3>1, RowTypes
      <3>3. stage'[c] = IF row[t].named THEN "claimed" ELSE "refused"
        BY <1>1, <3>1 DEF TypeOK, Stage
      <3>4. QED
        BY <1>3, <3>1, <3>2, <3>3
    <2>2. \A d \in Ceremonies : stage[d] = "claimed" /\ link[d] = t => gone[t] # "no"
      BY <2>1 DEF IInv, ClaimInv
    <2>3. RowInv(t)'
      BY <1>1, <1>7, <2>1 DEF IInv, RowInv, Claim, scriptVars, fileVars
    <2>4. ASSUME NEW u \in Tokens, u # t
          PROVE  RowInv(u)'
      <3>1. RowInv(u) /\ row'[u] = row[u]
        BY <1>7, <2>4 DEF IInv
      <3>2. row[u].used /\ row[u].named =>
               stage'[row[u].key] = "claimed" /\ link'[row[u].key] = u
        BY <1>1, <3>1, ClaimStays DEF RowInv
      <3>3. QED
        BY <1>7, <3>1, <3>2 DEF RowInv, Claim, scriptVars, fileVars
    <2>5. ASSUME NEW d \in Ceremonies
          PROVE  ClaimInv(d)'
      <3>1. CASE d = c
        BY <1>1, <1>7, <2>1, <3>1 DEF IInv, RowInv, ClaimInv
      <3>2. CASE d # c /\ stage[d] = "claimed" /\ link[d] = t
        BY <1>1, <1>7, <2>2, <3>2 DEF IInv, ClaimInv
      <3>3. CASE d # c /\ ~(stage[d] = "claimed" /\ link[d] = t)
        BY <1>7, <3>3 DEF IInv, ClaimInv
      <3>4. QED
        BY <3>1, <3>2, <3>3
    <2>6. OneClaim => OneClaim'
      <3>1. row[t].named => gone[t] = "no"
        BY <1>1 DEF IInv, RowInv
      <3>2. stage'[c] = "claimed" =>
               \A d \in Ceremonies : ~(stage[d] = "claimed" /\ link[d] = t)
        BY <2>1, <2>2, <3>1
      <3>3. QED
        BY <1>7, <3>2 DEF OneClaim
    <2>7. \A u \in Tokens : RowInv(u)'
      BY <2>3, <2>4
    <2>8. QED
      BY <1>6, <1>8, <2>5, <2>6, <2>7 DEF IInv
  <1>11. QED
    BY <1>9, <1>10
-----------------------------------------------------------------------------
(* The operator's scripts *)

LEMMA LinkStep ==
  ASSUME IInv, [Next]_vars, NEW t \in Tokens, GenerateLink(t) \/ RemoveDeletes(t)
  PROVE  IInv' /\ (OneClaim => OneClaim')
  <1>1. TypeOK
    BY DEF IInv
  <1> DEFINE r == [NoRow EXCEPT !.exists = TRUE, !.named = TRUE]
  <1>2. /\ r \in Rows /\ r.exists /\ r.named /\ ~r.used /\ ~r.materialized
        /\ NoRow \in Rows /\ ~NoRow.exists /\ ~NoRow.named /\ ~NoRow.used
        /\ ~NoRow.materialized
    BY DEF Rows, NoRow, Key
  <1>3. /\ UNCHANGED <<stage, link, pending, writing, fileVars>>
        /\ \A u \in Tokens : u # t => gone'[u] = gone[u]
        /\ \/ /\ Set(t, r) /\ gone[t] = "no" /\ UNCHANGED <<gone, removing>>
              /\ row[t] = NoRow
           \/ Set(t, NoRow) /\ gone'[t] = "deleted" /\ removing' = removing \cup {t}
    BY <1>1 DEF TypeOK, GenerateLink, RemoveDeletes, ceremonyVars, scriptVars
  <1> HIDE DEF r
  <1>4. TypeOK'
    <2>1. row' \in [Tokens -> Rows]
      BY <1>1, <1>3, <1>2, RowTypes
    <2>2. removing' \subseteq Tokens /\ gone' \in [Tokens -> {"no", "deleted", "removed", "uploaded", "deployed"}]
      BY <1>1, <1>3 DEF TypeOK, GenerateLink, RemoveDeletes
    <2>3. QED
      BY <1>1, <1>3, <2>1, <2>2 DEF TypeOK, fileVars
  <1>5. /\ \A u \in Tokens : u # t => row'[u] = row[u]
        /\ \A u \in removing' : u \in removing \/ (u = t /\ gone'[t] # "no")
        /\ ~row'[t].used /\ ~row'[t].materialized
        /\ row'[t].named => gone'[t] = "no" /\ row'[t].exists
        /\ row'[t].exists => row'[t].named
        /\ gone'[t] # "no" \/ (row[t] = NoRow /\ gone' = gone)
    <2>1. CASE Set(t, r) /\ gone[t] = "no" /\ UNCHANGED <<gone, removing>> /\ row[t] = NoRow
      BY <1>1, <1>2, <2>1, RowTypes
    <2>2. CASE Set(t, NoRow) /\ gone'[t] = "deleted" /\ removing' = removing \cup {t}
      BY <1>1, <1>2, <2>2, RowTypes
    <2>3. QED
      BY <1>3, <2>1, <2>2
  <1>6. Carried'
    BY <1>3, CarriedStays
  <1>7. ASSUME NEW u \in Tokens
        PROVE  RowInv(u)'
    <2>1. CASE u = t
      BY <1>1, <1>3, <1>5, <2>1 DEF IInv, RowInv
    <2>2. CASE u # t
      BY <1>3, <1>5, <2>2 DEF IInv, RowInv, Claim, fileVars
    <2>3. QED
      BY <2>1, <2>2
  <1>8. \A c \in Ceremonies : ClaimInv(c)'
    BY <1>3, <1>5, <1>2 DEF IInv, ClaimInv
  <1>9. OneClaim => OneClaim'
    BY <1>3 DEF OneClaim
  <1>10. QED
    BY <1>4, <1>6, <1>7, <1>8, <1>9 DEF IInv

LEMMA ScanStep ==
  ASSUME IInv, [Next]_vars, MaterializeScans \/ MaterializeStops
  PROVE  IInv'
  <1>1. /\ UNCHANGED <<row, stage, link, removing, fileVars, gone>>
        /\ writing' = <<>>
        /\ \A p \in pending' : \E t \in Tokens : /\ p = <<t, row[t].key>> /\ row[t].used
                                                 /\ ~row[t].materialized
    BY DEF MaterializeScans, MaterializeStops, ceremonyVars
  <1>2. \A t \in Tokens : row[t].used /\ ~row[t].materialized =>
           row[t].key \in Ceremonies /\ Claim(t, row[t].key)
    BY DEF IInv, RowInv
  <1>3. TypeOK'
    <2>1. pending' \subseteq Tokens \X Ceremonies
      BY <1>1, <1>2
    <2>2. QED
      BY <1>1, <2>1 DEF IInv, TypeOK, fileVars
  <1>4. \A p \in pending' : Claim(p[1], p[2])
    BY <1>1, <1>2
  <1>5. Carried'
    BY <1>1, <1>4 DEF IInv, Carried, Claim, fileVars
  <1>6. QED
    BY <1>1, <1>3, <1>5, RowsStay DEF IInv, fileVars

LEMMA WriteStep ==
  ASSUME IInv, [Next]_vars, NEW p \in pending, MaterializeWrites(p)
  PROVE  IInv'
  <1>1. TypeOK /\ p[1] \in Tokens /\ p[2] \in Ceremonies /\ Claim(p[1], p[2])
    BY DEF IInv, TypeOK, Carried
  <1>2. TypeOK'
    BY <1>1 DEF TypeOK, MaterializeWrites, ceremonyVars, Files, Key
  <1>3. /\ UNCHANGED <<row, stage, link, removing, bucket, disk, catalog, gone>>
        /\ writing' = p /\ pending' \subseteq pending
        /\ crt'[p[1]] = p[2] /\ \A t \in Tokens : t # p[1] => crt'[t] = crt[t]
    BY <1>1 DEF TypeOK, Files, MaterializeWrites, ceremonyVars
  <1>4. \A t \in Tokens : row[t].named /\ row[t].materialized => crt'[t] = crt[t]
    <2>1. ASSUME row[p[1]].named, row[p[1]].materialized
          PROVE  crt[p[1]] = p[2]
      BY <1>1, <2>1, OneRow DEF IInv, RowInv
    <2>2. QED
      BY <1>1, <1>3, <2>1
  <1>5. Carried'
    BY <1>1, <1>3 DEF IInv, Carried, Claim
  <1>6. QED
    BY <1>2, <1>3, <1>4, <1>5, RowsStay DEF IInv

LEMMA MarkStep ==
  ASSUME IInv, [Next]_vars, MaterializeMarks
  PROVE  IInv'
  <1> DEFINE t == writing[1]  c == writing[2]
  <1>1. TypeOK /\ t \in Tokens /\ c \in Ceremonies
    BY DEF IInv, TypeOK, MaterializeMarks
  <1>2. TypeOK'
    BY ZenonT(60), <1>1 DEF TypeOK, MaterializeMarks, Set, ceremonyVars, fileVars, Rows, Key
  <1>3. /\ UNCHANGED <<stage, link, pending, removing, fileVars, gone>> /\ writing' = <<>>
        /\ \A u \in Tokens : u # t => row'[u] = row[u]
        /\ row'[t].exists /\ row'[t].materialized
        /\ row'[t].named = row[t].named /\ row'[t].used = row[t].used
        /\ row'[t].key = row[t].key
    BY <1>1 DEF TypeOK, MaterializeMarks, Set, Rows, ceremonyVars
  <1>4. Claim(t, c) /\ (crt[t] = c \/ gone[t] # "no")
    BY DEF IInv, Carried, MaterializeMarks
  <1>5. row[t].named => row[t].used /\ crt[t] = row[t].key
    BY <1>1, <1>4, OneRow DEF IInv, RowInv
  <1>6. ASSUME NEW u \in Tokens
        PROVE  RowInv(u)'
    <2>1. CASE u = t
      BY <1>3, <1>5, <2>1 DEF IInv, RowInv, Claim, fileVars
    <2>2. CASE u # t
      BY <1>3, <2>2 DEF IInv, RowInv, Claim, fileVars
    <2>3. QED
      BY <2>1, <2>2
  <1>7. \A d \in Ceremonies : ClaimInv(d)'
    BY <1>3 DEF IInv, ClaimInv
  <1>8. Carried'
    BY <1>3 DEF IInv, Carried, Claim, fileVars
  <1>9. QED
    BY <1>2, <1>6, <1>7, <1>8 DEF IInv

LEMMA FileStep ==
  ASSUME IInv, [Next]_vars, (\E t \in Tokens : RemoveUnlinks(t)) \/ UploadIds \/ Deploy
  PROVE  IInv'
  <1>1. TypeOK
    BY DEF IInv
  <1>2. TypeOK'
    BY <1>1 DEF TypeOK, RemoveUnlinks, UploadIds, Deploy, CopyOver, Since, ceremonyVars,
                scriptVars, Files, Key
  <1>3. /\ UNCHANGED <<row, stage, link, pending, writing>> /\ removing' \subseteq removing
        /\ \A t \in Tokens : gone'[t] # "no" <=> gone[t] # "no"
        /\ \A t \in Tokens :
              /\ crt'[t] = crt[t] \/ (crt'[t] = None /\ gone[t] # "no")
              /\ bucket'[t] \in {bucket[t], crt[t]}
              /\ disk'[t] \in {disk[t], bucket[t]}
        /\ catalog' = disk' \/ UNCHANGED <<catalog, disk>>
    <2>1. CASE \E t \in Tokens : RemoveUnlinks(t)
      BY <1>1, <2>1 DEF IInv, RowInv, TypeOK, RemoveUnlinks, Files, ceremonyVars
    <2>2. CASE UploadIds
      BY <1>1, <2>2 DEF TypeOK, UploadIds, CopyOver, Since, Files, ceremonyVars, scriptVars
    <2>3. CASE Deploy
      BY <1>1, <2>3 DEF TypeOK, Deploy, CopyOver, Since, Files, ceremonyVars, scriptVars
    <2>4. QED
      BY <2>1, <2>2, <2>3
  <1>4. \A t \in Tokens : row[t].named /\ row[t].materialized => crt'[t] = crt[t]
    BY <1>3 DEF IInv, RowInv
  <1>5. Carried'
    <2>1. \A t \in Tokens : /\ crt'[t] # None => Claim(t, crt'[t])
                            /\ bucket'[t] # None => Claim(t, bucket'[t])
                            /\ disk'[t] # None => Claim(t, disk'[t])
      BY <1>3 DEF IInv, Carried
    <2>2. writing # <<>> => writing[1] \in Tokens
      BY <1>1 DEF TypeOK
    <2>3. QED
      BY <1>3, <2>1, <2>2 DEF IInv, Carried, Claim
  <1>6. QED
    BY <1>2, <1>3, <1>4, <1>5, RowsStay DEF IInv
-----------------------------------------------------------------------------
(* The theorems *)

LEMMA StepInvariant == IInv /\ OneClaim /\ [Next]_vars => IInv' /\ OneClaim'
  <1> SUFFICES ASSUME IInv, OneClaim, [Next]_vars
               PROVE  IInv' /\ OneClaim'
    OBVIOUS
  <1>1. ASSUME UNCHANGED <<stage, link>>
        PROVE  OneClaim'
    BY <1>1 DEF OneClaim
  <1>2. CASE UNCHANGED vars
    BY <1>1, <1>2 DEF vars, IInv, TypeOK, RowInv, ClaimInv, Carried, Claim, ceremonyVars,
                      scriptVars, fileVars
  <1>3. ASSUME NEW c \in Ceremonies,
               \/ \E t \in Tokens : OptionsReads(c, t)
               \/ OptionsStores(c) \/ RegisterReads(c)
        PROVE  IInv' /\ OneClaim'
    BY <1>3, CeremonyStep
  <1>4. ASSUME NEW c \in Ceremonies, RegisterClaims(c)
        PROVE  IInv' /\ OneClaim'
    BY <1>4, ClaimStep
  <1>5. ASSUME NEW t \in Tokens, GenerateLink(t) \/ RemoveDeletes(t)
        PROVE  IInv' /\ OneClaim'
    BY <1>5, LinkStep
  <1>6. CASE MaterializeScans \/ MaterializeStops
    BY <1>1, <1>6, ScanStep DEF MaterializeScans, MaterializeStops, ceremonyVars
  <1>7. ASSUME NEW p \in pending, MaterializeWrites(p)
        PROVE  IInv' /\ OneClaim'
    BY <1>1, <1>7, WriteStep DEF MaterializeWrites, ceremonyVars
  <1>8. CASE MaterializeMarks
    BY <1>1, <1>8, MarkStep DEF MaterializeMarks, ceremonyVars
  <1>9. CASE (\E t \in Tokens : RemoveUnlinks(t)) \/ UploadIds \/ Deploy
    BY <1>1, <1>9, FileStep DEF RemoveUnlinks, UploadIds, Deploy, ceremonyVars
  <1>10. QED
    BY <1>2, <1>3, <1>4, <1>5, <1>6, <1>7, <1>8, <1>9 DEF Next

\* The inductive invariant, with the claims that it makes unique.
THEOREM Invariance == Spec => [](IInv /\ OneClaim)
  BY InitInvariant, StepInvariant, PTL DEF Spec

\* Type correctness of the rows, the ceremonies, the scripts and the files.
THEOREM TypeCorrect == Spec => []TypeOK
  <1>1. IInv => TypeOK
    BY DEF IInv
  <1>2. QED
    BY <1>1, Invariance, PTL

\* A link registers one device, whatever ceremonies raced for it and whatever removals
\* and re-created rows came between.
THEOREM ClaimExclusion == Spec => []OneClaim
  BY Invariance, PTL

\* The nodes load verified and claimed keys only.
THEOREM CatalogVerified == Spec => []CatalogIsVerified
  <1>1. IInv => CatalogIsVerified
    BY DEF IInv, Carried, Claim, CatalogIsVerified
  <1>2. QED
    BY <1>1, Invariance, PTL

\* A client that is listed has its key in the local ids/ tree.
THEOREM ListedHaveFiles == Spec => []ListedHasFile
  <1>1. IInv => ListedHasFile
    BY DEF IInv, RowInv, ListedHasFile, Listed, Completed
  <1>2. QED
    BY <1>1, Invariance, PTL

\* Only a deployment changes what the nodes have loaded, and it loads claimed keys.
LEMMA KeysStay ==
  ASSUME IInv, IInv', OneClaim', [Next]_vars, NEW t \in Tokens, catalog[t] # None
  PROVE  catalog'[t] = catalog[t]
  <1>1. CASE UNCHANGED catalog
    BY <1>1
  <1>2. CASE Deploy
    <2>1. catalog'[t] # None /\ catalog[t] \in Ceremonies /\ catalog'[t] \in Ceremonies
      BY <1>2 DEF IInv, TypeOK, Carried, Deploy, CopyOver, Files, Key
    <2>2. stage'[catalog[t]] = "claimed" /\ link'[catalog[t]] = t
      BY <2>1, ClaimStays DEF IInv, Carried
    <2>3. stage'[catalog'[t]] = "claimed" /\ link'[catalog'[t]] = t
      BY <2>1 DEF IInv, Carried, Claim
    <2>4. QED
      BY <2>1, <2>2, <2>3 DEF OneClaim
  <1>3. QED
    BY <1>1, <1>2 DEF Next, vars, fileVars, GenerateLink, RemoveDeletes, RemoveUnlinks,
       OptionsReads, OptionsStores, RegisterReads, RegisterClaims, MaterializeScans,
       MaterializeWrites, MaterializeMarks, MaterializeStops, UploadIds

\* A key that the mesh has loaded is never exchanged.
THEOREM StableKeys == Spec => KeysAreStable
  <1>1. IInv /\ IInv' /\ OneClaim' /\ [Next]_vars =>
          [\A t \in Tokens : catalog[t] # None => catalog'[t] = catalog[t]]_vars
    BY KeysStay
  <1>2. QED
    BY <1>1, Invariance, PTL DEF Spec, KeysAreStable
-----------------------------------------------------------------------------
(* The refinement of KeyRegister *)

Registered == {<<link[c], c>> : c \in {d \in Ceremonies : stage[d] = "claimed"}}
Loaded == {<<t, catalog[t]>> : t \in {u \in Tokens : catalog[u] # None}}

\* A step that claims nothing and deploys nothing is none of the register's.
LEMMA RegisterStutters ==
  ASSUME \A c \in Ceremonies : /\ stage'[c] = "claimed" <=> stage[c] = "claimed"
                               /\ stage[c] = "claimed" => link'[c] = link[c],
         UNCHANGED catalog
  PROVE  UNCHANGED Register!vars
  <1>1. Registered' = Registered
    BY DEF Registered
  <1>2. Loaded' = Loaded
    BY DEF Loaded
  <1>3. QED
    BY <1>1, <1>2 DEF Register!vars, Registered, Loaded

\* A claim registers a client and a key that were not registered before.
LEMMA ClaimRegisters ==
  ASSUME TypeOK, IInv', OneClaim', NEW c \in Ceremonies, RegisterClaims(c), stage'[c] = "claimed"
  PROVE  Register!Register(link[c], c) /\ link[c] \in Tokens
  <1>1. /\ stage[c] = "verified" /\ UNCHANGED <<link, catalog>>
        /\ \A d \in Ceremonies : d # c => stage'[d] = stage[d]
    BY DEF TypeOK, RegisterClaims, Stage, fileVars
  <1>2. link[c] \in Tokens
    BY <1>1 DEF IInv, ClaimInv
  <1>3. ASSUME NEW d \in Ceremonies, stage[d] = "claimed"
        PROVE  link[d] # link[c] /\ d # c
    BY <1>1, <1>3 DEF OneClaim
  <1>4. \A r \in Registered : r[1] # link[c] /\ r[2] # c
    BY <1>3 DEF Registered
  <1>5. Registered' = Registered \cup {<<link[c], c>>}
    BY <1>1 DEF Registered
  <1>6. Loaded' = Loaded
    BY <1>1 DEF Loaded
  <1>7. QED
    BY <1>2, <1>4, <1>5, <1>6 DEF Register!Register, Registered, Loaded

\* A deployment loads registered keys and keeps those that are loaded.
LEMMA DeployLoads ==
  ASSUME IInv, IInv', OneClaim', [Next]_vars, Deploy
  PROVE  Register!Load
  <1>1. UNCHANGED <<stage, link>>
    BY DEF Deploy, ceremonyVars
  <1>2. Loaded' \subseteq Registered
    <2>1. ASSUME NEW t \in Tokens, catalog'[t] # None
          PROVE  /\ catalog'[t] \in Ceremonies
                 /\ stage[catalog'[t]] = "claimed" /\ link[catalog'[t]] = t
      BY <1>1, <2>1 DEF IInv, TypeOK, Files, Key, Carried, Claim
    <2>2. QED
      BY <2>1 DEF Loaded, Registered
  <1>3. Loaded \subseteq Loaded'
    BY KeysStay DEF Loaded
  <1>4. Loaded' = Loaded \cup Loaded'
    BY <1>3
  <1>5. Registered' = Registered
    BY <1>1 DEF Registered
  <1>6. QED
    BY <1>2, <1>4, <1>5 DEF Register!Load, Registered, Loaded

LEMMA RegisterStep ==
  ASSUME IInv, IInv', OneClaim', [Next]_vars
  PROVE  [Register!Next]_(Register!vars)
  <1>1. TypeOK
    BY DEF IInv
  <1>2. ASSUME NEW c \in Ceremonies,
               \/ \E t \in Tokens : OptionsReads(c, t)
               \/ OptionsStores(c) \/ RegisterReads(c)
        PROVE  UNCHANGED Register!vars
    <2>1. /\ stage[c] # "claimed" /\ stage'[c] # "claimed" /\ UNCHANGED catalog
          /\ \A d \in Ceremonies : d # c => stage'[d] = stage[d] /\ link'[d] = link[d]
      BY <1>1, <1>2 DEF TypeOK, OptionsReads, OptionsStores, RegisterReads, Stage, fileVars
    <2>2. QED
      BY <2>1, RegisterStutters
  <1>3. ASSUME NEW c \in Ceremonies, RegisterClaims(c)
        PROVE  [Register!Next]_(Register!vars)
    <2>1. CASE stage'[c] = "claimed"
      BY <1>1, <1>3, <2>1, ClaimRegisters DEF Register!Next
    <2>2. CASE stage'[c] # "claimed"
      <3>1. /\ stage[c] # "claimed" /\ UNCHANGED <<link, catalog>>
            /\ \A d \in Ceremonies : d # c => stage'[d] = stage[d]
        BY <1>1, <1>3 DEF TypeOK, RegisterClaims, Stage, fileVars
      <3>2. QED
        BY <2>2, <3>1, RegisterStutters
    <2>3. QED
      BY <2>1, <2>2
  <1>4. CASE Deploy
    BY <1>4, DeployLoads DEF Register!Next
  <1>5. CASE UNCHANGED <<stage, link, catalog>>
    BY <1>5, RegisterStutters
  <1>6. QED
    BY <1>2, <1>3, <1>4, <1>5 DEF Next, vars, ceremonyVars, fileVars, GenerateLink,
       RemoveDeletes, RemoveUnlinks, MaterializeScans, MaterializeWrites, MaterializeMarks,
       MaterializeStops, UploadIds

\* Links, ceremonies and scripts implement the write-once register of keys: a client is
\* registered once, and the nodes load that key and no other.
THEOREM RegisterRefinement == Spec => RegisterImplemented
  <1>1. Init => Register!Init
    BY DEF Init, Register!Init
  <1>2. IInv /\ IInv' /\ OneClaim' /\ [Next]_vars => [Register!Next]_(Register!vars)
    BY RegisterStep
  <1>3. QED
    BY <1>1, <1>2, Invariance, PTL DEF Spec, Register!Spec, RegisterImplemented
=============================================================================
