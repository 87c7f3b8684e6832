--------------------------- MODULE Documents_proofs ---------------------------
(***************************************************************************)
(* Proofs about the collection of modules Documents and Reading, for any   *)
(* documents, keys, indexes, schema versions and number of ids: ids are    *)
(* not issued twice, every record keeps the schema it needs, a declared    *)
(* index is Active, the indexes agree with the documents, and so every     *)
(* range, look-up, scan and query gives what is there, and the integrity   *)
(* check passes.                                                           *)
(***************************************************************************)
EXTENDS Reading, NatSetLemmas, FiniteSetTheorems, SequenceTheorems, TLAPS

-----------------------------------------------------------------------------
(* Types.                                                                  *)

Database == [row : Descriptor \cup {NoRow}, schemas : SUBSET Versions,
             docs : [Ids -> Stored \cup {NoDoc}],
             entries : [Names -> SUBSET (KeyVals \X Ids)],
             full : SUBSET Names, neglected : BOOLEAN]

\* Types, and what makes a catalog row exist.
TypeInv ==
  /\ db \in Database /\ saved \in Database /\ cache \in Descriptor \cup {NoRow}
  /\ handle \in Versions \cup {NoVersion}
  /\ staged \subseteq Versions /\ shared \subseteq Versions
  /\ phase \in {"idle", "open", "failed"}
  /\ newest \in Versions \cup {0} /\ wentBack \in BOOLEAN /\ behind \in BOOLEAN
  /\ giving \subseteq Ids /\ given \subseteq Ids
  /\ handle # NoVersion \/ cache # NoRow \/ staged # {} => db.row # NoRow
  /\ shared # {} => db.row # NoRow /\ saved.row # NoRow

\* Every record finds its schema in the database it is in.
Schemas(b) == \A id \in Ids : b.docs[id] # NoDoc => b.docs[id].ver \in b.schemas

SchemaInv == Schemas(db) /\ Schemas(saved)

\* The descriptor's next id is above the ids in S, or there is no next id.
Above(d, S) == IF d = NoRow THEN S = {} ELSE d.next = 0 \/ \A id \in S : id < d.next

IdsInv ==
  /\ giving \cap given = {}
  /\ Above(saved.row, given) /\ Above(Live, given \cup giving)

\* The names in a descriptor were declared by versions up to the newest one used.
Remembers(d, last) ==
  d # NoRow =>
    /\ Active(d) \subseteq Known(d)
    /\ \A n \in Known(d) : \E v \in Versions : v <= last /\ n \in Range(Specs[v])

MemoryInv ==
  /\ Remembers(db.row, newest) /\ Remembers(saved.row, newest) /\ Remembers(cache, newest)
  /\ cache # NoRow => Known(cache) \subseteq Known(db.row)
  /\ ~wentBack /\ handle # NoVersion => handle = newest

\* No version declares an index again that one before it has dropped.
NoRevival ==
  \A u, v, w \in Versions : u < v /\ v < w =>
     Range(Specs[u]) \cap Range(Specs[w]) \subseteq Range(Specs[v])

\* An index that is DroppedPending was dropped by one of these versions.
Buried(d, last, back) ==
  d # NoRow /\ ~back =>
    \A n \in Known(d) \ Active(d) : \E u, v \in Versions :
       u < v /\ v <= last /\ n \in Range(Specs[u]) /\ n \notin Range(Specs[v])

DeclaredInv ==
  /\ Buried(db.row, newest, wentBack) /\ Buried(saved.row, newest, wentBack)
  /\ Buried(cache, newest, wentBack)
  /\ \A v \in staged \cup shared : v <= newest
  /\ ~wentBack /\ handle # NoVersion => handle \in staged \cup shared
  /\ ~behind /\ cache # NoRow => cache.place = db.row.place /\ cache.active = db.row.active
  /\ ~behind /\ ~wentBack =>
       /\ newest \in shared => Range(Specs[newest]) \subseteq Active(saved.row)
       /\ newest \in staged \cup shared => Range(Specs[newest]) \subseteq Active(db.row)

\* No two documents share a key of index n.
Distinct(b, n) ==
  \A i, j \in Ids : b.docs[i] # NoDoc /\ b.docs[j] # NoDoc /\ i # j
     => Keys[n][b.docs[i].doc] \cap Keys[n][b.docs[j].doc] = {}

\* Index n follows the documents.  When migration may change its keys, it has
\* nothing of records of versions before the last, and is not full if there
\* are any.
Follows(b, n, last) ==
  /\ b.entries[n] \subseteq Expected(b, n)
  /\ n \in b.full => b.entries[n] = Expected(b, n)
  /\ n \in b.full \cap Unique => Distinct(b, n)
  /\ n \notin Steady => \A id \in Ids : b.docs[id] # NoDoc /\ b.docs[id].ver # last =>
       n \notin b.full /\ \A k \in KeyVals : <<k, id>> \notin b.entries[n]

\* So do the indexes that are Active in descriptor d.
AllFollow(b, d, last, back) ==
  d # NoRow /\ ~b.neglected =>
    \A n \in Active(d) : n \in Steady \/ ~back => Follows(b, n, last)

FollowInv ==
  AllFollow(db, Live, newest, wentBack) /\ AllFollow(saved, saved.row, newest, wentBack)
-----------------------------------------------------------------------------
(* What an operation does, whichever it is.                                *)

\* The new entries of a record.
NewKeys(rec) == IF rec = NoDoc THEN NoKeys ELSE KeysOf(rec.doc)

\* An error before the trees are touched.
Failed ==
  \E d \in {Live, Bumped(Live)}, s \in {db.schemas, WithSchema} :
    Fails(d, s) /\ (d = Live \/ Live.next # 0)

\* Record rec is written under id: the trees of the Active indexes follow, or
\* the write is one that was kept without them.
Written(d, s, id, rec) ==
  /\ d \in {Live, Bumped(Live)} /\ cache' = d
  /\ s \in {db.schemas, WithSchema}
  /\ id \in Ids /\ rec \in Stored \cup {NoDoc}
  /\ rec # NoDoc => rec.ver = handle /\ handle \in s
  /\ db.docs[id] # NoDoc => Readable(db.docs[id])
  /\ db' \in Database /\ phase' \in {"open", "failed"}
  /\ db'.row = db.row /\ db'.schemas = s /\ db'.full = db.full
  /\ db'.docs = [db.docs EXCEPT ![id] = rec]
  /\ db.neglected => db'.neglected
  /\ ~db'.neglected => \A n \in Active(d) :
       LET old == OldKeys(db.docs[id])[n]
           new == NewKeys(rec)[n]
       IN /\ db'.entries[n] = Diffed(n, db.entries[n], old, new, id)
          /\ ~Taken(n, db.entries[n], old, new, id)

\* An insert takes an id from the descriptor, if it has one, and may return it.
Issued(d, id) ==
  /\ d = Live \/ Live.next # 0
  /\ giving' = giving \/ (id = Live.next /\ d = Bumped(Live) /\ giving' = giving \cup {id})

\* The descriptor operations work on is one, once the row exists.
LEMMA LiveDescribes ==
  ASSUME TypeInv, db.row # NoRow
  PROVE  Live \in Descriptor /\ Live # NoRow
  BY NothingAssumption DEF TypeInv, Database, Live

\* Bumping the next id leaves the indexes alone.
LEMMA BumpedDescribes ==
  ASSUME NEW d \in Descriptor
  PROVE  /\ Bumped(d) \in Descriptor /\ Bumped(d) # NoRow
         /\ Bumped(d).place = d.place /\ Bumped(d).active = d.active
         /\ Active(Bumped(d)) = Active(d) /\ Known(Bumped(d)) = Known(d)
         /\ Bumped(d).next = IF d.next = MaxId THEN 0 ELSE d.next + 1
<1>1. Bumped(d) = [next |-> IF d.next = MaxId THEN 0 ELSE d.next + 1,
                   place |-> d.place, active |-> d.active]
  BY DEF Bumped, Descriptor
<1>2. (IF d.next = MaxId THEN 0 ELSE d.next + 1) \in 0 .. MaxId
  BY BoundsAssumption DEF Descriptor
<1>3. Bumped(d) \in Descriptor
  BY <1>1, <1>2 DEF Descriptor
<1>. QED BY <1>1, <1>3, NothingAssumption DEF Active, Known

\* The keys of a document are sets of keys.
LEMMA KeysType ==
  ASSUME NEW n \in Names, NEW doc \in Docs
  PROVE  Keys[n][doc] \subseteq KeyVals
  BY IndexesAssumption

\* So are those of the record an operation reads.
LEMMA OldKeysType ==
  ASSUME TypeInv, handle \in Versions, NEW r \in Stored \cup {NoDoc}
  PROVE  OldKeys(r) \in [Names -> SUBSET KeyVals]
<1>1. CASE r = NoDoc
  BY <1>1 DEF OldKeys, NoKeys
<1>2. CASE r # NoDoc
  <2>1. Seen(r) \in Docs
    BY <1>2, VersionsAssumption DEF Seen, Decoded, Stored
  <2>. QED BY <1>2, <2>1, KeysType DEF OldKeys, KeysOf
<1>. QED BY <1>1, <1>2

\* Maintenance keeps an index a set of entries.
LEMMA DiffedType ==
  ASSUME NEW n, NEW tree \in SUBSET (KeyVals \X Ids), NEW old \in SUBSET KeyVals,
         NEW new \in SUBSET KeyVals, NEW id \in Ids
  PROVE  Diffed(n, tree, old, new, id) \in SUBSET (KeyVals \X Ids)
<1>1. {<<k, id>> : k \in new} \subseteq KeyVals \X Ids
      /\ {<<k, id>> : k \in new \ old} \subseteq KeyVals \X Ids
  OBVIOUS
<1>. QED BY <1>1 DEF Diffed

\* An index that is given no keys stays as it is.
LEMMA DiffedNothing ==
  ASSUME NEW n, NEW tree, NEW id
  PROVE  Diffed(n, tree, {}, {}, id) = tree /\ ~Taken(n, tree, {}, {}, id)
  BY DEF Diffed, Taken

\* A write is a Written, when the caller gives the keys of the Active indexes
\* or is said to have missed some.
LEMMA WriteEffect ==
  ASSUME TypeInv, handle \in Versions, db.row # NoRow,
         NEW d \in {Live, Bumped(Live)}, NEW s \in {db.schemas, WithSchema},
         NEW id \in Ids, NEW rec \in Stored \cup {NoDoc}, NEW order,
         NEW old \in [Names -> SUBSET KeyVals], NEW new \in [Names -> SUBSET KeyVals],
         NEW missed \in BOOLEAN,
         Write(d, s, id, rec, order, old, new, missed),
         rec # NoDoc => rec.ver = handle /\ handle \in s,
         db.docs[id] # NoDoc => Readable(db.docs[id]),
         ~missed => \A n \in Active(d) : /\ old[n] = OldKeys(db.docs[id])[n]
                                         /\ new[n] = NewKeys(rec)[n],
         \A n \in Active(d) : old[n] # {} \/ new[n] # {} => n \in DOMAIN order
  PROVE  Written(d, s, id, rec)
<1>. DEFINE entries == Maintained(d, order, old, new, id)
            refused == Refusing(d, order, old, new, id) # {}
<1>1. db' = [db EXCEPT !.schemas = s, !.docs[id] = rec, !.entries = entries,
                       !.neglected = @ \/ refused \/ missed]
      /\ cache' = d /\ phase' \in {"open", "failed"}
  BY DEF Write
<1>2. d \in Descriptor /\ Active(d) \subseteq Names /\ s \subseteq Versions
  BY LiveDescribes, BumpedDescribes DEF Active, Descriptor, WithSchema, TypeInv, Database
<1>3. db.entries \in [Names -> SUBSET (KeyVals \X Ids)]
  BY DEF TypeInv, Database
<1>4. entries \in [Names -> SUBSET (KeyVals \X Ids)]
  <2>1. ASSUME NEW n \in Names
        PROVE  Diffed(n, db.entries[n], old[n], new[n], id) \in SUBSET (KeyVals \X Ids)
    BY <1>3, DiffedType
  <2>. QED BY <1>3, <2>1 DEF Maintained
<1>5. ~refused => \A n \in Active(d) :
        /\ entries[n] = Diffed(n, db.entries[n], old[n], new[n], id)
        /\ ~Taken(n, db.entries[n], old[n], new[n], id)
  <2>. SUFFICES ASSUME ~refused, NEW n \in Active(d)
                PROVE  /\ entries[n] = Diffed(n, db.entries[n], old[n], new[n], id)
                       /\ ~Taken(n, db.entries[n], old[n], new[n], id)
    OBVIOUS
  <2>1. n \in Names
    BY <1>2
  <2>2. CASE n \in DOMAIN order
    <3>1. n \in Reached(d, order, old, new, id)
      BY <2>2 DEF Reached
    <3>2. ~Refused(n, db.entries[n], old[n], new[n], id)
      BY <2>2 DEF Refusing
    <3>. QED BY <2>1, <3>1, <3>2 DEF Maintained, Refused
  <2>3. CASE n \notin DOMAIN order
    <3>1. old[n] = {} /\ new[n] = {}
      BY <2>1, <2>3
    <3>2. entries[n] = db.entries[n]
      BY <2>1, <2>3 DEF Maintained, Reached
    <3>. QED BY <3>1, <3>2, DiffedNothing
  <2>. QED BY <2>2, <2>3
<1>. HIDE DEF entries, refused
<1>6. /\ db' \in Database
      /\ db'.row = db.row /\ db'.schemas = s /\ db'.full = db.full
      /\ db'.docs = [db.docs EXCEPT ![id] = rec] /\ db'.entries = entries
      /\ db'.neglected = (db.neglected \/ refused \/ missed)
  <2>1. db \in Database
    BY DEF TypeInv
  <2>2. (db.neglected \/ refused \/ missed) \in BOOLEAN
    OBVIOUS
  <2>3. [db.docs EXCEPT ![id] = rec] \in [Ids -> Stored \cup {NoDoc}]
    BY <2>1 DEF Database
  <2>. QED BY <1>1, <1>2, <1>4, <2>1, <2>2, <2>3 DEF Database
<1>7. ~db'.neglected => \A n \in Active(d) :
        /\ db'.entries[n] = Diffed(n, db.entries[n], OldKeys(db.docs[id])[n], NewKeys(rec)[n], id)
        /\ ~Taken(n, db.entries[n], OldKeys(db.docs[id])[n], NewKeys(rec)[n], id)
  BY <1>5, <1>6
<1>. QED BY <1>1, <1>6, <1>7 DEF Written

\* The walk of a typed write reaches every Active index.
LEMMA TypedEffect ==
  ASSUME TypeInv, handle \in Versions, db.row # NoRow,
         NEW d \in {Live, Bumped(Live)}, NEW s \in {db.schemas, WithSchema},
         NEW id \in Ids, NEW rec \in Stored \cup {NoDoc},
         Write(d, s, id, rec, ActiveOrder(d), OldKeys(db.docs[id]), NewKeys(rec), FALSE),
         rec # NoDoc => rec.ver = handle /\ handle \in s,
         db.docs[id] # NoDoc => Readable(db.docs[id])
  PROVE  Written(d, s, id, rec)
<1>1. OldKeys(db.docs[id]) \in [Names -> SUBSET KeyVals]
  BY OldKeysType DEF TypeInv, Database
<1>2. NewKeys(rec) \in [Names -> SUBSET KeyVals]
  BY KeysType DEF NewKeys, NoKeys, KeysOf, Stored
<1>3. \A n \in Active(d) : n \in DOMAIN ActiveOrder(d)
  BY DEF ActiveOrder
<1>. QED BY <1>1, <1>2, <1>3, WriteEffect

\* That of a raw one reaches those the caller gives keys of.
LEMMA RawEffect ==
  ASSUME TypeInv, handle \in Versions, db.row # NoRow,
         NEW d \in {Live, Bumped(Live)}, NEW id \in Ids, NEW rec \in Stored \cup {NoDoc},
         NEW keyed \in BOOLEAN,
         RawWrite(d, id, rec, OldKeys(db.docs[id]), NewKeys(rec), keyed),
         rec # NoDoc => rec.ver = handle /\ handle \in db.schemas,
         db.docs[id] # NoDoc => Readable(db.docs[id])
  PROVE  Written(d, db.schemas, id, rec)
<1>. DEFINE old == OldKeys(db.docs[id])
            new == NewKeys(rec)
            remove == Given(old, keyed)
            add    == Given(new, keyed)
            missed == \E n \in Active(d) : remove[n] # old[n] \/ add[n] # new[n]
<1>1. old \in [Names -> SUBSET KeyVals]
  BY OldKeysType DEF TypeInv, Database
<1>2. new \in [Names -> SUBSET KeyVals]
  BY KeysType DEF NewKeys, NoKeys, KeysOf, Stored
<1>3. Write(d, db.schemas, id, rec, TouchedOrder(remove, add), remove, add, missed)
  BY DEF RawWrite
<1>4. ~missed => \A n \in Active(d) : remove[n] = old[n] /\ add[n] = new[n]
  OBVIOUS
<1>5. missed \in BOOLEAN
  OBVIOUS
<1>6. Active(d) \subseteq Names
  BY LiveDescribes, BumpedDescribes DEF Active, Descriptor
<1>. HIDE DEF old, new
<1>7. remove \in [Names -> SUBSET KeyVals] /\ add \in [Names -> SUBSET KeyVals]
  BY <1>1, <1>2 DEF Given
<1>8. \A n \in Active(d) : remove[n] # {} \/ add[n] # {}
                             => n \in DOMAIN TouchedOrder(remove, add)
  <2>. SUFFICES ASSUME NEW n \in Active(d), remove[n] # {} \/ add[n] # {}
                PROVE  n \in DOMAIN TouchedOrder(remove, add)
    OBVIOUS
  <2>1. n \in Range(Specs[handle])
    BY <1>6 DEF Given
  <2>. QED BY <2>1 DEF TouchedOrder
<1>. HIDE DEF remove, add, missed
<1>. QED BY <1>3, <1>4, <1>5, <1>7, <1>8, WriteEffect DEF old, new

\* Every operation fails before it touches the trees, or writes one record.
LEMMA OperateEffect ==
  ASSUME TypeInv, Operate
  PROVE  /\ OneOp /\ CanOperate /\ db.row # NoRow /\ handle \in Versions
         /\ \/ Failed /\ giving' = giving
            \/ \E d \in {Live, Bumped(Live)}, s \in {db.schemas, WithSchema},
                  id \in Ids, rec \in Stored \cup {NoDoc} :
                  Written(d, s, id, rec) /\ Issued(d, id)
<1>. DEFINE Effect == \/ Failed /\ giving' = giving
                      \/ \E d \in {Live, Bumped(Live)}, s \in {db.schemas, WithSchema},
                            id \in Ids, rec \in Stored \cup {NoDoc} :
                            Written(d, s, id, rec) /\ Issued(d, id)
<1>1. CanOperate /\ handle \in Versions /\ db.row # NoRow
  BY DEF Operate, CanOperate, TypeInv
<1>2. Live \in Descriptor
  BY <1>1, LiveDescribes
<1>3. \A doc \in Values[handle] :
         /\ Record(doc) \in Stored /\ Record(doc) # NoDoc /\ Record(doc).ver = handle
         /\ NewKeys(Record(doc)) = KeysOf(doc)
  BY <1>1, VersionsAssumption, NothingAssumption DEF Record, Stored, NewKeys
<1>4. NewKeys(NoDoc) = NoKeys /\ OldKeys(NoDoc) = NoKeys
  BY DEF NewKeys, OldKeys
<1>5. handle \in WithSchema
  BY DEF WithSchema
<1>6. Live.next # 0 => Live.next \in Ids
  BY <1>2 DEF Descriptor, Ids
<1>7. ASSUME NEW d, NEW s, Fails(d, s), d \in {Live, Bumped(Live)}, d = Live \/ Live.next # 0,
             s \in {db.schemas, WithSchema}
      PROVE  Effect
  BY <1>7 DEF Failed, Fails
<1>8. ASSUME NEW d, NEW s, NEW id, NEW rec, Written(d, s, id, rec), Issued(d, id)
      PROVE  Effect
  BY <1>8 DEF Written
<1>. HIDE DEF Effect
<1>9. ASSUME NEW doc \in Values[handle], Insert(doc) PROVE OneOp /\ Effect
  <2>. DEFINE id == Live.next
              d  == Bumped(Live)
  <2>1. OneOp
    BY <1>9 DEF Insert
  <2>2. CASE id = 0
    BY <1>7, <1>9, <2>1, <2>2 DEF Insert
  <2>3. CASE id # 0 /\ db.docs[id] # NoDoc
    <3>1. Fails(d, WithSchema)
      BY <1>9, <2>3 DEF Insert
    <3>. QED BY <1>7, <2>1, <2>3, <3>1
  <2>4. CASE id # 0 /\ db.docs[id] = NoDoc
    <3>1. /\ Write(d, WithSchema, id, Record(doc), ActiveOrder(d), NoKeys, KeysOf(doc), FALSE)
          /\ Returns(id, d, ActiveOrder(d), KeysOf(doc))
      BY <1>9, <2>4 DEF Insert
    <3>2. Write(d, WithSchema, id, Record(doc), ActiveOrder(d), OldKeys(db.docs[id]),
                NewKeys(Record(doc)), FALSE)
      BY <1>3, <1>4, <2>4, <3>1
    <3>3. id \in Ids /\ Record(doc) \in Stored \cup {NoDoc} /\ d \in {Live, Bumped(Live)}
          /\ WithSchema \in {db.schemas, WithSchema}
      BY <1>3, <1>6, <2>4
    <3>. HIDE DEF id, d
    <3>4. Written(d, WithSchema, id, Record(doc))
      BY <1>1, <1>3, <1>5, <2>4, <3>2, <3>3, TypedEffect
    <3>5. Issued(d, id)
      BY <2>4, <3>1 DEF Issued, Returns, id, d
    <3>. QED BY <1>8, <2>1, <3>4, <3>5
  <2>. QED BY <2>2, <2>3, <2>4
<1>10. ASSUME NEW id \in Ids, NEW doc \in Values[handle], Update(id, doc) \/ Upsert(id, doc)
       PROVE  OneOp /\ Effect
  <2>1. OneOp
    BY <1>10 DEF Update, Upsert
  <2>2. CASE Fails(Live, WithSchema)
    BY <1>7, <2>1, <2>2
  <2>3. CASE ~Fails(Live, WithSchema)
    <3>1. /\ Write(Live, WithSchema, id, Record(doc), ActiveOrder(Live), OldKeys(db.docs[id]),
                   KeysOf(doc), FALSE)
          /\ db.docs[id] # NoDoc => Readable(db.docs[id])
          /\ giving' = giving
      BY <1>10, <2>3 DEF Update, Upsert
    <3>2. Written(Live, WithSchema, id, Record(doc))
      BY <1>1, <1>3, <1>5, <3>1, TypedEffect
    <3>. QED BY <1>8, <2>1, <3>1, <3>2 DEF Issued
  <2>. QED BY <2>2, <2>3
<1>11. ASSUME NEW id \in Ids, Delete(id) PROVE OneOp /\ Effect
  <2>1. OneOp
    BY <1>11 DEF Delete
  <2>2. CASE Fails(Live, db.schemas)
    BY <1>7, <2>1, <2>2
  <2>3. CASE ~Fails(Live, db.schemas)
    <3>1. /\ Write(Live, db.schemas, id, NoDoc, ActiveOrder(Live), OldKeys(db.docs[id]),
                   NoKeys, FALSE)
          /\ db.docs[id] # NoDoc => Readable(db.docs[id])
          /\ giving' = giving
      BY <1>11, <2>3 DEF Delete
    <3>2. Written(Live, db.schemas, id, NoDoc)
      BY <1>1, <1>4, <3>1, TypedEffect
    <3>. QED BY <1>8, <2>1, <3>1, <3>2 DEF Issued
  <2>. QED BY <2>2, <2>3
<1>12. ASSUME RawPutSchema PROVE OneOp /\ Effect
  <2>1. Fails(Live, WithSchema)
    BY <1>1, <1>12 DEF RawPutSchema, Fails, CanOperate
  <2>. QED BY <1>1, <1>7, <1>12, <2>1 DEF RawPutSchema, Effect
<1>13. ASSUME NEW keyed \in BOOLEAN, NEW doc \in Values[handle], RawInsert(doc, keyed)
       PROVE  OneOp /\ Effect
  <2>. DEFINE id == Live.next
              d  == Bumped(Live)
  <2>1. OneOp /\ handle \in db.schemas
    BY <1>13 DEF RawInsert
  <2>2. CASE id = 0
    BY <1>7, <1>13, <2>1, <2>2 DEF RawInsert
  <2>3. CASE id # 0 /\ db.docs[id] # NoDoc
    <3>1. Fails(d, db.schemas)
      BY <1>13, <2>3 DEF RawInsert
    <3>. QED BY <1>7, <2>1, <2>3, <3>1
  <2>4. CASE id # 0 /\ db.docs[id] = NoDoc
    <3>1. /\ RawWrite(d, id, Record(doc), NoKeys, KeysOf(doc), keyed)
          /\ giving' = giving \/ giving' = giving \cup {id}
      BY <1>13, <2>4 DEF RawInsert, Returns
    <3>2. RawWrite(d, id, Record(doc), OldKeys(db.docs[id]), NewKeys(Record(doc)), keyed)
      BY <1>3, <1>4, <2>4, <3>1
    <3>3. id \in Ids /\ Record(doc) \in Stored \cup {NoDoc} /\ d \in {Live, Bumped(Live)}
      BY <1>3, <1>6, <2>4
    <3>4. Issued(d, id)
      BY <2>4, <3>1 DEF Issued
    <3>. HIDE DEF id, d
    <3>5. Written(d, db.schemas, id, Record(doc))
      BY <1>1, <1>3, <2>1, <2>4, <3>2, <3>3, RawEffect
    <3>. QED BY <1>8, <2>1, <3>4, <3>5
  <2>. QED BY <2>2, <2>3, <2>4
<1>14. ASSUME NEW keyed \in BOOLEAN, NEW id \in Ids, NEW doc \in Values[handle],
              RawUpdate(id, doc, keyed) \/ (keyed = FALSE /\ RawUpsert(id, doc))
       PROVE  OneOp /\ Effect
  <2>1. OneOp /\ handle \in db.schemas /\ (db.docs[id] # NoDoc => Readable(db.docs[id]))
    BY <1>14 DEF RawUpdate, RawUpsert
  <2>2. CASE Fails(Live, db.schemas)
    BY <1>7, <2>1, <2>2
  <2>3. CASE ~Fails(Live, db.schemas)
    <3>1. /\ RawWrite(Live, id, Record(doc), OldKeys(db.docs[id]), KeysOf(doc), keyed)
          /\ giving' = giving
      BY <1>14, <2>3 DEF RawUpdate, RawUpsert
    <3>2. Written(Live, db.schemas, id, Record(doc))
      BY <1>1, <1>3, <2>1, <3>1, RawEffect
    <3>. QED BY <1>8, <2>1, <3>1, <3>2 DEF Issued
  <2>. QED BY <2>2, <2>3
<1>15. ASSUME NEW keyed \in BOOLEAN, NEW id \in Ids, RawDelete(id, keyed)
       PROVE  OneOp /\ Effect
  <2>1. /\ OneOp /\ giving' = giving /\ (db.docs[id] # NoDoc => Readable(db.docs[id]))
        /\ RawWrite(Live, id, NoDoc, OldKeys(db.docs[id]), NoKeys, keyed)
    BY <1>15 DEF RawDelete
  <2>2. Written(Live, db.schemas, id, NoDoc)
    BY <1>1, <1>4, <2>1, RawEffect
  <2>. QED BY <1>8, <2>1, <2>2 DEF Issued
<1>16. ASSUME NEW id \in Ids, NEW doc \in Values[handle], RawUpsert(id, doc)
       PROVE  OneOp /\ Effect
  BY <1>14, <1>16, Zenon
<1>17. OneOp /\ Effect
  <2>1. ASSUME NEW keyed \in BOOLEAN,
               \/ \E doc \in Values[handle] : RawInsert(doc, keyed)
               \/ \E id \in Ids, doc \in Values[handle] : RawUpdate(id, doc, keyed)
               \/ \E id \in Ids : RawDelete(id, keyed)
        PROVE  OneOp /\ Effect
    BY <1>13, <1>14, <1>15, <2>1, Zenon
  <2>2. CASE \E doc \in Values[handle] : Insert(doc)
    BY <1>9, <2>2, Zenon
  <2>3. CASE \E id \in Ids, doc \in Values[handle] : Update(id, doc) \/ Upsert(id, doc)
    BY <1>10, <2>3, Zenon
  <2>4. CASE \E id \in Ids : Delete(id)
    BY <1>11, <2>4, Zenon
  <2>5. CASE \E id \in Ids, doc \in Values[handle] : RawUpsert(id, doc)
    BY <1>16, <2>5, Zenon
  <2>. QED BY <1>12, <2>1, <2>2, <2>3, <2>4, <2>5, Zenon DEF Operate
<1>. QED BY <1>1, <1>17 DEF Effect

-----------------------------------------------------------------------------
(* What opening the collection does.                                       *)

\* The specs of a version are names.
LEMMA SpecsType == ASSUME NEW v \in Versions PROVE Range(Specs[v]) \subseteq Names
  BY VersionsAssumption DEF Range

\* declare_index adds the specs that are missing, as Active ones.
LEMMA DeclaredAdds ==
  ASSUME NEW d \in Descriptor, NEW v \in Versions
  PROVE  LET e == Declared(d, Specs[v])
         IN  /\ e \in Descriptor /\ e.next = d.next
             /\ Known(e) = Known(d) \cup Range(Specs[v])
             /\ e.active = d.active \cup (Range(Specs[v]) \ Known(d))
<1>. DEFINE specs == Specs[v]
            new == Range(specs) \ Known(d)
            Before(n) == {m \in new : PlaceIn(specs, m) <= PlaceIn(specs, n)}
            place == [n \in Names |-> IF n \in new
                        THEN Cardinality(Known(d)) + Cardinality(Before(n)) ELSE d.place[n]]
            e == Declared(d, specs)
<1>1. new \subseteq Names /\ Known(d) \subseteq Names
  BY SpecsType DEF Known
<1>2. e = [d EXCEPT !.place = place, !.active = d.active \cup new]
  BY Zenon DEF Declared
<1>3. Cardinality(Known(d)) \in Nat
  BY <1>1, IndexesAssumption, FS_Subset, FS_CardinalityType
<1>4. ASSUME NEW n \in new PROVE Cardinality(Before(n)) \in Nat /\ Cardinality(Before(n)) # 0
  <2>1. IsFiniteSet(Before(n))
    <3>1. Before(n) \subseteq Names
      BY <1>1
    <3>. QED BY <3>1, IndexesAssumption, FS_Subset
  <2>2. n \in Before(n)
    <3>1. PICK i \in DOMAIN specs : specs[i] = n
      BY DEF Range
    <3>2. DOMAIN specs \subseteq Nat
      BY VersionsAssumption
    <3>3. PlaceIn(specs, n) \in Nat
      BY <3>1, <3>2 DEF PlaceIn
    <3>. QED BY <3>3
  <2>. HIDE DEF Before
  <2>. QED BY <2>1, <2>2, FS_CardinalityType, FS_EmptySet
<1>. HIDE DEF Before, new
<1>5. place \in [Names -> Nat]
  BY <1>1, <1>3, <1>4 DEF Descriptor
<1>6. \A n \in Names : place[n] # 0 <=> n \in Known(d) \/ n \in new
  BY <1>3, <1>4 DEF Known, Descriptor, new
<1>. HIDE DEF place, e
<1>7. e \in Descriptor /\ e.next = d.next /\ e.active = d.active \cup new /\ e.place = place
  BY <1>1, <1>2, <1>5 DEF Descriptor
<1>8. Known(e) = Known(d) \cup Range(specs)
  <2>1. Known(e) = Known(d) \cup new
    BY <1>1, <1>6, <1>7 DEF Known
  <2>. QED BY <2>1 DEF new
<1>. QED BY <1>7, <1>8 DEF new, e

\* reconcile_indexes leaves the documents alone and empties the new indexes.
LEMMA ReconciledEffect ==
  ASSUME NEW b \in Database, b.row # NoRow, NEW v \in Versions
  PROVE  LET c == Reconciled(b, Specs[v])
             new == Range(Specs[v]) \ Known(b.row)
         IN  /\ c \in Database /\ c.row # NoRow
             /\ c.row.next = b.row.next
             /\ Known(c.row) = Known(b.row) \cup Range(Specs[v])
             /\ Active(c.row) = (Active(b.row) \cup new) \cap Range(Specs[v])
             /\ c.docs = b.docs /\ c.schemas = b.schemas /\ c.neglected = b.neglected
             /\ \A n \in Names : c.entries[n] = IF n \in new THEN {} ELSE b.entries[n]
             /\ \A n \in Names \ new : n \in c.full <=> n \in b.full
             /\ \A n \in new : n \in c.full => \A id \in Ids : b.docs[id] = NoDoc
<1>. DEFINE specs == Specs[v]
            row == Declared(b.row, specs)
            end == Dropped(row, specs)
            new == Known(row) \ Known(b.row)
            isEmpty == \A id \in Ids : b.docs[id] = NoDoc
            c == Reconciled(b, specs)
<1>1. b.row \in Descriptor
  BY DEF Database
<1>2. /\ row \in Descriptor /\ row.next = b.row.next
      /\ Known(row) = Known(b.row) \cup Range(specs)
      /\ row.active = b.row.active \cup (Range(specs) \ Known(b.row))
  BY <1>1, DeclaredAdds
<1>3. new = Range(specs) \ Known(b.row) /\ new \subseteq Names
  BY <1>2, SpecsType
<1>. HIDE DEF row, new
<1>4. /\ end \in Descriptor /\ end.next = row.next /\ Known(end) = Known(row)
      /\ Active(end) = row.active \cap Range(specs)
  <2>1. end = [row EXCEPT !.active = row.active \cap Range(specs)]
    BY Zenon DEF Dropped
  <2>2. /\ end \in Descriptor /\ end.next = row.next /\ end.place = row.place
        /\ end.active = row.active \cap Range(specs)
    BY <1>2, <2>1 DEF Descriptor
  <2>. QED BY <2>2 DEF Known, Active
<1>. HIDE DEF end
<1>5. c = [b EXCEPT !.row = end,
                    !.entries = [n \in Names |-> IF n \in new THEN {} ELSE @[n]],
                    !.full = IF isEmpty THEN @ \cup new ELSE @ \ new]
  BY DEF Reconciled, row, end, new
<1>6. c = [row |-> end, schemas |-> b.schemas, docs |-> b.docs,
           entries |-> [n \in Names |-> IF n \in new THEN {} ELSE b.entries[n]],
           full |-> IF isEmpty THEN b.full \cup new ELSE b.full \ new,
           neglected |-> b.neglected]
  BY <1>5 DEF Database
<1>. HIDE DEF c
<1>7. c \in Database
  BY <1>3, <1>4, <1>6 DEF Database
<1>8. c.row = end /\ end # NoRow
  BY <1>4, <1>6, NothingAssumption
<1>9. /\ \A n \in Names : c.entries[n] = IF n \in new THEN {} ELSE b.entries[n]
      /\ \A n \in Names \ new : n \in c.full <=> n \in b.full
      /\ \A n \in new : n \in c.full => isEmpty
  <2>1. b.full \subseteq Names
    BY DEF Database
  <2>2. c.full = IF isEmpty THEN b.full \cup new ELSE b.full \ new
    BY <1>6
  <2>3. c.entries = [n \in Names |-> IF n \in new THEN {} ELSE b.entries[n]]
    BY <1>6
  <2>. QED BY <2>1, <2>2, <2>3
<1>10. c.docs = b.docs /\ c.schemas = b.schemas /\ c.neglected = b.neglected
  BY <1>6
<1>. QED BY <1>2, <1>3, <1>4, <1>7, <1>8, <1>9, <1>10 DEF Active, c

\* The database OpenCollection works on: the row is created if there is none.
Opened == IF db.row = NoRow THEN [db EXCEPT !.row = NewRow] ELSE db

\* Creating the row changes nothing else.
LEMMA OpenedEffect ==
  ASSUME TypeInv
  PROVE  /\ Opened \in Database /\ Opened.row # NoRow
         /\ db.row # NoRow => Opened = db
         /\ db.row = NoRow => Opened.row = NewRow
         /\ NewRow \in Descriptor /\ NewRow.next = 1 /\ Known(NewRow) = {}
         /\ Active(NewRow) = {}
         /\ Opened.docs = db.docs /\ Opened.schemas = db.schemas
         /\ Opened.entries = db.entries /\ Opened.full = db.full
         /\ Opened.neglected = db.neglected
<1>1. NewRow \in Descriptor /\ NewRow # NoRow
  BY BoundsAssumption, NothingAssumption DEF NewRow, Descriptor
<1>2. NewRow.next = 1 /\ Known(NewRow) = {} /\ Active(NewRow) = {}
  BY DEF NewRow, Known, Active
<1>3. [db EXCEPT !.row = NewRow] =
        [row |-> NewRow, schemas |-> db.schemas, docs |-> db.docs, entries |-> db.entries,
         full |-> db.full, neglected |-> db.neglected]
  BY DEF TypeInv, Database
<1>4. [db EXCEPT !.row = NewRow] \in Database
  BY <1>1, <1>3 DEF TypeInv, Database
<1>. QED BY <1>1, <1>2, <1>3, <1>4 DEF TypeInv, Opened

\* flush_descriptors puts the live descriptor into the catalog row.
LEMMA FlushedEffect ==
  ASSUME TypeInv
  PROVE  /\ Flushed \in Database /\ Flushed.row = Live
         /\ Flushed.docs = db.docs /\ Flushed.schemas = db.schemas
         /\ Flushed.entries = db.entries /\ Flushed.full = db.full
         /\ Flushed.neglected = db.neglected
<1>1. CASE cache = NoRow
  BY <1>1 DEF Flushed, Live, TypeInv
<1>2. CASE cache # NoRow
  <2>1. Flushed = [db EXCEPT !.row = cache]
    BY <1>2 DEF Flushed
  <2>. QED BY <1>2, <2>1 DEF TypeInv, Database, Live
<1>. QED BY <1>1, <1>2

\* OpenCollection(v), when v has been reconciled and when it has not.
LEMMA OpenEffect ==
  ASSUME TypeInv, NEW v \in Versions, OpenCollection(v)
  PROVE  /\ phase = "open" /\ handle' = v
         /\ newest' = IF v > newest THEN v ELSE newest
         /\ wentBack' = (wentBack \/ v < newest)
         /\ UNCHANGED <<saved, cache, shared, phase, ops, giving, given>>
         /\ \/ /\ v \in staged \cup shared /\ db' = Opened
               /\ UNCHANGED <<staged, behind>>
            \/ /\ v \notin staged \cup shared /\ db' = Reconciled(Opened, Specs[v])
               /\ staged' = staged \cup {v} /\ behind' = (behind \/ cache # NoRow)
  BY DEF OpenCollection, Opened

\* Types are kept.
LEMMA TypeStep == TypeInv /\ [Next]_vars => TypeInv'
<1>. SUFFICES ASSUME TypeInv, [Next]_vars PROVE TypeInv'
  OBVIOUS
<1>1. CASE Begin
  BY <1>1 DEF Begin, TypeInv, history
<1>2. ASSUME NEW v \in Versions, OpenCollection(v) PROVE TypeInv'
  <2>1. db' \in Database /\ db'.row # NoRow
    BY <1>2, OpenEffect, OpenedEffect, ReconciledEffect
  <2>2. staged' \subseteq Versions /\ behind' \in BOOLEAN
    BY <1>2, OpenEffect DEF TypeInv
  <2>3. newest' \in Versions \cup {0} /\ wentBack' \in BOOLEAN /\ handle' \in Versions
    BY <1>2, OpenEffect DEF TypeInv
  <2>4. /\ saved' \in Database /\ cache' \in Descriptor \cup {NoRow}
        /\ shared' \subseteq Versions /\ phase' \in {"idle", "open", "failed"}
        /\ giving' \subseteq Ids /\ given' \subseteq Ids
        /\ shared' # {} => saved'.row # NoRow
    BY <1>2, OpenEffect DEF TypeInv
  <2>. QED BY <2>1, <2>2, <2>3, <2>4 DEF TypeInv
<1>3. CASE Operate
  <2>1. OneOp /\ db.row # NoRow
    BY <1>3, OperateEffect
  <2>2. Live \in Descriptor /\ Bumped(Live) \in Descriptor
    BY <2>1, LiveDescribes, BumpedDescribes
  <2>3. /\ db' \in Database /\ db'.row = db.row /\ cache' \in Descriptor
        /\ phase' \in {"open", "failed"}
    <3>1. CASE Failed
      <4>1. PICK d \in {Live, Bumped(Live)}, s \in {db.schemas, WithSchema} : Fails(d, s)
        BY <3>1 DEF Failed
      <4>2. s \subseteq Versions
        BY <1>3, OperateEffect DEF WithSchema, TypeInv, Database
      <4>. QED BY <2>2, <4>1, <4>2 DEF Fails, TypeInv, Database
    <3>2. CASE ~Failed
      BY <1>3, <2>2, <3>2, OperateEffect DEF Written
    <3>. QED BY <3>1, <3>2
  <2>4. giving' \subseteq Ids
    <3>1. CASE giving' = giving
      BY <3>1 DEF TypeInv
    <3>2. CASE giving' # giving
      <4>1. PICK d \in {Live, Bumped(Live)}, s \in {db.schemas, WithSchema}, id \in Ids,
                 rec \in Stored \cup {NoDoc} : Written(d, s, id, rec) /\ Issued(d, id)
        BY <1>3, <3>2, OperateEffect
      <4>. QED BY <3>2, <4>1 DEF Issued, TypeInv
    <3>. QED BY <3>1, <3>2
  <2>. QED BY <2>1, <2>3, <2>4 DEF TypeInv, OneOp
<1>4. CASE Commit
  <2>1. Flushed \in Database /\ Flushed.row = Live
    BY FlushedEffect
  <2>2. staged # {} \/ shared # {} => Live # NoRow
    BY DEF TypeInv, Live
  <2>. QED BY <1>4, <2>1, <2>2 DEF Commit, Closed, TypeInv
<1>5. CASE Rollback
  BY <1>5 DEF Rollback, Closed, TypeInv
<1>6. CASE Restart
  BY <1>6 DEF Restart, Closed, TypeInv
<1>7. CASE UNCHANGED vars
  BY <1>7 DEF vars, history, TypeInv
<1>. QED BY <1>1, <1>2, <1>3, <1>4, <1>5, <1>6, <1>7 DEF Next

\* And hold at the start.
LEMMA TypeInit == Init => TypeInv
<1>. SUFFICES ASSUME Init PROVE TypeInv
  OBVIOUS
<1>1. Empty \in Database
  BY DEF Empty, Database
<1>2. Empty.row = NoRow
  BY DEF Empty
<1>. QED BY <1>1, <1>2 DEF Init, TypeInv

\* The collection's state keeps its types through every operation.
LEMMA TypeInvariant == Spec => []TypeInv
<1>. QED BY TypeInit, TypeStep, PTL DEF Spec

-----------------------------------------------------------------------------
(* Schemas and ids.                                                        *)

\* A write under a version puts that version's schema there, and schema rows
\* are not removed.
LEMMA SchemaStep == TypeInv /\ SchemaInv /\ [Next]_vars => SchemaInv'
<1>. SUFFICES ASSUME TypeInv, SchemaInv, [Next]_vars PROVE SchemaInv'
  OBVIOUS
<1>1. CASE Begin
  BY <1>1 DEF Begin, SchemaInv
<1>2. ASSUME NEW v \in Versions, OpenCollection(v) PROVE SchemaInv'
  <2>1. db'.docs = db.docs /\ db'.schemas = db.schemas /\ saved' = saved
    BY <1>2, OpenEffect, OpenedEffect, ReconciledEffect
  <2>. QED BY <2>1 DEF SchemaInv, Schemas
<1>3. CASE Operate
  <2>1. saved' = saved
    BY <1>3, OperateEffect DEF OneOp
  <2>2. Schemas(db')
    <3>1. CASE Failed
      BY <3>1 DEF Failed, Fails, WithSchema, SchemaInv, Schemas, TypeInv, Database
    <3>2. CASE ~Failed
      <4>1. PICK d, s, id, rec : Written(d, s, id, rec)
        BY <1>3, <3>2, OperateEffect
      <4>2. db.schemas \subseteq s
        BY <4>1 DEF Written, WithSchema
      <4>3. db.docs \in [Ids -> Stored \cup {NoDoc}]
        BY DEF TypeInv, Database
      <4>. QED BY <4>1, <4>2, <4>3 DEF Written, SchemaInv, Schemas
    <3>. QED BY <3>1, <3>2
  <2>. QED BY <2>1, <2>2 DEF SchemaInv, Schemas
<1>4. CASE Commit
  BY <1>4, FlushedEffect DEF Commit, SchemaInv, Schemas
<1>5. CASE Rollback \/ Restart
  BY <1>5 DEF Rollback, Restart, SchemaInv, Schemas
<1>6. CASE UNCHANGED vars
  BY <1>6 DEF vars, SchemaInv
<1>. QED BY <1>1, <1>2, <1>3, <1>4, <1>5, <1>6 DEF Next

\* A committed record can be decoded by the version that wrote it and by every
\* later one (persist_current_schema, put_schema): its schema row is there.
THEOREM SchemasKept == Spec => []SchemaOfEveryRecord
<1>1. Init => SchemaInv
  BY DEF Init, Empty, SchemaInv, Schemas
<1>2. SchemaInv => SchemaOfEveryRecord
  BY DEF SchemaInv, Schemas, SchemaOfEveryRecord
<1>. QED BY <1>1, <1>2, SchemaStep, TypeInvariant, PTL DEF Spec

\* A transaction issues ids from the descriptor it will write back.
LEMMA IdsStep == TypeInv /\ IdsInv /\ [Next]_vars => IdsInv'
<1>. SUFFICES ASSUME TypeInv, IdsInv, [Next]_vars PROVE IdsInv'
  OBVIOUS
<1>1. CASE Begin
  BY <1>1 DEF Begin, IdsInv, Live, history
<1>2. ASSUME NEW v \in Versions, OpenCollection(v) PROVE IdsInv'
  <2>1. UNCHANGED <<saved, cache, giving, given>>
    BY <1>2, OpenEffect
  <2>2. CASE cache # NoRow
    BY <2>1, <2>2 DEF IdsInv, Live
  <2>3. CASE cache = NoRow /\ db.row # NoRow
    <3>1. db'.row.next = db.row.next /\ db'.row # NoRow
      BY <1>2, <2>3, OpenEffect, OpenedEffect, ReconciledEffect
    <3>. QED BY <2>1, <2>3, <3>1 DEF IdsInv, Live, Above
  <2>4. CASE cache = NoRow /\ db.row = NoRow
    <3>1. given \cup giving = {}
      BY <2>4 DEF IdsInv, Live, Above
    <3>2. db'.row # NoRow
      BY <1>2, OpenEffect, OpenedEffect, ReconciledEffect
    <3>. QED BY <2>1, <2>4, <3>1, <3>2 DEF IdsInv, Live, Above
  <2>. QED BY <2>2, <2>3, <2>4
<1>3. CASE Operate
  <2>1. saved' = saved /\ given' = given /\ db.row # NoRow
    BY <1>3, OperateEffect DEF OneOp
  <2>2. Live \in Descriptor /\ Live # NoRow
    BY <2>1, LiveDescribes
  <2>3. /\ Bumped(Live) \in Descriptor /\ Bumped(Live) # NoRow
        /\ Bumped(Live).next = IF Live.next = MaxId THEN 0 ELSE Live.next + 1
    BY <2>2, BumpedDescribes
  <2>4. /\ cache' \in {Live, Bumped(Live)} /\ Live' = cache'
        /\ cache' = Live \/ Live.next # 0
    <3>1. cache' \in {Live, Bumped(Live)} /\ (cache' = Live \/ Live.next # 0)
      <4>1. CASE Failed
        BY <4>1 DEF Failed, Fails
      <4>2. CASE ~Failed
        <5>1. PICK d \in {Live, Bumped(Live)} : \E s, id, rec : Written(d, s, id, rec) /\ Issued(d, id)
          BY <1>3, <4>2, OperateEffect, Zenon
        <5>2. cache' = d /\ (d = Live \/ Live.next # 0)
          BY <5>1, Zenon DEF Written, Issued
        <5> QED BY <5>2, Zenon
      <4> QED BY <4>1, <4>2
    <3>. QED BY <2>2, <2>3, <3>1 DEF Live
  <2>5. \/ giving' = giving
        \/ /\ Live.next \in Ids /\ giving' = giving \cup {Live.next}
           /\ cache' = Bumped(Live)
    <3>1. CASE giving' = giving
      BY <3>1
    <3>2. CASE giving' # giving
      <4>1. PICK d, s, id, rec : Written(d, s, id, rec) /\ Issued(d, id)
        BY <1>3, <3>2, OperateEffect, Zenon
      <4>2. cache' = d /\ id \in Ids
        BY <4>1, Zenon DEF Written
      <4>3. id = Live.next /\ d = Bumped(Live) /\ giving' = giving \cup {id}
        BY <4>1, <3>2, Zenon DEF Issued
      <4> QED BY <4>2, <4>3, Zenon
    <3>. QED BY <3>1, <3>2
  <2>6. Above(Live, given \cup giving) /\ giving \cap given = {}
    BY DEF IdsInv
  <2>7. Live.next \in 0 .. MaxId /\ given \cup giving \subseteq 1 .. MaxId
    BY <2>2 DEF Descriptor, TypeInv, Ids
  <2>8. giving' \cap given = {}
    BY <2>2, <2>5, <2>6, <2>7 DEF Above, Ids
  <2>9. Above(cache', given \cup giving')
    <3>1. CASE cache' = Live /\ giving' = giving
      BY <2>6, <3>1
    <3>2. CASE cache' = Bumped(Live) /\ Live.next # 0
      BY <2>2, <2>3, <2>5, <2>6, <2>7, <3>2, BoundsAssumption DEF Above
    <3>. QED BY <2>4, <2>5, <3>1, <3>2 DEF Ids
  <2>. QED BY <2>1, <2>4, <2>8, <2>9 DEF IdsInv
<1>4. CASE Commit
  BY <1>4, FlushedEffect DEF Commit, Closed, IdsInv, Live
<1>5. CASE Rollback \/ Restart
  BY <1>5 DEF Rollback, Restart, Closed, IdsInv, Live
<1>6. CASE UNCHANGED vars
  BY <1>6 DEF vars, history, IdsInv, Live
<1>. QED BY <1>1, <1>2, <1>3, <1>4, <1>5, <1>6 DEF Next

\* An id that a committed insert returned is not returned by another one
\* (bump_next_id in the cached descriptor, flush_descriptors), whatever is
\* deleted, rolled back, reconciled or restarted in between.
THEOREM IdsIssuedOnce == Spec => []IdsNeverReissued
<1>1. Init => IdsInv
  BY DEF Init, Empty, IdsInv, Live, Above
<1>2. IdsInv => IdsNeverReissued
  BY DEF IdsInv, IdsNeverReissued
<1>. QED BY <1>1, <1>2, IdsStep, TypeInvariant, PTL DEF Spec

-----------------------------------------------------------------------------
(* The indexes of the descriptors.                                         *)

\* An operation leaves the indexes of the row and of the live descriptor
\* alone; a transaction that ends makes one of them the committed row.
LEMMA SameIndexes ==
  ASSUME TypeInv, Operate
  PROVE  /\ UNCHANGED <<saved, handle, staged, shared, newest, wentBack, behind, given>>
         /\ db'.row = db.row /\ cache' \in Descriptor /\ cache' # NoRow
         /\ Live \in Descriptor /\ Live # NoRow /\ Live' = cache'
         /\ cache'.place = Live.place /\ cache'.active = Live.active
         /\ Known(cache') = Known(Live) /\ Active(cache') = Active(Live)
<1>1. OneOp /\ db.row # NoRow
  BY OperateEffect
<1>2. Live \in Descriptor /\ Live # NoRow
  BY <1>1, LiveDescribes
<1>3. cache' \in {Live, Bumped(Live)} /\ db'.row = db.row
  <2>1. CASE Failed
    BY <2>1 DEF Failed, Fails, TypeInv, Database
  <2>2. CASE ~Failed
    BY <2>2, OperateEffect DEF Written
  <2>. QED BY <2>1, <2>2
<1>4. /\ cache' \in Descriptor /\ cache' # NoRow
      /\ cache'.place = Live.place /\ cache'.active = Live.active
      /\ Known(cache') = Known(Live) /\ Active(cache') = Active(Live)
  BY <1>2, <1>3, BumpedDescribes
<1>. QED BY <1>1, <1>2, <1>3, <1>4 DEF OneOp, Live

\* A name comes into a descriptor when a version that declares it is used.
LEMMA MemoryStep == TypeInv /\ MemoryInv /\ [Next]_vars => MemoryInv'
<1>. SUFFICES ASSUME TypeInv, MemoryInv, [Next]_vars PROVE MemoryInv'
  OBVIOUS
<1>1. CASE Begin
  BY <1>1 DEF Begin, MemoryInv, Remembers, history
<1>2. ASSUME NEW v \in Versions, OpenCollection(v) PROVE MemoryInv'
  <2>1. UNCHANGED <<saved, cache>> /\ v <= newest' /\ newest <= newest'
        /\ newest' \in Nat
    <3>1. newest \in Nat /\ v \in Nat
      BY VersionsAssumption DEF TypeInv
    <3>. QED BY <1>2, <3>1, OpenEffect
  <2>2. ASSUME NEW d, Remembers(d, newest) PROVE Remembers(d, newest')
    <3>1. newest \in Nat /\ Versions \subseteq Nat
      BY VersionsAssumption DEF TypeInv
    <3>. QED BY <2>1, <2>2, <3>1 DEF Remembers
  <2>3. /\ db'.row # NoRow /\ Known(Opened.row) \subseteq Known(db'.row)
        /\ \/ db'.row = Opened.row
           \/ /\ Active(db'.row) \subseteq Active(Opened.row) \cup Range(Specs[v])
              /\ Known(db'.row) = Known(Opened.row) \cup Range(Specs[v])
    <3>1. Opened \in Database /\ Opened.row # NoRow
      BY OpenedEffect
    <3>2. CASE db' = Opened
      BY <3>1, <3>2
    <3>3. CASE db' = Reconciled(Opened, Specs[v])
      <4>1. /\ Known(db'.row) = Known(Opened.row) \cup Range(Specs[v]) /\ db'.row # NoRow
            /\ Active(db'.row) = (Active(Opened.row) \cup (Range(Specs[v]) \ Known(Opened.row)))
                                   \cap Range(Specs[v])
        BY <3>1, <3>3, ReconciledEffect, ZenonT(60)
      <4>. QED BY <4>1
    <3>. QED BY <1>2, <3>2, <3>3, OpenEffect
  <2>4. Remembers(Opened.row, newest)
    BY OpenedEffect DEF Remembers, MemoryInv
  <2>5. Remembers(db'.row, newest')
    <3>1. CASE db'.row = Opened.row
      BY <2>2, <2>4, <3>1 DEF Remembers
    <3>2. CASE /\ Active(db'.row) \subseteq Active(Opened.row) \cup Range(Specs[v])
               /\ Known(db'.row) = Known(Opened.row) \cup Range(Specs[v])
      <4>1. /\ Active(Opened.row) \subseteq Known(Opened.row)
            /\ \A n \in Known(Opened.row) :
                 \E w \in Versions : w <= newest' /\ n \in Range(Specs[w])
        BY <2>2, <2>4, OpenedEffect DEF Remembers
      <4>2. \A n \in Range(Specs[v]) : \E w \in Versions : w <= newest' /\ n \in Range(Specs[w])
        BY <2>1
      <4>. QED BY <3>2, <4>1, <4>2 DEF Remembers
    <3>. QED BY <2>3, <3>1, <3>2
  <2>6. cache # NoRow => Known(cache) \subseteq Known(db'.row)
    <3>. SUFFICES ASSUME cache # NoRow PROVE Known(cache) \subseteq Known(db'.row)
      OBVIOUS
    <3>1. Opened = db
      BY OpenedEffect DEF TypeInv
    <3>. QED BY <2>3, <3>1 DEF MemoryInv
  <2>7. ~wentBack' => handle' = newest'
    <3>1. ~wentBack' => ~(v < newest)
      BY <1>2, OpenEffect
    <3>2. newest \in Nat /\ v \in Nat
      BY VersionsAssumption DEF TypeInv
    <3>. QED BY <1>2, <3>1, <3>2, OpenEffect
  <2>. QED BY <2>1, <2>2, <2>5, <2>6, <2>7 DEF MemoryInv
<1>3. CASE Operate
  <2>1. /\ UNCHANGED <<saved, newest, wentBack, handle>> /\ db'.row = db.row /\ cache' # NoRow /\ Live # NoRow
        /\ Known(cache') = Known(Live) /\ Active(cache') = Active(Live)
    BY <1>3, SameIndexes
  <2>2. Remembers(Live, newest) /\ Known(Live) \subseteq Known(db.row)
    BY DEF MemoryInv, Live
  <2>. QED BY <2>1, <2>2 DEF MemoryInv, Remembers
<1>4. CASE Commit
  <2>1. /\ db'.row = Live /\ saved'.row = Live /\ cache' = NoRow /\ newest' = newest
        /\ handle' = NoVersion
    BY <1>4, FlushedEffect DEF Commit, Closed
  <2>2. Remembers(Live, newest)
    BY DEF MemoryInv, Live
  <2>. QED BY <2>1, <2>2 DEF MemoryInv, Remembers
<1>5. CASE Rollback \/ Restart
  BY <1>5 DEF Rollback, Restart, Closed, MemoryInv, Remembers
<1>6. CASE UNCHANGED vars
  BY <1>6 DEF vars, history, MemoryInv, Remembers
<1>. QED BY <1>1, <1>2, <1>3, <1>4, <1>5, <1>6 DEF Next

\* Every descriptor remembers only what versions used so far have declared.
LEMMA MemoryInvariant == Spec => []MemoryInv
<1>1. Init => MemoryInv
  BY DEF Init, Empty, MemoryInv, Remembers
<1>. QED BY <1>1, MemoryStep, TypeInvariant, PTL DEF Spec

\* While versions only go up, the newest one is the one in use, the one that
\* was reconciled last, and nothing it declares was dropped before.
LEMMA DeclaredStep ==
  ASSUME NoRevival
  PROVE  TypeInv /\ MemoryInv /\ DeclaredInv /\ [Next]_vars => DeclaredInv'
<1>. SUFFICES ASSUME TypeInv, MemoryInv, DeclaredInv, [Next]_vars PROVE DeclaredInv'
  OBVIOUS
<1>0. newest \in Nat /\ Versions \subseteq Nat
  BY VersionsAssumption DEF TypeInv
<1>1. CASE Begin
  BY <1>1 DEF Begin, DeclaredInv, Buried, history
<1>2. ASSUME NEW v \in Versions, OpenCollection(v) PROVE DeclaredInv'
  <2>. DEFINE new == Range(Specs[v]) \ Known(Opened.row)
  <2>1. UNCHANGED <<saved, cache, shared>> /\ handle' = v /\ v <= newest' /\ newest <= newest'
        /\ newest' \in Nat
    BY <1>0, <1>2, OpenEffect
  <2>2. ~wentBack' => ~wentBack /\ newest' = v
    <3>1. wentBack' = (wentBack \/ v < newest) /\ newest' = IF v > newest THEN v ELSE newest
      BY <1>2, OpenEffect
    <3>2. ~wentBack' => ~wentBack /\ ~(v < newest)
      BY <3>1
    <3>3. ~(v < newest) => newest' = v
      BY <1>0, <3>1
    <3>. QED BY <3>2, <3>3, Zenon
  <2>3. ASSUME NEW d, Buried(d, newest, wentBack) PROVE Buried(d, newest', wentBack')
    BY <1>0, <2>1, <2>2, <2>3 DEF Buried
  <2>4. Buried(Opened.row, newest, wentBack) /\ Opened.row # NoRow
    BY OpenedEffect DEF Buried, DeclaredInv
  <2>5. CASE v \in staged \cup shared
    <3>1. db' = Opened /\ Opened = db /\ UNCHANGED <<staged, behind>>
      BY <1>2, <2>5, OpenEffect, OpenedEffect DEF TypeInv
    <3>2. v <= newest
      BY <2>5 DEF DeclaredInv
    <3>3. newest' = newest
      BY <1>0, <1>2, <3>2, OpenEffect
    <3>. QED BY <2>1, <2>2, <2>3, <2>5, <3>1, <3>3 DEF DeclaredInv
  <2>6. CASE v \notin staged \cup shared
    <3>1. /\ db' = Reconciled(Opened, Specs[v])
          /\ staged' = staged \cup {v} /\ behind' = (behind \/ cache # NoRow)
      BY <1>2, <2>6, OpenEffect
    <3>2. /\ db'.row # NoRow
          /\ Known(db'.row) = Known(Opened.row) \cup Range(Specs[v])
          /\ Active(db'.row) = (Active(Opened.row) \cup new) \cap Range(Specs[v])
      BY <3>1, OpenedEffect, ReconciledEffect
    <3>3. Remembers(Opened.row, newest)
      BY OpenedEffect DEF Remembers, MemoryInv
    <3>4. ASSUME ~wentBack', NEW n \in Known(db'.row) \ Active(db'.row)
          PROVE  \E u, w \in Versions : u < w /\ w <= newest'
                   /\ n \in Range(Specs[u]) /\ n \notin Range(Specs[w])
      <4>1. n \in Known(Opened.row)
        BY <3>2, <3>4
      <4>2. CASE n \notin Active(Opened.row)
        BY <2>3, <2>4, <3>4, <4>1, <4>2 DEF Buried
      <4>3. CASE n \in Active(Opened.row)
        <5>1. n \notin Range(Specs[v])
          BY <3>2, <3>4, <4>3
        <5>2. PICK u \in Versions : u <= newest /\ n \in Range(Specs[u])
          BY <2>4, <3>3, <4>1 DEF Remembers
        <5>3. u < v
          BY <1>0, <2>1, <2>2, <3>4, <5>1, <5>2
        <5>. QED BY <2>1, <5>1, <5>2, <5>3
      <4>. QED BY <4>2, <4>3
    <3>5. Buried(db'.row, newest', wentBack')
      BY <3>4 DEF Buried
    <3>6. ~wentBack' => Range(Specs[v]) \subseteq Active(db'.row)
      <4>. SUFFICES ASSUME ~wentBack', NEW n \in Range(Specs[v]), n \notin Active(db'.row)
                    PROVE  FALSE
        OBVIOUS
      <4>1. n \in Known(Opened.row) \ Active(Opened.row)
        BY <3>2
      <4>2. PICK u, w \in Versions : /\ u < w /\ w <= newest
                                     /\ n \in Range(Specs[u]) /\ n \notin Range(Specs[w])
        BY <2>2, <2>4, <4>1 DEF Buried
      <4>3. w < v
        BY <1>0, <2>1, <2>2, <4>2
      <4>. QED BY <4>2, <4>3 DEF NoRevival
    <3>7. ~behind' => cache = NoRow
      BY <3>1
    <3>8. \A w \in staged' \cup shared' : w <= newest'
      <4>1. \A w \in staged \cup shared : w <= newest /\ w \in Nat
        BY <1>0 DEF DeclaredInv, TypeInv
      <4>. QED BY <1>0, <2>1, <3>1, <4>1
    <3>9. Buried(saved.row, newest', wentBack') /\ Buried(cache, newest', wentBack')
      BY <2>1, <2>3 DEF DeclaredInv
    <3>10. ~wentBack' /\ newest' \in shared' => FALSE
      BY <2>1, <2>2, <2>6
    <3>. QED BY <2>1, <2>2, <3>1, <3>5, <3>6, <3>7, <3>8, <3>9, <3>10 DEF DeclaredInv
  <2>. QED BY <2>5, <2>6
<1>3. CASE Operate
  <2>1. /\ UNCHANGED <<saved, handle, staged, shared, newest, wentBack, behind>>
        /\ db'.row = db.row /\ cache' # NoRow /\ Live # NoRow
        /\ cache'.place = Live.place /\ cache'.active = Live.active
        /\ Known(cache') = Known(Live) /\ Active(cache') = Active(Live)
    BY <1>3, SameIndexes
  <2>2. Buried(Live, newest, wentBack)
    BY DEF DeclaredInv, Live
  <2>3. ~behind => Live.place = db.row.place /\ Live.active = db.row.active
    BY DEF DeclaredInv, Live
  <2>4. /\ Buried(cache', newest', wentBack') /\ Buried(db'.row, newest', wentBack')
        /\ Buried(saved'.row, newest', wentBack')
    BY <2>1, <2>2 DEF Buried, DeclaredInv
  <2>. QED BY <2>1, <2>3, <2>4 DEF DeclaredInv
<1>4. CASE Commit
  <2>1. /\ db'.row = Live /\ saved'.row = Live /\ cache' = NoRow /\ staged' = {}
        /\ shared' = shared \cup staged /\ handle' = NoVersion
        /\ UNCHANGED <<newest, wentBack, behind>>
    BY <1>4, FlushedEffect DEF Commit, Closed
  <2>2. Buried(Live, newest, wentBack)
    BY DEF DeclaredInv, Live
  <2>3. ~behind => Active(Live) = Active(db.row)
    BY DEF DeclaredInv, Live, Active
  <2>4. /\ Buried(cache', newest', wentBack') /\ Buried(db'.row, newest', wentBack')
        /\ Buried(saved'.row, newest', wentBack')
    BY <2>1, <2>2 DEF Buried
  <2>. QED BY <2>1, <2>3, <2>4 DEF DeclaredInv
<1>5. CASE Rollback \/ Restart
  <2>1. /\ db' = saved /\ saved' = saved /\ cache' = NoRow /\ staged' = {}
        /\ handle' = NoVersion /\ UNCHANGED <<newest, wentBack>>
        /\ (shared' = shared /\ behind' = behind) \/ shared' = {}
    BY <1>5 DEF Rollback, Restart, Closed
  <2>2. /\ Buried(cache', newest', wentBack') /\ Buried(db'.row, newest', wentBack')
        /\ Buried(saved'.row, newest', wentBack')
    BY <2>1 DEF Buried, DeclaredInv
  <2>. QED BY <2>1, <2>2 DEF DeclaredInv
<1>6. CASE UNCHANGED vars
  BY <1>6 DEF vars, history, DeclaredInv, Buried
<1>. QED BY <1>1, <1>2, <1>3, <1>4, <1>5, <1>6 DEF Next

\* "Index ADDITION is fully correct" (reconcile_indexes_once, the skip-cache,
\* promote_reconciled, flush_descriptors): an index that the handle's version
\* declares is Active for its operations, if versions only go up, no
\* reconciliation ran behind a cached descriptor, and no version declares what
\* one before it dropped, which declare_index would leave DroppedPending.
THEOREM DeclaredActive ==
  ASSUME NoRevival
  PROVE  Spec => []DeclaredIsActive
<1>1. Init => DeclaredInv
  BY DEF Init, Empty, DeclaredInv, Buried
<1>2. MemoryInv /\ DeclaredInv => DeclaredIsActive
  BY DEF DeclaredInv, MemoryInv, DeclaredIsActive, AddedIsActive, Live, Active
<1>3. TypeInv /\ MemoryInv /\ DeclaredInv /\ [Next]_vars => DeclaredInv'
  BY DeclaredStep
<1>. QED BY <1>1, <1>2, <1>3, MemoryInvariant, TypeInvariant, PTL DEF Spec

-----------------------------------------------------------------------------
(* One index and one write.                                                *)

\* The keys that index n ought to have of id.
Held(b, n, id) == IF b.docs[id] = NoDoc THEN {} ELSE Keys[n][b.docs[id].doc]

\* An entry that ought to be there, as a pair.
LEMMA ExpectedPairs ==
  ASSUME NEW b, NEW n, NEW k \in KeyVals, NEW id \in Ids
  PROVE  <<k, id>> \in Expected(b, n) <=> k \in Held(b, n, id)
  BY DEF Expected, Held

\* An entry that is there after the diff, as a pair.
DiffedTo(n, tree, old, new, id, after) ==
  \A k, j : <<k, j>> \in after <=>
    IF n \in Unique
    THEN IF old = new THEN <<k, j>> \in tree
         ELSE (<<k, j>> \in tree /\ k \notin old) \/ (j = id /\ k \in new)
    ELSE (<<k, j>> \in tree /\ ~(j = id /\ k \in old \ new))
         \/ (j = id /\ k \in new \ old)

\* Diffed is such a tree.
LEMMA DiffedPairs ==
  ASSUME NEW n, NEW tree, NEW old, NEW new, NEW id
  PROVE  DiffedTo(n, tree, old, new, id, Diffed(n, tree, old, new, id))
<1>. SUFFICES ASSUME NEW k, NEW j
     PROVE  <<k, j>> \in Diffed(n, tree, old, new, id) <=>
              IF n \in Unique
              THEN IF old = new THEN <<k, j>> \in tree
                   ELSE (<<k, j>> \in tree /\ k \notin old) \/ (j = id /\ k \in new)
              ELSE (<<k, j>> \in tree /\ ~(j = id /\ k \in old \ new))
                   \/ (j = id /\ k \in new \ old)
  BY DEF DiffedTo
<1>1. CASE n \in Unique /\ old = new
  BY <1>1 DEF Diffed
<1>2. CASE n \in Unique /\ old # new
  <2>1. Diffed(n, tree, old, new, id) =
          {e \in tree : e[1] \notin old} \cup {<<m, id>> : m \in new}
    BY <1>2 DEF Diffed
  <2>2. <<k, j>> \in {<<m, id>> : m \in new} <=> j = id /\ k \in new
    OBVIOUS
  <2>3. <<k, j>> \in {e \in tree : e[1] \notin old} <=> <<k, j>> \in tree /\ k \notin old
    OBVIOUS
  <2>. QED BY <1>2, <2>1, <2>2, <2>3
<1>3. CASE n \notin Unique
  <2>1. Diffed(n, tree, old, new, id) =
          (tree \ {<<m, id>> : m \in old \ new}) \cup {<<m, id>> : m \in new \ old}
    BY <1>3 DEF Diffed
  <2>2. \A M : <<k, j>> \in {<<m, id>> : m \in M} <=> j = id /\ k \in M
    OBVIOUS
  <2>. QED BY <1>3, <2>1, <2>2
<1>. QED BY <1>1, <1>2, <1>3

\* Follows, said of pairs.
LEMMA FollowsPairs ==
  ASSUME NEW b \in Database, NEW n \in Names, NEW last
  PROVE  Follows(b, n, last) <=>
           /\ \A k \in KeyVals, id \in Ids :
                <<k, id>> \in b.entries[n] => k \in Held(b, n, id)
           /\ n \in b.full => \A k \in KeyVals, id \in Ids :
                k \in Held(b, n, id) => <<k, id>> \in b.entries[n]
           /\ n \in b.full \cap Unique => \A i, j \in Ids :
                i # j => Held(b, n, i) \cap Held(b, n, j) = {}
           /\ n \notin Steady => \A id \in Ids : b.docs[id] # NoDoc /\ b.docs[id].ver # last =>
                n \notin b.full /\ \A k \in KeyVals : <<k, id>> \notin b.entries[n]
<1>1. b.entries[n] \subseteq KeyVals \X Ids /\ Expected(b, n) \subseteq KeyVals \X Ids
  BY DEF Database, Expected
<1>2. ASSUME NEW A \in SUBSET (KeyVals \X Ids), NEW B
      PROVE  A \subseteq B <=> \A k \in KeyVals, id \in Ids : <<k, id>> \in A => <<k, id>> \in B
  OBVIOUS
<1>3. b.entries[n] \subseteq Expected(b, n) <=>
        \A k \in KeyVals, id \in Ids : <<k, id>> \in b.entries[n] => k \in Held(b, n, id)
  BY <1>1, <1>2, ExpectedPairs
<1>4. Expected(b, n) \subseteq b.entries[n] <=>
        \A k \in KeyVals, id \in Ids : k \in Held(b, n, id) => <<k, id>> \in b.entries[n]
  BY <1>1, <1>2, ExpectedPairs
<1>5. Distinct(b, n) <=> \A i, j \in Ids : i # j => Held(b, n, i) \cap Held(b, n, j) = {}
  BY DEF Distinct, Held
<1>. QED BY <1>3, <1>4, <1>5, Zenon DEF Follows

\* An index follows as long as neither it nor the documents change.
LEMMA FollowsSame ==
  ASSUME NEW b, NEW c, NEW n, NEW last, Follows(b, n, last),
         c.docs = b.docs, c.entries[n] = b.entries[n], n \in c.full <=> n \in b.full
  PROVE  Follows(c, n, last)
<1>1. Expected(c, n) = Expected(b, n)
  BY DEF Expected
<1>2. Distinct(c, n) <=> Distinct(b, n)
  BY DEF Distinct
<1>. QED BY <1>1, <1>2 DEF Follows

\* maintain_index_from_keys: when the old keys are those of the document that
\* is replaced, or it has none in this index, the index follows the new one.
LEMMA DiffFollows ==
  ASSUME NEW b \in Database, NEW c \in Database, NEW n \in Names, NEW id \in Ids,
         NEW rec, NEW old, NEW new, NEW last,
         c.docs = [b.docs EXCEPT ![id] = rec], c.full = b.full,
         c.entries[n] = Diffed(n, b.entries[n], old, new, id),
         ~Taken(n, b.entries[n], old, new, id),
         Follows(b, n, last),
         new = IF rec = NoDoc THEN {} ELSE Keys[n][rec.doc],
         \/ old = Held(b, n, id)
         \/ b.docs[id] # NoDoc /\ n \notin Steady /\ b.docs[id].ver # last,
         rec # NoDoc => n \in Steady \/ rec.ver = last
  PROVE  Follows(c, n, last)
<1>1. \A j \in Ids : /\ Held(c, n, j) = IF j = id THEN new ELSE Held(b, n, j)
                     /\ j # id => c.docs[j] = b.docs[j]
  BY DEF Held, Database
<1>2. c.docs[id] = rec
  BY DEF Database
<1>. DEFINE tree == b.entries[n]
<1>3. /\ \A k \in KeyVals, j \in Ids : <<k, j>> \in tree => k \in Held(b, n, j)
      /\ n \in b.full => \A k \in KeyVals, j \in Ids : k \in Held(b, n, j) => <<k, j>> \in tree
      /\ n \in b.full \cap Unique => \A i, j \in Ids :
           i # j => Held(b, n, i) \cap Held(b, n, j) = {}
      /\ n \notin Steady => \A j \in Ids : b.docs[j] # NoDoc /\ b.docs[j].ver # last =>
           n \notin b.full /\ \A k \in KeyVals : <<k, j>> \notin tree
  BY FollowsPairs
<1>4. DiffedTo(n, tree, old, new, id, c.entries[n])
  BY DiffedPairs
<1>5. n \in Unique /\ old # new => \A k, j : <<k, j>> \in tree /\ k \in new => j = id
  BY DEF Taken
<1>6. \A j \in Ids : Held(b, n, j) \subseteq KeyVals
  BY KeysType DEF Held, Database, Stored
<1>. HIDE DEF tree
<1>7. CASE old = Held(b, n, id)
  <2>1. \A k \in KeyVals, j \in Ids : <<k, j>> \in c.entries[n] => k \in Held(c, n, j)
    BY <1>1, <1>3, <1>4, <1>7 DEF DiffedTo
  <2>2. n \in b.full => \A k \in KeyVals, j \in Ids :
          k \in Held(c, n, j) => <<k, j>> \in c.entries[n]
    <3>. SUFFICES ASSUME n \in b.full, NEW k \in KeyVals, NEW j \in Ids, k \in Held(c, n, j)
                  PROVE  <<k, j>> \in c.entries[n]
      OBVIOUS
    <3>1. CASE j = id
      <4>1. k \in new
        BY <1>1, <3>1
      <4>2. k \in old => <<k, j>> \in tree
        BY <1>3, <1>7, <3>1
      <4>. QED BY <1>4, <3>1, <4>1, <4>2 DEF DiffedTo
    <3>2. CASE j # id
      <4>1. k \in Held(b, n, j) /\ <<k, j>> \in tree
        BY <1>1, <1>3, <3>2
      <4>2. n \in Unique => k \notin old
        BY <1>3, <1>7, <3>2, <4>1
      <4>. QED BY <1>4, <3>2, <4>1, <4>2 DEF DiffedTo
    <3>. QED BY <3>1, <3>2
  <2>3. ASSUME n \in b.full \cap Unique, NEW j \in Ids, j # id
        PROVE  Held(c, n, j) \cap Held(c, n, id) = {}
    <3>1. CASE old = new
      BY <1>1, <1>3, <1>7, <2>3, <3>1
    <3>2. CASE old # new
      <4>1. ASSUME NEW k \in Held(b, n, j) PROVE k \notin new
        BY <1>3, <1>5, <1>6, <2>3, <3>2, <4>1
      <4>. QED BY <1>1, <2>3, <4>1
    <3>. QED BY <3>1, <3>2
  <2>4. n \in b.full \cap Unique => \A i, j \in Ids :
          i # j => Held(c, n, i) \cap Held(c, n, j) = {}
    <3>. SUFFICES ASSUME n \in b.full \cap Unique, NEW i \in Ids, NEW j \in Ids, i # j
                  PROVE  Held(c, n, i) \cap Held(c, n, j) = {}
      OBVIOUS
    <3>1. CASE i = id \/ j = id
      BY <2>3, <3>1
    <3>2. CASE i # id /\ j # id
      BY <1>1, <1>3, <3>2
    <3>. QED BY <3>1, <3>2
  <2>5. n \notin Steady => \A j \in Ids : c.docs[j] # NoDoc /\ c.docs[j].ver # last =>
          n \notin b.full /\ \A k \in KeyVals : <<k, j>> \notin c.entries[n]
    BY <1>1, <1>2, <1>3, <1>4 DEF DiffedTo
  <2>. QED BY <2>1, <2>2, <2>4, <2>5, FollowsPairs
<1>8. CASE b.docs[id] # NoDoc /\ n \notin Steady /\ b.docs[id].ver # last
  <2>1. n \notin b.full /\ \A k \in KeyVals : <<k, id>> \notin tree
    BY <1>3, <1>8
  <2>2. \A k \in KeyVals, j \in Ids : <<k, j>> \in c.entries[n] => k \in Held(c, n, j)
    BY <1>1, <1>3, <1>4, <2>1 DEF DiffedTo
  <2>3. \A j \in Ids : c.docs[j] # NoDoc /\ c.docs[j].ver # last =>
          \A k \in KeyVals : <<k, j>> \notin c.entries[n]
    BY <1>1, <1>2, <1>3, <1>4, <1>8 DEF DiffedTo
  <2>. QED BY <2>1, <2>2, <2>3, FollowsPairs
<1>. QED BY <1>7, <1>8

-----------------------------------------------------------------------------
(* The indexes agree with the documents.                                   *)

\* An index whose keys migration may change is declared by no version before
\* the last there is.
LEMMA UnsteadyIsLast ==
  ASSUME NEW d \in Descriptor, NEW last \in Nat, Remembers(d, last),
         NEW n \in Known(d), n \notin Steady, NEW v \in Versions
  PROVE  v <= last
<1>1. d # NoRow
  BY NothingAssumption
<1>2. PICK u \in Versions : u <= last /\ n \in Range(Specs[u])
  BY <1>1 DEF Remembers
<1>3. Versions \subseteq Nat
  BY VersionsAssumption
<1>4. ~(u < v)
  <2>. SUFFICES ASSUME u < v PROVE n \in Steady
    OBVIOUS
  <2>1. PICK i \in DOMAIN Specs[u] : Specs[u][i] = n
    BY <1>2 DEF Range
  <2>2. \A doc \in Docs : Keys[n][Migrate[doc]] = Keys[n][doc]
    BY <2>1, MigrateAssumption
  <2>3. n \in Names
    BY <1>2, SpecsType
  <2>. QED BY <2>2, <2>3 DEF Steady
<1>. QED BY <1>2, <1>3, <1>4

\* Opening a collection under another version leaves what follows following.
LEMMA LaterFollows ==
  ASSUME NEW b \in Database, NEW d \in Descriptor \cup {NoRow},
         NEW last \in Nat, NEW next, next = last \/ next \in Versions,
         NEW back \in BOOLEAN, NEW back2 \in BOOLEAN,
         last <= next, back => back2, Remembers(d, last), AllFollow(b, d, last, back)
  PROVE  AllFollow(b, d, next, back2)
<1>. SUFFICES ASSUME d # NoRow, ~b.neglected, NEW n \in Active(d), n \in Steady \/ ~back2
              PROVE  Follows(b, n, next)
  BY DEF AllFollow
<1>1. Follows(b, n, last) /\ n \in Known(d)
  BY DEF AllFollow, Remembers
<1>2. CASE n \in Steady
  BY <1>1, <1>2 DEF Follows
<1>3. CASE n \notin Steady
  <2>1. next \in Nat
    BY VersionsAssumption
  <2>2. next = last
    BY <1>1, <1>3, <2>1, UnsteadyIsLast
  <2>. QED BY <1>1, <2>2
<1>. QED BY <1>2, <1>3

\* The indexes a reconciliation leaves Active: those that were, and empty ones.
LEMMA ReconciledFollow ==
  ASSUME NEW b \in Database, b.row # NoRow, NEW v \in Versions,
         NEW last, NEW back, NEW d,
         d # NoRow => \A n \in Active(d) : n \in Known(b.row),
         AllFollow(b, d, last, back)
  PROVE  LET c == Reconciled(b, Specs[v])
         IN  /\ AllFollow(c, d, last, back)
             /\ d = b.row => AllFollow(c, c.row, last, back)
<1>. DEFINE c == Reconciled(b, Specs[v])
            new == Range(Specs[v]) \ Known(b.row)
<1>1. /\ c \in Database /\ c.row # NoRow
      /\ Active(c.row) = (Active(b.row) \cup new) \cap Range(Specs[v])
      /\ c.docs = b.docs /\ c.neglected = b.neglected
      /\ \A n \in Names : c.entries[n] = IF n \in new THEN {} ELSE b.entries[n]
      /\ \A n \in Names \ new : n \in c.full <=> n \in b.full
      /\ \A n \in new : n \in c.full => \A id \in Ids : b.docs[id] = NoDoc
  <2>1. /\ c \in Database /\ c.row # NoRow
        /\ Active(c.row) = (Active(b.row) \cup new) \cap Range(Specs[v])
        /\ c.docs = b.docs /\ c.neglected = b.neglected
    BY ReconciledEffect
  <2>2. \A n \in Names : c.entries[n] = IF n \in new THEN {} ELSE b.entries[n]
    BY ReconciledEffect
  <2>3. \A n \in Names \ new : n \in c.full <=> n \in b.full
    BY ReconciledEffect
  <2>4. \A n \in new : n \in c.full => \A id \in Ids : b.docs[id] = NoDoc
    BY ReconciledEffect
  <2>. QED BY <2>1, <2>2, <2>3, <2>4
<1>. HIDE DEF c
<1>2. ASSUME d # NoRow, ~c.neglected, NEW n \in Active(d), n \in Steady \/ ~back
      PROVE  Follows(c, n, last)
  <2>1. n \in Known(b.row) /\ Follows(b, n, last)
    BY <1>1, <1>2 DEF AllFollow
  <2>2. n \in Names \ new
    BY <2>1 DEF Known
  <2>3. c.entries[n] = b.entries[n] /\ (n \in c.full <=> n \in b.full)
    BY <1>1, <2>2
  <2>. QED BY <1>1, <2>1, <2>3, FollowsSame
<1>3. ASSUME NEW n \in new PROVE Follows(c, n, last)
  <2>1. n \in Names /\ c.entries[n] = {}
    BY <1>1, SpecsType
  <2>2. n \in c.full => \A id \in Ids : c.docs[id] = NoDoc
    BY <1>1
  <2>. QED BY <1>1, <2>1, <2>2, FollowsPairs DEF Held
<1>4. AllFollow(c, d, last, back)
  BY <1>2 DEF AllFollow
<1>5. d = b.row => AllFollow(c, c.row, last, back)
  BY <1>1, <1>2, <1>3 DEF AllFollow
<1>. QED BY <1>4, <1>5 DEF c

\* A write keeps the Active indexes following, or is neglected.
LEMMA WriteFollows ==
  ASSUME TypeInv, MemoryInv, FollowInv, Operate, NEW d, NEW s, NEW id \in Ids, NEW rec,
         Written(d, s, id, rec)
  PROVE  AllFollow(db', cache', newest, wentBack)
<1>1. /\ cache' = d /\ db' \in Database /\ db'.full = db.full
      /\ rec \in Stored \cup {NoDoc}
      /\ db'.docs = [db.docs EXCEPT ![id] = rec] /\ (db.neglected => db'.neglected)
      /\ rec # NoDoc => rec.ver = handle
      /\ db.docs[id] # NoDoc => Readable(db.docs[id])
  BY DEF Written
<1>2. Live # NoRow /\ Active(cache') = Active(Live) /\ Live \in Descriptor /\ db \in Database
  BY SameIndexes DEF TypeInv
<1>3. handle \in Versions /\ handle # NoVersion
  BY OperateEffect, NothingAssumption
<1>. SUFFICES ASSUME ~db'.neglected, NEW n \in Active(Live), n \in Steady \/ ~wentBack
              PROVE  Follows(db', n, newest)
  BY <1>2 DEF AllFollow
<1>. DEFINE old == OldKeys(db.docs[id])[n]
            new == NewKeys(rec)[n]
<1>4. /\ db'.entries[n] = Diffed(n, db.entries[n], old, new, id)
      /\ ~Taken(n, db.entries[n], old, new, id)
  BY <1>1, <1>2 DEF Written
<1>5. Follows(db, n, newest)
  BY <1>1, <1>2 DEF FollowInv, AllFollow
<1>6. n \in Names
  BY <1>2 DEF Active, Descriptor
<1>7. new = IF rec = NoDoc THEN {} ELSE Keys[n][rec.doc]
  BY <1>6 DEF NewKeys, NoKeys, KeysOf
<1>8. n \notin Steady => handle = newest
  BY <1>3 DEF MemoryInv
<1>9. \/ old = Held(db, n, id)
      \/ db.docs[id] # NoDoc /\ n \notin Steady /\ db.docs[id].ver # newest
  <2>1. CASE db.docs[id] = NoDoc
    BY <1>6, <2>1 DEF OldKeys, NoKeys, Held
  <2>2. CASE db.docs[id] # NoDoc
    <3>. DEFINE r == db.docs[id]
    <3>1. r \in Stored
      BY <1>2, <2>2 DEF Database
    <3>2. old = Keys[n][Seen(r)]
      BY <1>6, <2>2 DEF OldKeys, KeysOf
    <3>3. CASE r.ver = handle
      BY <2>2, <3>2, <3>3 DEF Seen, Decoded, Held
    <3>4. CASE r.ver # handle /\ n \in Steady
      <4>1. Keys[n][Migrate[r.doc]] = Keys[n][r.doc]
        BY <3>1, <3>4 DEF Steady, Stored
      <4>. QED BY <2>2, <3>2, <3>4, <4>1 DEF Seen, Decoded, Held
    <3>5. CASE r.ver # handle /\ n \notin Steady
      BY <1>8, <2>2, <3>5
    <3>. QED BY <3>3, <3>4, <3>5
  <2>. QED BY <2>1, <2>2
<1>10. rec # NoDoc => n \in Steady \/ rec.ver = newest
  BY <1>1, <1>8
<1>. HIDE DEF old, new
<1>. QED BY <1>1, <1>2, <1>4, <1>5, <1>6, <1>7, <1>9, <1>10, DiffFollows

\* The Active indexes keep following the documents.
LEMMA FollowStep == TypeInv /\ MemoryInv /\ FollowInv /\ [Next]_vars => FollowInv'
<1>. SUFFICES ASSUME TypeInv, MemoryInv, FollowInv, [Next]_vars PROVE FollowInv'
  OBVIOUS
<1>1. CASE Begin
  BY <1>1 DEF Begin, FollowInv, Live, history
<1>2. ASSUME NEW v \in Versions, OpenCollection(v) PROVE FollowInv'
  <2>1. /\ UNCHANGED <<saved, cache>>
        /\ newest \in Nat /\ newest <= newest' /\ (newest' = newest \/ newest' \in Versions)
    <3>1. newest \in Nat /\ v \in Nat
      BY VersionsAssumption DEF TypeInv
    <3>. QED BY <1>2, <3>1, OpenEffect
  <2>2. wentBack \in BOOLEAN /\ wentBack' \in BOOLEAN /\ (wentBack => wentBack')
    BY <1>2, OpenEffect DEF TypeInv
  <2>3. AllFollow(saved, saved.row, newest', wentBack')
    <3>1. saved \in Database /\ saved.row \in Descriptor \cup {NoRow}
      BY DEF TypeInv, Database
    <3>2. Remembers(saved.row, newest) /\ AllFollow(saved, saved.row, newest, wentBack)
      BY DEF MemoryInv, FollowInv
    <3>. QED BY <2>1, <2>2, <3>1, <3>2, LaterFollows
  <2>4. AllFollow(db, Live, newest', wentBack')
    <3>1. db \in Database /\ Live \in Descriptor \cup {NoRow}
      BY DEF TypeInv, Database, Live
    <3>2. Remembers(Live, newest) /\ AllFollow(db, Live, newest, wentBack)
      BY DEF MemoryInv, FollowInv, Live
    <3>. QED BY <2>1, <2>2, <3>1, <3>2, LaterFollows
  <2>5. Opened \in Database /\ Opened.row # NoRow
    BY OpenedEffect
  <2>. DEFINE d == IF cache = NoRow THEN Opened.row ELSE cache
  <2>6. AllFollow(Opened, d, newest', wentBack')
    <3>1. CASE db.row # NoRow
      BY <2>4, <3>1, OpenedEffect DEF Live
    <3>2. CASE db.row = NoRow
      <4>1. cache = NoRow /\ Active(Opened.row) = {}
        BY <3>2, OpenedEffect DEF TypeInv
      <4>. QED BY <4>1 DEF AllFollow
    <3>. QED BY <3>1, <3>2
  <2>7. \A n \in Active(d) : n \in Known(Opened.row)
    <3>1. CASE db.row # NoRow
      BY <3>1, OpenedEffect DEF MemoryInv, Remembers
    <3>2. CASE db.row = NoRow
      BY <3>2, OpenedEffect DEF TypeInv
    <3>. QED BY <3>1, <3>2
  <2>8. CASE db' = Opened
    BY <2>1, <2>3, <2>6, <2>8 DEF FollowInv, Live
  <2>9. CASE db' = Reconciled(Opened, Specs[v])
    <3>. DEFINE c == Reconciled(Opened, Specs[v])
    <3>1. /\ AllFollow(c, d, newest', wentBack')
          /\ d = Opened.row => AllFollow(c, c.row, newest', wentBack')
      <4>. HIDE DEF d
      <4>. QED BY <2>5, <2>6, <2>7, ReconciledFollow
    <3>. HIDE DEF c
    <3>2. db' = c
      BY <2>9 DEF c
    <3>3. AllFollow(c, IF cache = NoRow THEN c.row ELSE cache, newest', wentBack')
      BY <3>1
    <3>. QED BY <2>1, <2>3, <3>2, <3>3 DEF FollowInv, Live
  <2>. QED BY <1>2, <2>8, <2>9, OpenEffect
<1>3. CASE Operate
  <2>1. UNCHANGED <<saved, newest, wentBack>> /\ Live' = cache'
    BY <1>3, SameIndexes
  <2>2. AllFollow(db', cache', newest, wentBack)
    <3>1. CASE Failed
      <4>1. /\ db'.docs = db.docs /\ db'.entries = db.entries /\ db'.full = db.full
            /\ db'.neglected = db.neglected
        BY <3>1 DEF Failed, Fails, TypeInv, Database
      <4>2. Active(cache') = Active(Live) /\ Live # NoRow
        BY <1>3, SameIndexes
      <4>. QED BY <4>1, <4>2, FollowsSame DEF FollowInv, AllFollow
    <3>2. CASE ~Failed
      <4>1. PICK d \in {Live, Bumped(Live)}, s \in {db.schemas, WithSchema}, id \in Ids,
                 rec \in Stored \cup {NoDoc} : Written(d, s, id, rec)
        BY <1>3, <3>2, OperateEffect
      <4>. QED BY <1>3, <4>1, WriteFollows
    <3>. QED BY <3>1, <3>2
  <2>. QED BY <2>1, <2>2 DEF FollowInv
<1>4. CASE Commit
  <2>1. /\ db' = Flushed /\ saved' = Flushed /\ Flushed.row = Live /\ cache' = NoRow
        /\ UNCHANGED <<newest, wentBack>>
        /\ Flushed.docs = db.docs /\ Flushed.entries = db.entries /\ Flushed.full = db.full
        /\ Flushed.neglected = db.neglected
    BY <1>4, FlushedEffect DEF Commit, Closed
  <2>2. AllFollow(Flushed, Live, newest, wentBack)
    BY <2>1, FollowsSame DEF FollowInv, AllFollow
  <2>. QED BY <2>1, <2>2 DEF FollowInv, Live
<1>5. CASE Rollback \/ Restart
  BY <1>5 DEF Rollback, Restart, Closed, FollowInv, Live
<1>6. CASE UNCHANGED vars
  BY <1>6 DEF vars, history, FollowInv, Live
<1>. QED BY <1>1, <1>2, <1>3, <1>4, <1>5, <1>6 DEF Next

\* The entries of every Active index follow the documents, in every database.
LEMMA FollowInvariant == Spec => []FollowInv
<1>1. Init => FollowInv
  BY DEF Init, Empty, FollowInv, AllFollow, Live
<1>. QED BY <1>1, FollowStep, MemoryInvariant, TypeInvariant, PTL DEF Spec

\* Secondary indexes follow the primary tree (apply_doc_change,
\* maintain_raw_indexes, Catalog::reconcile_indexes) whatever commits, rolls
\* back, restarts or mixes versions: a committed Active index has no entry too
\* many, and all of them if it was declared on the empty collection.
THEOREM IndexesFollow == Spec => []IndexesAgree
<1>1. FollowInv => IndexesAgree
  BY DEF FollowInv, AllFollow, Follows, IndexesAgree
<1>. QED BY <1>1, FollowInvariant, PTL

\* apply_unique_diff looks at one tree and at the documents that change; no
\* two documents come to share a key of a Unique index that has them all, if
\* migration does not change such keys.
THEOREM UniqueKeysKept ==
  ASSUME Unique \subseteq Steady
  PROVE  Spec => []UniqueKeys
<1>1. FollowInv => UniqueKeys
  BY DEF FollowInv, AllFollow, Follows, Distinct, UniqueKeys
<1>. QED BY <1>1, FollowInvariant, PTL

-----------------------------------------------------------------------------
(* The elements of a finite set in an order.                               *)

\* A function on 1 .. n is a sequence.
LEMMA FcnIsSeq ==
  ASSUME NEW X, NEW n \in Nat, NEW f \in [1 .. n -> X]
  PROVE  f \in Seq(X) /\ Len(f) = n
  OBVIOUS

\* R orders the elements of S.
Orders(R, S) ==
  /\ \A x \in S : <<x, x>> \notin R
  /\ \A x, y, z \in S : <<x, y>> \in R /\ <<y, z>> \in R => <<x, z>> \in R
  /\ \A x, y \in S : x # y => <<x, y>> \in R \/ <<y, x>> \in R

\* s has the elements of S, each once, in the order R.
Enumerates(s, S, R) ==
  /\ s \in Seq(S)
  /\ \A x \in S : \E i \in 1 .. Len(s) : s[i] = x
  /\ \A i, j \in 1 .. Len(s) : i < j => <<s[i], s[j]>> \in R

Below(S, R, p) == {q \in S : <<q, p>> \in R}

\* The sequence of the elements by the number of those below them.
Ordered(S, R) ==
  [i \in 1 .. Cardinality(S) |-> CHOOSE p \in S : Cardinality(Below(S, R, p)) = i - 1]

\* Of two elements the greater one has more below it.
LEMMA BelowGrows ==
  ASSUME NEW S, NEW R, IsFiniteSet(S), Orders(R, S),
         NEW p \in S, NEW q \in S, <<p, q>> \in R
  PROVE  Cardinality(Below(S, R, p)) < Cardinality(Below(S, R, q))
<1>1. Below(S, R, p) \subseteq Below(S, R, q) /\ p \in Below(S, R, q) /\ p \notin Below(S, R, p)
  BY DEF Below, Orders
<1>2. IsFiniteSet(Below(S, R, q)) /\ Cardinality(Below(S, R, q)) \in Nat
  <2>1. Below(S, R, q) \in SUBSET S
    BY DEF Below
  <2> QED BY <2>1, FS_Subset, FS_CardinalityType
<1>3. /\ Cardinality(Below(S, R, p)) \in Nat
      /\ Cardinality(Below(S, R, p)) <= Cardinality(Below(S, R, q))
      /\ Cardinality(Below(S, R, q)) # Cardinality(Below(S, R, p))
  <2>1. Below(S, R, p) \in SUBSET Below(S, R, q) /\ Below(S, R, p) # Below(S, R, q)
    BY <1>1
  <2> QED BY <2>1, <1>2, FS_Subset, FS_CardinalityType
<1> QED BY <1>2, <1>3

\* Every place but the last has an element with that many below it.
LEMMA RanksAreAll ==
  ASSUME NEW S, NEW R, IsFiniteSet(S), Orders(R, S)
  PROVE  /\ Cardinality(S) \in Nat
         /\ \A i \in 1 .. Cardinality(S) :
              \E p \in S : Cardinality(Below(S, R, p)) = i - 1
<1> DEFINE N == Cardinality(S)
           f == [p \in S |-> Cardinality(Below(S, R, p))]
           T == 0 .. N - 1
<1>1. N \in Nat
  BY FS_CardinalityType
<1>2. \A p \in S : Cardinality(Below(S, R, p)) \in T
  <2> TAKE p \in S
  <2>1. Below(S, R, p) \in SUBSET S /\ p \notin Below(S, R, p)
    BY DEF Below, Orders
  <2>2. Below(S, R, p) # S
    BY <2>1
  <2>3. /\ IsFiniteSet(Below(S, R, p)) /\ Cardinality(Below(S, R, p)) <= N
        /\ N # Cardinality(Below(S, R, p))
    BY <2>1, <2>2, FS_Subset
  <2>4. Cardinality(Below(S, R, p)) \in Nat
    BY <2>3, FS_CardinalityType
  <2> QED BY <2>3, <2>4, <1>1
<1>3. f \in Injection(S, T)
  <2>1. f \in [S -> T]
    BY <1>2
  <2>2. \A p, q \in S : f[p] = f[q] => p = q
    <3> SUFFICES ASSUME NEW p \in S, NEW q \in S, f[p] = f[q], p # q PROVE FALSE
      OBVIOUS
    <3>1. f[p] \in T /\ f[q] \in T
      BY <2>1
    <3>2. <<p, q>> \in R \/ <<q, p>> \in R
      BY DEF Orders
    <3>3. f[p] < f[q] \/ f[q] < f[p]
      BY <3>2, BelowGrows
    <3> QED BY <3>1, <3>3, <1>1
  <2> HIDE DEF f
  <2> QED BY <2>1, <2>2 DEF Injection, IsInjective
<1>4. IsFiniteSet(T) /\ Cardinality(T) = N
  <2>1. IsFiniteSet(T) /\ Cardinality(T) = IF 0 > N - 1 THEN 0 ELSE (N - 1) - 0 + 1
    <3> HIDE DEF N
    <3>1. 0 \in Int /\ N - 1 \in Int
      BY <1>1
    <3> QED BY <3>1, FS_Interval
  <2> QED BY <2>1, <1>1
<1>5. f \in Surjection(S, T)
  <2> HIDE DEF f, T
  <2> QED BY <1>3, <1>4, FS_Injection
<1>6. \A t \in T : \E p \in S : f[p] = t
  <2> HIDE DEF f, T
  <2> QED BY <1>5 DEF Surjection
<1>7. ASSUME NEW i \in 1 .. N PROVE \E p \in S : Cardinality(Below(S, R, p)) = i - 1
  <2>1. i - 1 \in T
    BY <1>1
  <2> QED BY <2>1, <1>6
<1> QED BY <1>1, <1>7

\* The elements in the order of their ranks are the set in the order R.
LEMMA OrderedEnumerates ==
  ASSUME NEW S, NEW R, IsFiniteSet(S), Orders(R, S)
  PROVE  /\ Cardinality(S) \in Nat /\ Len(Ordered(S, R)) = Cardinality(S)
         /\ Enumerates(Ordered(S, R), S, R)
<1> DEFINE N == Cardinality(S)
           s == Ordered(S, R)
           Place(p) == Cardinality(Below(S, R, p))
<1>1. N \in Nat
  BY RanksAreAll
<1>2. \A i \in 1 .. N : s[i] \in S /\ Place(s[i]) = i - 1
  <2> TAKE i \in 1 .. N
  <2>1. \E p \in S : Place(p) = i - 1
    BY RanksAreAll
  <2>2. s[i] = CHOOSE p \in S : Place(p) = i - 1
    BY DEF Ordered
  <2> HIDE DEF s, Place
  <2> QED BY <2>1, <2>2
<1>3. s \in Seq(S) /\ Len(s) = N
  <2>1. s = [i \in 1 .. N |-> s[i]]
    BY DEF Ordered
  <2> HIDE DEF s, N, Place
  <2> QED BY <2>1, <1>1, <1>2
<1>4. \A x \in S : \E i \in 1 .. N : s[i] = x
  <2> TAKE x \in S
  <2>1. Place(x) \in Nat /\ Place(x) < N
    <3>1. Below(S, R, x) \in SUBSET S /\ x \notin Below(S, R, x)
      BY DEF Below, Orders
    <3>2. Below(S, R, x) # S
      BY <3>1
    <3>3. /\ IsFiniteSet(Below(S, R, x)) /\ Cardinality(Below(S, R, x)) <= N
          /\ N # Cardinality(Below(S, R, x))
      BY <3>1, <3>2, FS_Subset
    <3>4. Cardinality(Below(S, R, x)) \in Nat
      BY <3>3, FS_CardinalityType
    <3> QED BY <3>3, <3>4, <1>1
  <2>2. Place(x) + 1 \in 1 .. N
    BY <2>1, <1>1
  <2>3. s[Place(x) + 1] \in S /\ Place(s[Place(x) + 1]) = Place(x)
    <3> HIDE DEF s, N, Place
    <3> QED BY <2>1, <2>2, <1>2
  <2>4. s[Place(x) + 1] = x
    <3> SUFFICES ASSUME s[Place(x) + 1] # x PROVE FALSE
      OBVIOUS
    <3> PICK y : y = s[Place(x) + 1]
      OBVIOUS
    <3>1. y \in S /\ y # x /\ Place(y) = Place(x)
      BY <2>3
    <3>2. <<x, y>> \in R \/ <<y, x>> \in R
      BY <3>1 DEF Orders
    <3>3. Place(x) < Place(y) \/ Place(y) < Place(x)
      BY <3>1, <3>2, BelowGrows
    <3> HIDE DEF Place
    <3> QED BY <3>1, <3>3, <2>1
  <2> QED BY <2>2, <2>4
<1>5. \A i, j \in 1 .. N : i < j => <<s[i], s[j]>> \in R
  <2> SUFFICES ASSUME NEW i \in 1 .. N, NEW j \in 1 .. N, i < j PROVE <<s[i], s[j]>> \in R
    OBVIOUS
  <2> PICK p, q : p = s[i] /\ q = s[j]
    OBVIOUS
  <2>1. p \in S /\ q \in S /\ Place(p) = i - 1 /\ Place(q) = j - 1
    BY <1>2
  <2>2. p # q
    <3> HIDE DEF Place
    <3> QED BY <2>1, <1>1
  <2>3. <<q, p>> \notin R
    <3> SUFFICES ASSUME <<q, p>> \in R PROVE FALSE
      OBVIOUS
    <3>1. Place(q) < Place(p)
      BY <2>1, BelowGrows
    <3> HIDE DEF Place
    <3> QED BY <3>1, <2>1, <1>1
  <2>4. <<p, q>> \in R
    BY <2>1, <2>2, <2>3 DEF Orders
  <2> QED BY <2>4
<1> HIDE DEF s, N
<1> QED BY <1>1, <1>3, <1>4, <1>5 DEF Enumerates, s, N

\* There is one such sequence.
LEMMA EnumeratesOnce ==
  ASSUME NEW S, NEW R, Orders(R, S), NEW s, Enumerates(s, S, R)
  PROVE  /\ IsFiniteSet(S) /\ Len(s) \in Nat /\ Cardinality(S) = Len(s)
         /\ s = Ordered(S, R)
<1> DEFINE N == Len(s)
<1>1. N \in Nat /\ s \in [1 .. N -> S]
  BY LenProperties DEF Enumerates
<1>2. \A i, j \in 1 .. N : s[i] = s[j] => i = j
  <2> SUFFICES ASSUME NEW i \in 1 .. N, NEW j \in 1 .. N, i < j, s[i] = s[j] PROVE FALSE
    BY <1>1
  <2>1. <<s[i], s[j]>> \in R /\ s[i] \in S
    BY <1>1 DEF Enumerates
  <2> QED BY <2>1 DEF Orders
<1>3. s \in Bijection(1 .. N, S)
  <2>1. \A x \in S : \E i \in 1 .. N : s[i] = x
    BY DEF Enumerates
  <2> HIDE DEF N
  <2> QED BY <1>1, <1>2, <2>1 DEF Bijection, Injection, IsInjective, Surjection
<1>4. IsFiniteSet(1 .. N) /\ Cardinality(1 .. N) = N
  <2> HIDE DEF N
  <2>1. 1 \in Int /\ N \in Int
    BY <1>1
  <2>2. IsFiniteSet(1 .. N) /\ Cardinality(1 .. N) = IF 1 > N THEN 0 ELSE N - 1 + 1
    BY <2>1, FS_Interval
  <2> QED BY <2>2, <1>1
<1>5. IsFiniteSet(S) /\ Cardinality(S) = N
  <2>1. ExistsBijection(1 .. N, S)
    BY <1>3, Zenon DEF ExistsBijection
  <2> HIDE DEF N
  <2> QED BY <2>1, <1>4, FS_Bijection
<1>6. ASSUME NEW i \in 1 .. N PROVE Cardinality(Below(S, R, s[i])) = i - 1
  <2>1. s[i] \in S
    BY <1>1
  <2>2. \A j \in 1 .. N : <<s[j], s[i]>> \in R <=> j < i
    <3> TAKE j \in 1 .. N
    <3>1. s[j] \in S /\ s[i] \in S
      BY <1>1
    <3>2. j < i => <<s[j], s[i]>> \in R
      BY DEF Enumerates
    <3>3. i < j => <<s[i], s[j]>> \in R
      BY DEF Enumerates
    <3>4. <<s[j], s[i]>> \in R => j # i /\ ~ (i < j)
      BY <3>1, <3>3 DEF Orders
    <3>5. j \in Nat /\ i \in Nat
      BY <1>1
    <3> QED BY <3>2, <3>4, <3>5
  <2>3. Below(S, R, s[i]) = {s[j] : j \in 1 .. i - 1}
    <3>1. \A x \in S : \E j \in 1 .. N : s[j] = x
      BY DEF Enumerates
    <3>2. \A j \in 1 .. i - 1 : j \in 1 .. N /\ j < i
      BY <1>1
    <3>3. \A j \in 1 .. N : j < i => j \in 1 .. i - 1
      BY <1>1
    <3> QED BY <1>1, <2>2, <3>1, <3>2, <3>3, Zenon DEF Below
  <2> DEFINE g == [j \in 1 .. i - 1 |-> s[j]]
             T == {s[j] : j \in 1 .. i - 1}
  <2>4. g \in Bijection(1 .. i - 1, T)
    <3>1. \A j \in 1 .. i - 1 : j \in 1 .. N
      BY <1>1
    <3>2. g \in [1 .. i - 1 -> T] /\ \A j \in 1 .. i - 1 : g[j] = s[j]
      OBVIOUS
    <3>3. \A j, k \in 1 .. i - 1 : g[j] = g[k] => j = k
      BY <3>1, <3>2, <1>2
    <3>4. \A t \in T : \E j \in 1 .. i - 1 : g[j] = t
      BY <3>2
    <3> HIDE DEF g, T
    <3> QED BY <3>2, <3>3, <3>4 DEF Bijection, Injection, IsInjective, Surjection
  <2>5. IsFiniteSet(1 .. i - 1) /\ Cardinality(1 .. i - 1) = i - 1
    <3> HIDE DEF N
    <3>1. 1 \in Int /\ i - 1 \in Int /\ i \in Nat \ {0}
      BY <1>1
    <3>2. IsFiniteSet(1 .. i - 1) /\ Cardinality(1 .. i - 1) = IF 1 > i - 1 THEN 0 ELSE (i - 1) - 1 + 1
      BY <3>1, FS_Interval
    <3> QED BY <3>1, <3>2
  <2>6. ExistsBijection(1 .. i - 1, T)
    BY <2>4, Zenon DEF ExistsBijection
  <2>7. Cardinality(T) = i - 1
    <3> HIDE DEF T
    <3> QED BY <2>5, <2>6, FS_Bijection
  <2> QED BY <2>3, <2>7, Zenon
<1>7. ASSUME NEW i \in 1 .. N PROVE (CHOOSE p \in S : Cardinality(Below(S, R, p)) = i - 1) = s[i]
  <2>1. s[i] \in S /\ Cardinality(Below(S, R, s[i])) = i - 1
    BY <1>1, <1>6
  <2>2. ASSUME NEW p \in S, Cardinality(Below(S, R, p)) = i - 1 PROVE p = s[i]
    <3>1. PICK j \in 1 .. N : s[j] = p
      BY DEF Enumerates
    <3>2. Cardinality(Below(S, R, p)) = j - 1
      BY <3>1, <1>6
    <3>3. j = i
      BY <3>2, <2>2, <1>1
    <3> QED BY <3>1, <3>3
  <2> PICK c : c = CHOOSE p \in S : Cardinality(Below(S, R, p)) = i - 1
    OBVIOUS
  <2>3. c \in S /\ Cardinality(Below(S, R, c)) = i - 1
    BY <2>1, Zenon
  <2>4. c = s[i]
    BY <2>3, <2>2
  <2> QED BY <2>4, Zenon
<1>8. s = Ordered(S, R)
  <2>1. Ordered(S, R) = [i \in 1 .. N |-> s[i]]
    <3>1. Ordered(S, R) = [i \in 1 .. N |-> CHOOSE p \in S : Cardinality(Below(S, R, p)) = i - 1]
      BY <1>5, Zenon DEF Ordered
    <3> HIDE DEF N
    <3> QED BY <3>1, <1>7, Zenon
  <2> HIDE DEF N
  <2> QED BY <2>1, <1>1
<1> QED BY <1>1, <1>5, <1>8

-----------------------------------------------------------------------------
(* The order of stored keys and of ids.                                    *)

Pairs == Nat \X Nat
KeyOrder == {r \in Pairs \X Pairs : Precedes(r[1], r[2])}
Less == {r \in Nat \X Nat : r[1] < r[2]}

\* Stored keys are ordered by key, then by id.
LEMMA KeysOrdered ==
  ASSUME NEW S, S \subseteq Pairs
  PROVE  Orders(KeyOrder, S)
<1>1. \A p, q \in Pairs : <<p, q>> \in KeyOrder <=> Precedes(p, q)
  BY DEF KeyOrder
<1>2. \A p \in Pairs : p[1] \in Nat /\ p[2] \in Nat /\ p = <<p[1], p[2]>>
  BY DEF Pairs
<1>3. \A p \in Pairs : ~ Precedes(p, p)
  BY <1>2 DEF Precedes
<1>4. \A p, q, r \in Pairs : Precedes(p, q) /\ Precedes(q, r) => Precedes(p, r)
  BY <1>2 DEF Precedes
<1>5. \A p, q \in Pairs : p # q => Precedes(p, q) \/ Precedes(q, p)
  BY <1>2 DEF Precedes
<1> QED BY <1>1, <1>3, <1>4, <1>5, Zenon DEF Orders

\* Any set of naturals is ordered by <.
LEMMA NumbersOrdered ==
  ASSUME NEW S, S \subseteq Nat
  PROVE  Orders(Less, S)
<1>1. \A i, j \in Nat : <<i, j>> \in Less <=> i < j
  BY DEF Less
<1>2. /\ \A i \in Nat : ~ (i < i)
      /\ \A i, j, k \in Nat : i < j /\ j < k => i < k
      /\ \A i, j \in Nat : i # j => i < j \/ j < i
  OBVIOUS
<1> QED BY <1>1, <1>2, Zenon DEF Orders

\* InOrder is the one sequence of the stored keys S in order.
LEMMA InOrderIs ==
  ASSUME NEW S, S \subseteq Pairs
  PROVE  InOrder(S) = Ordered(S, KeyOrder)
<1>1. ASSUME NEW p \in S PROVE {q \in S : Precedes(q, p)} = Below(S, KeyOrder, p)
  BY <1>1 DEF Below, KeyOrder
<1> DEFINE A(i) == CHOOSE p \in S : Cardinality({q \in S : Precedes(q, p)}) = i - 1
           B(i) == CHOOSE p \in S : Cardinality(Below(S, KeyOrder, p)) = i - 1
<1>2. ASSUME NEW i \in 1 .. Cardinality(S) PROVE A(i) = B(i)
  <2>1. \A p \in S : Cardinality({q \in S : Precedes(q, p)}) = Cardinality(Below(S, KeyOrder, p))
    BY <1>1, Zenon
  <2> QED BY <2>1, Zenon
<1>3. InOrder(S) = [i \in 1 .. Cardinality(S) |-> A(i)] /\ Ordered(S, KeyOrder) = [i \in 1 .. Cardinality(S) |-> B(i)]
  BY Zenon DEF InOrder, Ordered
<1> HIDE DEF A, B
<1> QED BY <1>2, <1>3

\* IdsInOrder is the order of a set of naturals by <.
LEMMA IdsInOrderIs ==
  ASSUME NEW S, S \subseteq Nat
  PROVE  IdsInOrder(S) = Ordered(S, Less)
<1>1. ASSUME NEW p \in S PROVE {q \in S : q < p} = Below(S, Less, p)
  BY <1>1 DEF Below, Less
<1> DEFINE A(i) == CHOOSE p \in S : Cardinality({q \in S : q < p}) = i - 1
           B(i) == CHOOSE p \in S : Cardinality(Below(S, Less, p)) = i - 1
<1>2. ASSUME NEW i \in 1 .. Cardinality(S) PROVE A(i) = B(i)
  <2>1. \A p \in S : Cardinality({q \in S : q < p}) = Cardinality(Below(S, Less, p))
    BY <1>1, Zenon
  <2> QED BY <2>1, Zenon
<1>3. IdsInOrder(S) = [i \in 1 .. Cardinality(S) |-> A(i)] /\ Ordered(S, Less) = [i \in 1 .. Cardinality(S) |-> B(i)]
  BY Zenon DEF IdsInOrder, NthId, Ordered
<1> HIDE DEF A, B
<1> QED BY <1>2, <1>3

-----------------------------------------------------------------------------
(* Parts of an enumeration.                                                *)

\* What comes behind the first k elements.
Behind(S, R, s, k) == {x \in S : k = 0 \/ <<s[k], x>> \in R}

\* What follows a place of such a sequence enumerates what comes after it.
LEMMA SuffixEnumerates ==
  ASSUME NEW S, NEW R, Orders(R, S), NEW s, Enumerates(s, S, R), NEW k \in 0 .. Len(s)
  PROVE  Enumerates(SubSeq(s, k + 1, Len(s)), Behind(S, R, s, k), R)
<1> DEFINE N == Len(s)
           T == Behind(S, R, s, k)
           t == SubSeq(s, k + 1, N)
<1>1. N \in Nat /\ k \in Nat /\ k <= N /\ s \in [1 .. N -> S] /\ s \in Seq(S)
  BY LenProperties DEF Enumerates
<1>2. \A i \in 1 .. N : s[i] \in T <=> k < i
  <2> TAKE i \in 1 .. N
  <2>1. k # 0 => k \in 1 .. N
    BY <1>1
  <2>2. k # 0 /\ k < i => <<s[k], s[i]>> \in R
    BY <2>1, <1>1 DEF Enumerates
  <2>3. k # 0 /\ i < k => <<s[i], s[k]>> \in R
    BY <2>1, <1>1 DEF Enumerates
  <2>4. k # 0 /\ <<s[k], s[i]>> \in R => i # k /\ ~ (i < k)
    BY <2>1, <2>3, <1>1 DEF Orders
  <2>5. s[i] \in S /\ i \in Nat /\ i >= 1
    BY <1>1
  <2> HIDE DEF N
  <2> QED BY <2>2, <2>4, <2>5, <1>1 DEF Behind
<1>3. t \in Seq(T) /\ Len(t) = N - k /\ \A i \in 1 .. N - k : t[i] = s[k + i]
  <2>1. k + 1 \in Int /\ N \in Int
    BY <1>1
  <2>2. \A i \in k + 1 .. N : s[i] \in T
    BY <1>1, <1>2
  <2> HIDE DEF T, N
  <2>3. /\ t \in Seq(T)
        /\ Len(t) = IF k + 1 <= N THEN N - (k + 1) + 1 ELSE 0
        /\ \A i \in 1 .. N - (k + 1) + 1 : t[i] = s[(k + 1) + i - 1]
    BY <2>1, <2>2, SubSeqProperties
  <2> HIDE DEF t
  <2> QED BY <2>3, <1>1
<1> HIDE DEF T, t, N
<1>4. ASSUME NEW x \in T PROVE \E i \in 1 .. Len(t) : t[i] = x
  <2>1. PICK j \in 1 .. N : s[j] = x
    BY DEF Enumerates, Behind, T, N
  <2>2. k < j
    BY <2>1, <1>2
  <2>3. j - k \in 1 .. Len(t)
    BY <2>2, <1>1, <1>3
  <2>4. t[j - k] = x
    <3>1. j - k \in 1 .. N - k /\ k + (j - k) = j
      BY <2>2, <1>1
    <3>2. t[j - k] = s[k + (j - k)]
      BY <3>1, <1>3, Zenon
    <3> QED BY <3>1, <3>2, <2>1, Zenon
  <2> QED BY <2>3, <2>4
<1>5. ASSUME NEW i \in 1 .. Len(t), NEW j \in 1 .. Len(t), i < j PROVE <<t[i], t[j]>> \in R
  <2>1. k + i \in 1 .. N /\ k + j \in 1 .. N /\ k + i < k + j
    BY <1>1, <1>3, <1>5
  <2>2. t[i] = s[k + i] /\ t[j] = s[k + j]
    BY <1>3
  <2> QED BY <2>1, <2>2 DEF Enumerates, N
<1>6. Enumerates(t, T, R)
  BY <1>3, <1>4, <1>5 DEF Enumerates
<1> QED BY <1>6 DEF t, T, N

\* An enumeration of S followed by one of T, when S comes before T.
LEMMA JoinEnumerates ==
  ASSUME NEW S, NEW T, NEW R, NEW s, NEW t, Enumerates(s, S, R), Enumerates(t, T, R),
         \A x \in S, y \in T : <<x, y>> \in R
  PROVE  Enumerates(s \o t, S \cup T, R)
<1> DEFINE M == Len(s)
           N == Len(t)
           u == s \o t
<1>1. /\ M \in Nat /\ s \in [1 .. M -> S] /\ s \in Seq(S \cup T)
      /\ N \in Nat /\ t \in [1 .. N -> T] /\ t \in Seq(S \cup T)
  BY LenProperties, SeqMonotonic DEF Enumerates
<1>2. /\ u \in Seq(S \cup T) /\ Len(u) = M + N
      /\ \A i \in 1 .. M + N : u[i] = IF i <= M THEN s[i] ELSE t[i - M]
  BY <1>1, ConcatProperties
<1> HIDE DEF u, M, N
<1>3. \A i \in 1 .. M : i \in 1 .. M + N /\ u[i] = s[i]
  BY <1>1, <1>2
<1>4. \A i \in 1 .. N : M + i \in 1 .. M + N /\ u[M + i] = t[i]
  BY <1>1, <1>2
<1>5. ASSUME NEW x \in S \cup T PROVE \E i \in 1 .. M + N : u[i] = x
  <2>1. CASE x \in S
    BY <2>1, <1>3 DEF Enumerates, M
  <2>2. CASE x \in T
    BY <2>2, <1>4 DEF Enumerates, N
  <2> QED BY <2>1, <2>2
<1>6. ASSUME NEW i \in 1 .. M + N, NEW j \in 1 .. M + N, i < j PROVE <<u[i], u[j]>> \in R
  <2>1. CASE j <= M
    <3>1. i \in 1 .. M /\ j \in 1 .. M
      BY <2>1, <1>6, <1>1
    <3> QED BY <3>1, <1>3, <1>6 DEF Enumerates, M
  <2>2. CASE i <= M /\ M < j
    <3>1. i \in 1 .. M /\ j - M \in 1 .. N
      BY <2>2, <1>1
    <3>2. u[i] = s[i] /\ u[j] = t[j - M]
      <4>1. u[i] = s[i]
        BY <3>1, <1>3, Zenon
      <4>2. u[j] = IF j <= M THEN s[j] ELSE t[j - M]
        BY <1>2, <1>6, Zenon
      <4>3. ~ (j <= M)
        BY <2>2, <1>1
      <4> QED BY <4>1, <4>2, <4>3, Zenon
    <3>3. s[i] \in S /\ t[j - M] \in T
      BY <3>1, <1>1
    <3> QED BY <3>2, <3>3
  <2>3. CASE M < i
    <3>1. i - M \in 1 .. N /\ j - M \in 1 .. N /\ i - M < j - M
      BY <2>3, <1>6, <1>1
    <3>2. u[i] = t[i - M] /\ u[j] = t[j - M]
      BY <2>3, <1>2, <1>1, <1>6
    <3> QED BY <3>1, <3>2 DEF Enumerates, N
  <2> QED BY <2>1, <2>2, <2>3, <1>1
<1> QED BY <1>2, <1>5, <1>6 DEF Enumerates, u, M, N

-----------------------------------------------------------------------------
(* Entries whose id is new.                                                *)

IdsOf(es) == {es[i][2] : i \in 1 .. Len(es)}

FirstOnes(es, emitted) ==
  {i \in 1 .. Len(es) : es[i][2] \notin emitted /\ \A j \in 1 .. i - 1 : es[j][2] # es[i][2]}

Picked(es, emitted) == Ordered(FirstOnes(es, emitted), Less)

\* The places of the new ids, in order.
LEMMA PickedEnumerates ==
  ASSUME NEW X, NEW es \in Seq(X), NEW emitted
  PROVE  /\ IsFiniteSet(FirstOnes(es, emitted)) /\ FirstOnes(es, emitted) \subseteq Nat
         /\ Cardinality(FirstOnes(es, emitted)) \in Nat
         /\ Len(Picked(es, emitted)) = Cardinality(FirstOnes(es, emitted))
         /\ Enumerates(Picked(es, emitted), FirstOnes(es, emitted), Less)
<1> DEFINE S == FirstOnes(es, emitted)
<1>1. Len(es) \in Nat /\ S \in SUBSET (1 .. Len(es))
  BY LenProperties DEF FirstOnes
<1>2. IsFiniteSet(1 .. Len(es))
  <2>1. 1 \in Int /\ Len(es) \in Int
    BY <1>1
  <2> QED BY <2>1, FS_Interval
<1>3. IsFiniteSet(S) /\ S \subseteq Nat
  <2>1. IsFiniteSet(S)
    <3> HIDE DEF S
    <3> QED BY <1>1, <1>2, FS_Subset
  <2>2. 1 .. Len(es) \subseteq Nat
    BY <1>1
  <2> HIDE DEF S
  <2> QED BY <2>1, <2>2, <1>1
<1>4. Orders(Less, S)
  <2> HIDE DEF S
  <2> QED BY <1>3, NumbersOrdered
<1>5. /\ Cardinality(S) \in Nat /\ Len(Ordered(S, Less)) = Cardinality(S)
      /\ Enumerates(Ordered(S, Less), S, Less)
  <2> HIDE DEF S
  <2> QED BY <1>3, <1>4, OrderedEnumerates
<1> QED BY <1>3, <1>5 DEF Picked

\* Fresh takes the entries at these places.
LEMMA FreshPicks ==
  ASSUME NEW X, NEW es \in Seq(X), NEW emitted, NEW n \in Each
  PROVE  Fresh(n, es, emitted)
           = [i \in 1 .. Cardinality(FirstOnes(es, emitted)) |-> es[Picked(es, emitted)[i]]]
<1> DEFINE S == FirstOnes(es, emitted)
<1>1. DOMAIN es = 1 .. Len(es) /\ S \subseteq Nat
  BY LenProperties, PickedEnumerates
<1> DEFINE K == {i \in DOMAIN es : /\ es[i][2] \notin emitted
                                   /\ \A j \in 1 .. i - 1 : es[j][2] # es[i][2]}
<1>2. K = S
  BY <1>1, Zenon DEF FirstOnes
<1>8. Fresh(n, es, emitted) = [i \in 1 .. Cardinality(K) |-> es[NthId(K, i)]]
  BY Zenon DEF Fresh, NthId
<1> HIDE DEF S, K
<1> DEFINE A(i) == CHOOSE j \in S : Cardinality({k \in S : k < j}) = i - 1
<1>3. IdsInOrder(S) = [i \in 1 .. Cardinality(S) |-> A(i)]
  BY Zenon DEF IdsInOrder, NthId
<1>4. [i \in 1 .. Cardinality(S) |-> A(i)] = Picked(es, emitted)
  BY <1>1, <1>3, IdsInOrderIs, Zenon DEF Picked, S
<1>9. \A i \in 1 .. Cardinality(S) : NthId(K, i) = A(i)
  BY <1>2, Zenon DEF NthId
<1>5. Fresh(n, es, emitted) = [i \in 1 .. Cardinality(S) |-> es[A(i)]]
  <2> HIDE DEF A
  <2>1. Fresh(n, es, emitted) = [i \in 1 .. Cardinality(S) |-> es[NthId(S, i)]]
    BY <1>2, <1>8, Zenon
  <2>2. \A i \in 1 .. Cardinality(S) : NthId(S, i) = A(i)
    BY <1>2, <1>9, Zenon
  <2> QED BY <2>1, <2>2, Zenon
<1> HIDE DEF A
<1>6. \A i \in 1 .. Cardinality(S) : A(i) = Picked(es, emitted)[i]
  <2> TAKE i \in 1 .. Cardinality(S)
  <2>1. [j \in 1 .. Cardinality(S) |-> A(j)][i] = A(i)
    OBVIOUS
  <2> QED BY <2>1, <1>4, Zenon
<1>7. [i \in 1 .. Cardinality(S) |-> es[A(i)]] = [i \in 1 .. Cardinality(S) |-> es[Picked(es, emitted)[i]]]
  BY <1>6, Zenon
<1> QED BY <1>5, <1>7, Zenon DEF S

\* fs is es without the ids of emitted, each id once, where it is first.
GivesOnce(X, es, emitted, fs) ==
  /\ fs \in Seq(X) /\ Len(fs) \in Nat
  /\ \A i \in 1 .. Len(fs) : \E k \in 1 .. Len(es) : fs[i] = es[k] /\ es[k][2] \notin emitted
  /\ \A i, j \in 1 .. Len(fs) : i < j =>
       fs[i][2] # fs[j][2] /\ \E k, l \in 1 .. Len(es) : k < l /\ fs[i] = es[k] /\ fs[j] = es[l]
  /\ \A k \in 1 .. Len(es) : es[k][2] \notin emitted => \E i \in 1 .. Len(fs) : fs[i][2] = es[k][2]

\* What is fresh: each new id once, at the first entry that has it.
LEMMA FreshGives ==
  ASSUME NEW X, NEW es \in Seq(X), NEW emitted, NEW n \in Each,
         NEW fs, fs = Fresh(n, es, emitted)
  PROVE  GivesOnce(X, es, emitted, fs)
<1> DEFINE S == FirstOnes(es, emitted)
           p == Picked(es, emitted)
           M == Cardinality(S)
<1>1. M \in Nat /\ Len(p) = M /\ S \subseteq 1 .. Len(es) /\ S \subseteq Nat /\ Enumerates(p, S, Less)
  BY PickedEnumerates DEF FirstOnes
<1>2. Len(es) \in Nat /\ es \in [1 .. Len(es) -> X]
  BY LenProperties
<1>3. fs = [i \in 1 .. M |-> es[p[i]]]
  BY FreshPicks
<1>4. \A x \in S : x \in 1 .. Len(es) /\ es[x][2] \notin emitted /\ \A j \in 1 .. x - 1 : es[j][2] # es[x][2]
  BY DEF FirstOnes
<1>5. \A k \in 1 .. Len(es) : es[k][2] \notin emitted => \E x \in S : es[x][2] = es[k][2]
  <2> SUFFICES ASSUME NEW k \in 1 .. Len(es), es[k][2] \notin emitted PROVE \E x \in S : es[x][2] = es[k][2]
    OBVIOUS
  <2> DEFINE T == {j \in 1 .. Len(es) : es[j][2] = es[k][2]}
  <2>1. T \subseteq Nat /\ T # {}
    BY <1>2
  <2>2. PICK m \in T : \A j \in T : m <= j
    <3> HIDE DEF T
    <3> QED BY <2>1, LeastNatural
  <2>3. m \in 1 .. Len(es) /\ es[m][2] = es[k][2]
    OBVIOUS
  <2>4. ASSUME NEW j \in 1 .. m - 1 PROVE es[j][2] # es[m][2]
    <3>1. j \in 1 .. Len(es) /\ ~ (m <= j)
      BY <2>3, <1>2
    <3> QED BY <3>1, <2>2, <2>3
  <2>5. m \in S
    BY <2>3, <2>4 DEF FirstOnes
  <2> QED BY <2>3, <2>5
<1> HIDE DEF S, p, M
<1>6. p \in [1 .. M -> S] /\ \A x \in S : \E i \in 1 .. M : p[i] = x
  BY <1>1, LenProperties DEF Enumerates
<1>7. \A i \in 1 .. M : p[i] \in S /\ fs[i] = es[p[i]]
  BY <1>3, <1>6
<1>8. fs \in Seq(X) /\ Len(fs) = M
  <2>1. fs \in [1 .. M -> X]
    BY <1>3, <1>6, <1>4, <1>2
  <2> QED BY <2>1, <1>1
<1>9. \A i, j \in 1 .. M : i < j => p[i] < p[j]
  BY <1>1 DEF Enumerates, Less
<1>10. ASSUME NEW i \in 1 .. M PROVE \E k \in 1 .. Len(es) : fs[i] = es[k] /\ es[k][2] \notin emitted
  BY <1>7, <1>4
<1>11. ASSUME NEW i \in 1 .. M, NEW j \in 1 .. M, i < j
       PROVE  fs[i][2] # fs[j][2] /\ \E k, l \in 1 .. Len(es) : k < l /\ fs[i] = es[k] /\ fs[j] = es[l]
  <2> PICK k, l : k = p[i] /\ l = p[j]
    OBVIOUS
  <2>1. k \in S /\ l \in S /\ k < l /\ fs[i] = es[k] /\ fs[j] = es[l]
    BY <1>7, <1>9, <1>11
  <2>2. k \in 1 .. Len(es) /\ l \in 1 .. Len(es) /\ k \in 1 .. l - 1
    BY <2>1, <1>1, <1>2
  <2>3. es[k][2] # es[l][2]
    BY <2>1, <2>2, <1>4
  <2> QED BY <2>1, <2>2, <2>3
<1>12. ASSUME NEW k \in 1 .. Len(es), es[k][2] \notin emitted PROVE \E i \in 1 .. M : fs[i][2] = es[k][2]
  <2>1. PICK x \in S : es[x][2] = es[k][2]
    BY <1>5, <1>12
  <2>2. PICK i \in 1 .. M : p[i] = x
    BY <1>6
  <2> QED BY <2>1, <2>2, <1>7
<1> QED BY <1>1, <1>8, <1>10, <1>11, <1>12 DEF GivesOnce

\* No id that is new is lost among the entries given.
LEMMA GivesEvery ==
  ASSUME NEW X, NEW es, NEW emitted, NEW fs, GivesOnce(X, es, emitted, fs),
         NEW k \in 1 .. Len(es), es[k][2] \notin emitted
  PROVE  \E i \in 1 .. Len(fs) : fs[i][2] = es[k][2]
  BY DEF GivesOnce

\* The entries given keep the order of those they are taken from.
LEMMA GivesInOrder ==
  ASSUME NEW X, NEW es, NEW emitted, NEW fs, GivesOnce(X, es, emitted, fs),
         NEW S, NEW R, Enumerates(es, S, R)
  PROVE  \A i, j \in 1 .. Len(fs) : i < j => <<fs[i], fs[j]>> \in R
<1> SUFFICES ASSUME NEW i \in 1 .. Len(fs), NEW j \in 1 .. Len(fs), i < j PROVE <<fs[i], fs[j]>> \in R
  OBVIOUS
<1>1. PICK k, l \in 1 .. Len(es) : k < l /\ fs[i] = es[k] /\ fs[j] = es[l]
  BY DEF GivesOnce
<1>2. <<es[k], es[l]>> \in R
  BY <1>1 DEF Enumerates
<1> QED BY <1>1, <1>2

\* The fresh entries of a sequence are those of a first part and then those
\* of the rest that the first part has not given.
LEMMA FreshJoins ==
  ASSUME NEW X, NEW s \in Seq(X), NEW t \in Seq(X), NEW n \in Names,
         NEW emitted, NEW seen, \A x : x \in seen <=> x \in emitted \/ x \in IdsOf(s)
  PROVE  Fresh(n, s \o t, emitted) = Fresh(n, s, emitted) \o Fresh(n, t, seen)
<1>1. CASE n \notin Each
  BY <1>1 DEF Fresh
<1>2. CASE n \in Each
  <2> DEFINE M == Len(s)
             N == Len(t)
             u == s \o t
             A == FirstOnes(s, emitted)
             B == FirstOnes(t, seen)
             C == FirstOnes(u, emitted)
             a == Picked(s, emitted)
             b == Picked(t, seen)
             D == {M + i : i \in B}
             c == [i \in 1 .. Cardinality(B) |-> M + b[i]]
  <2>1. /\ M \in Nat /\ N \in Nat /\ u \in Seq(X) /\ Len(u) = M + N
        /\ \A i \in 1 .. M + N : u[i] = IF i <= M THEN s[i] ELSE t[i - M]
    BY LenProperties, ConcatProperties
  <2>2. \A i \in 1 .. M : i \in 1 .. M + N /\ u[i] = s[i]
    <3> HIDE DEF u
    <3> QED BY <2>1
  <2>3. \A i \in 1 .. N : M + i \in 1 .. M + N /\ u[M + i] = t[i]
    <3> HIDE DEF u, M, N
    <3> QED BY <2>1
  <2>4. C = A \cup D
    <3>1. ASSUME NEW i \in 1 .. M PROVE i \in C <=> i \in A
      <4>1. \A j \in 1 .. i - 1 : j \in 1 .. M
        BY <2>1
      <4> HIDE DEF u, M, N
      <4>2. (\A j \in 1 .. i - 1 : u[j][2] # u[i][2]) <=> \A j \in 1 .. i - 1 : s[j][2] # s[i][2]
        BY <4>1, <2>2
      <4> QED BY <4>2, <2>1, <2>2, Zenon DEF FirstOnes, M
    <3>2. ASSUME NEW i \in 1 .. N PROVE M + i \in C <=> i \in B
      <4> HIDE DEF u, M, N
      <4>1. (\A j \in 1 .. (M + i) - 1 : u[j][2] # u[M + i][2])
              <=> /\ \A j \in 1 .. M : s[j][2] # t[i][2]
                  /\ \A j \in 1 .. i - 1 : t[j][2] # t[i][2]
        <5>1. ASSUME \A j \in 1 .. (M + i) - 1 : u[j][2] # u[M + i][2]
              PROVE  /\ \A j \in 1 .. M : s[j][2] # t[i][2]
                     /\ \A j \in 1 .. i - 1 : t[j][2] # t[i][2]
          <6>1. \A j \in 1 .. M : j \in 1 .. (M + i) - 1
            BY <2>1
          <6>2. \A j \in 1 .. i - 1 : j \in 1 .. N /\ M + j \in 1 .. (M + i) - 1
            BY <2>1
          <6>3. ASSUME NEW j \in 1 .. M PROVE s[j][2] # t[i][2]
            BY <6>1, <5>1, <2>2, <2>3
          <6>4. ASSUME NEW j \in 1 .. i - 1 PROVE t[j][2] # t[i][2]
            BY <6>2, <5>1, <2>3
          <6> QED BY <6>3, <6>4
        <5>2. ASSUME \A j \in 1 .. M : s[j][2] # t[i][2], \A j \in 1 .. i - 1 : t[j][2] # t[i][2],
                     NEW j \in 1 .. (M + i) - 1
              PROVE  u[j][2] # u[M + i][2]
          <6>1. CASE j <= M
            <7>1. j \in 1 .. M
              BY <6>1
            <7> QED BY <7>1, <5>2, <2>2, <2>3
          <6>2. CASE ~ (j <= M)
            <7> PICK k : k = j - M
              OBVIOUS
            <7>1. k \in 1 .. i - 1 /\ k \in 1 .. N /\ j = M + k
              BY <6>2, <2>1
            <7> QED BY <7>1, <5>2, <2>3
          <6> QED BY <6>1, <6>2
        <5> QED BY <5>1, <5>2
      <4>2. M + i \in 1 .. M + N /\ u[M + i] = t[i]
        BY <2>3
      <4>3. t[i][2] \notin IdsOf(s) <=> \A j \in 1 .. M : s[j][2] # t[i][2]
        BY Zenon DEF IdsOf, M
      <4>4. M + i \in C <=> t[i][2] \notin emitted /\ \A j \in 1 .. (M + i) - 1 : u[j][2] # u[M + i][2]
        BY <4>2, <2>1, Zenon DEF FirstOnes
      <4>5. i \in B <=> t[i][2] \notin seen /\ \A j \in 1 .. i - 1 : t[j][2] # t[i][2]
        BY Zenon DEF FirstOnes, N
      <4> QED BY <4>1, <4>3, <4>4, <4>5, Zenon
    <3>3. A \subseteq 1 .. M /\ B \subseteq 1 .. N /\ C \subseteq 1 .. M + N
      BY <2>1 DEF FirstOnes
    <3>4. \A i \in 1 .. M + N : i \in 1 .. M \/ \E j \in 1 .. N : i = M + j
      <4> TAKE i \in 1 .. M + N
      <4> HIDE DEF M, N
      <4>1. i > M => i - M \in 1 .. N /\ i = M + (i - M)
        BY <2>1
      <4> QED BY <4>1, <2>1
    <3>5. \A i \in 1 .. N : M + i \in 1 .. M + N /\ M + i \notin 1 .. M
      BY <2>1
    <3>6. \A i, j \in 1 .. N : M + i = M + j => i = j
      BY <2>1
    <3>7. D \subseteq 1 .. M + N /\ \A j \in 1 .. N : M + j \in D <=> j \in B
      <4> HIDE DEF A, B, C, M, N
      <4> QED BY <3>3, <3>5, <3>6
    <3>8. \A i \in 1 .. M : i \notin D
      <4> HIDE DEF A, B, C, M, N
      <4> QED BY <3>3, <3>5
    <3>9. \A i \in 1 .. M + N : i \in C <=> i \in A \/ i \in D
      <4> TAKE i \in 1 .. M + N
      <4>1. CASE i \in 1 .. M
        <5> HIDE DEF A, B, C, D, M, N
        <5> QED BY <4>1, <3>1, <3>8
      <4>2. CASE i \notin 1 .. M
        <5> HIDE DEF A, B, C, D, M, N
        <5> PICK j \in 1 .. N : i = M + j
          BY <4>2, <3>4
        <5> QED BY <4>2, <3>2, <3>3, <3>7
      <4> QED BY <4>1, <4>2
    <3>10. 1 .. M \subseteq 1 .. M + N
      BY <2>1
    <3> HIDE DEF A, B, C, D, M, N
    <3> QED BY <3>3, <3>7, <3>9, <3>10
  <2>5. /\ Cardinality(A) \in Nat /\ Len(a) = Cardinality(A) /\ Enumerates(a, A, Less)
        /\ Cardinality(B) \in Nat /\ Len(b) = Cardinality(B) /\ Enumerates(b, B, Less)
        /\ A \subseteq 1 .. M /\ B \subseteq 1 .. N
    BY PickedEnumerates, Zenon DEF FirstOnes
  <2>6. /\ Cardinality(C) \in Nat /\ Enumerates(Picked(u, emitted), C, Less) /\ Len(Picked(u, emitted)) = Cardinality(C)
        /\ C \subseteq Nat
    <3> HIDE DEF u
    <3> QED BY <2>1, PickedEnumerates, Zenon
  <2> HIDE DEF A, B, C, M, N, u, a, b
  <2>7. a \in [1 .. Cardinality(A) -> A] /\ b \in [1 .. Cardinality(B) -> B]
    BY <2>5, LenProperties DEF Enumerates
  <2>8. Enumerates(c, D, Less) /\ Len(c) = Cardinality(B)
    <3>1. c \in [1 .. Cardinality(B) -> D]
      BY <2>7
    <3>2. c \in Seq(D) /\ Len(c) = Cardinality(B)
      <4> HIDE DEF c, D
      <4> QED BY <3>1, <2>5
    <3>3. \A i \in 1 .. Cardinality(B) : c[i] = M + b[i] /\ b[i] \in B /\ b[i] \in Nat
      <4>1. \A i \in 1 .. Cardinality(B) : b[i] \in B
        BY <2>7
      <4>2. \A i \in 1 .. Cardinality(B) : c[i] = M + b[i]
        OBVIOUS
      <4>3. B \subseteq Nat
        BY <2>5, <2>1
      <4> HIDE DEF c
      <4> QED BY <4>1, <4>2, <4>3
    <3>4. ASSUME NEW x \in D PROVE \E i \in 1 .. Cardinality(B) : c[i] = x
      <4>1. PICK y \in B : x = M + y
        OBVIOUS
      <4>2. PICK i \in 1 .. Cardinality(B) : b[i] = y
        BY <2>5 DEF Enumerates
      <4> HIDE DEF c, D
      <4> QED BY <4>1, <4>2, <3>3
    <3>5. ASSUME NEW i \in 1 .. Cardinality(B), NEW j \in 1 .. Cardinality(B), i < j PROVE <<c[i], c[j]>> \in Less
      <4>1. b[i] < b[j]
        BY <3>5, <2>5 DEF Enumerates, Less
      <4>2. c[i] \in Nat /\ c[j] \in Nat /\ c[i] < c[j]
        BY <4>1, <3>3, <2>1, SMTT(60)
      <4> HIDE DEF c
      <4> QED BY <4>2 DEF Less
    <3> HIDE DEF c, D
    <3> QED BY <3>2, <3>4, <3>5 DEF Enumerates
  <2>9. \A x \in A, y \in D : <<x, y>> \in Less
    <3> SUFFICES ASSUME NEW x \in A, NEW z \in B PROVE <<x, M + z>> \in Less
      OBVIOUS
    <3>1. x \in 1 .. M /\ z \in 1 .. N
      BY <2>5
    <3>2. x \in Nat /\ M + z \in Nat /\ x < M + z
      BY <3>1, <2>1
    <3> QED BY <3>2 DEF Less
  <2>10. Enumerates(a \o c, A \cup D, Less)
    <3> HIDE DEF c, D
    <3> QED BY <2>5, <2>8, <2>9, JoinEnumerates
  <2>11. Orders(Less, C)
    BY <2>6, NumbersOrdered
  <2>12. a \o c = Picked(u, emitted) /\ Len(a \o c) = Cardinality(C)
    <3> HIDE DEF c, D
    <3>1. Enumerates(a \o c, C, Less)
      BY <2>10, <2>4
    <3> QED BY <3>1, <2>11, EnumeratesOnce DEF Picked, C
  <2> PICK w : w = a \o c
    OBVIOUS
  <2>13. /\ Cardinality(C) = Cardinality(A) + Cardinality(B)
         /\ \A i \in 1 .. Cardinality(A) + Cardinality(B) :
              w[i] = IF i <= Cardinality(A) THEN a[i] ELSE M + b[i - Cardinality(A)]
    <3>1. a \in Seq(Nat) /\ c \in Seq(Nat)
      <4>1. A \subseteq Nat /\ D \subseteq Nat
        BY <2>5, <2>1
      <4>2. a \in Seq(A) /\ c \in Seq(D)
        BY <2>5, <2>8 DEF Enumerates
      <4> HIDE DEF c, D
      <4> QED BY <4>1, <4>2, SeqMonotonic
    <3>2. \A i \in 1 .. Cardinality(B) : c[i] = M + b[i]
      OBVIOUS
    <3> HIDE DEF c, D
    <3>3. /\ Len(w) = Cardinality(A) + Cardinality(B)
          /\ \A i \in 1 .. Cardinality(A) + Cardinality(B) :
               w[i] = IF i <= Cardinality(A) THEN a[i] ELSE c[i - Cardinality(A)]
      <4>1. /\ Len(a \o c) = Len(a) + Len(c)
            /\ \A i \in 1 .. Len(a) + Len(c) : (a \o c)[i] = IF i <= Len(a) THEN a[i] ELSE c[i - Len(a)]
        BY <3>1, ConcatProperties
      <4>2. Len(a) = Cardinality(A) /\ Len(c) = Cardinality(B)
        BY <2>5, <2>8
      <4> QED BY <4>1, <4>2, Zenon
    <3>4. ASSUME NEW i \in 1 .. Cardinality(A) + Cardinality(B)
          PROVE  w[i] = IF i <= Cardinality(A) THEN a[i] ELSE M + b[i - Cardinality(A)]
      <4>1. ~ (i <= Cardinality(A)) => i - Cardinality(A) \in 1 .. Cardinality(B)
        BY <2>5
      <4> QED BY <4>1, <3>2, <3>3
    <3> QED BY <3>3, <3>4, <2>12
  <2>14. /\ Fresh(n, u, emitted) = [i \in 1 .. Cardinality(C) |-> u[w[i]]]
         /\ Fresh(n, s, emitted) = [i \in 1 .. Cardinality(A) |-> s[a[i]]]
         /\ Fresh(n, t, seen) = [i \in 1 .. Cardinality(B) |-> t[b[i]]]
    <3>1. Fresh(n, u, emitted) = [i \in 1 .. Cardinality(C) |-> u[Picked(u, emitted)[i]]]
      BY <1>2, <2>1, FreshPicks DEF C
    <3>2. Fresh(n, s, emitted) = [i \in 1 .. Cardinality(A) |-> s[a[i]]]
      BY <1>2, FreshPicks DEF A, a
    <3>3. Fresh(n, t, seen) = [i \in 1 .. Cardinality(B) |-> t[b[i]]]
      BY <1>2, FreshPicks DEF B, b
    <3> QED BY <3>1, <3>2, <3>3, <2>12
  <2> DEFINE fu == [i \in 1 .. Cardinality(C) |-> u[w[i]]]
             fs == [i \in 1 .. Cardinality(A) |-> s[a[i]]]
             ft == [i \in 1 .. Cardinality(B) |-> t[b[i]]]
  <2>15. fs \in Seq(X) /\ Len(fs) = Cardinality(A) /\ ft \in Seq(X) /\ Len(ft) = Cardinality(B)
    <3>1. s \in [1 .. M -> X] /\ t \in [1 .. N -> X]
      BY LenProperties DEF M, N
    <3>2. fs \in [1 .. Cardinality(A) -> X] /\ ft \in [1 .. Cardinality(B) -> X]
      BY <3>1, <2>7, <2>5
    <3> HIDE DEF fs, ft
    <3>5. Cardinality(A) \in Nat /\ Cardinality(B) \in Nat
      BY <2>5
    <3>6. fs \in [1 .. Cardinality(A) -> X]
      BY <3>2
    <3>3. fs \in Seq(X) /\ Len(fs) = Cardinality(A)
      BY <3>6, <3>5, FcnIsSeq
    <3>7. ft \in [1 .. Cardinality(B) -> X]
      BY <3>2
    <3>4. ft \in Seq(X) /\ Len(ft) = Cardinality(B)
      BY <3>7, <3>5, FcnIsSeq
    <3> QED BY <3>3, <3>4
  <2>16. \A i \in 1 .. Cardinality(A) : fs[i] = s[a[i]] /\ a[i] \in 1 .. M
    BY <2>7, <2>5
  <2>17. \A i \in 1 .. Cardinality(B) : ft[i] = t[b[i]] /\ b[i] \in 1 .. N
    BY <2>7, <2>5
  <2>18. fu = [i \in 1 .. Cardinality(C) |-> fu[i]] /\ \A i \in 1 .. Cardinality(C) : fu[i] = u[w[i]]
    OBVIOUS
  <2> HIDE DEF fs, ft, fu
  <2>19. /\ fs \o ft = [i \in 1 .. Cardinality(C) |-> (fs \o ft)[i]]
         /\ \A i \in 1 .. Cardinality(C) : (fs \o ft)[i] = IF i <= Cardinality(A) THEN fs[i] ELSE ft[i - Cardinality(A)]
    <3>1. /\ fs \o ft \in Seq(X) /\ Len(fs \o ft) = Cardinality(C)
          /\ \A i \in 1 .. Cardinality(C) : (fs \o ft)[i] = IF i <= Cardinality(A) THEN fs[i] ELSE ft[i - Cardinality(A)]
      <4>1. /\ fs \o ft \in Seq(X) /\ Len(fs \o ft) = Len(fs) + Len(ft)
            /\ \A i \in 1 .. Len(fs) + Len(ft) : (fs \o ft)[i] = IF i <= Len(fs) THEN fs[i] ELSE ft[i - Len(fs)]
        BY <2>15, ConcatProperties
      <4>2. Len(fs) = Cardinality(A) /\ Len(ft) = Cardinality(B) /\ Cardinality(C) = Cardinality(A) + Cardinality(B)
        BY <2>15, <2>13
      <4> QED BY <4>1, <4>2, Zenon
    <3>2. fs \o ft \in [1 .. Cardinality(C) -> X]
      BY <3>1, LenProperties
    <3> QED BY <3>1, <3>2
  <2>20. ASSUME NEW i \in 1 .. Cardinality(C) PROVE fu[i] = (fs \o ft)[i]
    <3>1. CASE i <= Cardinality(A)
      <4>1. i \in 1 .. Cardinality(A) /\ i \in 1 .. Cardinality(A) + Cardinality(B)
        BY <3>1, <2>5, <2>13
      <4>2. w[i] = a[i]
        BY <4>1, <3>1, <2>13
      <4>3. fu[i] = u[a[i]] /\ u[a[i]] = s[a[i]]
        BY <4>1, <4>2, <2>18, <2>16, <2>2
      <4>4. (fs \o ft)[i] = s[a[i]]
        BY <4>1, <3>1, <2>19, <2>16
      <4> QED BY <4>3, <4>4
    <3>2. CASE ~ (i <= Cardinality(A))
      <4> PICK j : j = i - Cardinality(A)
        OBVIOUS
      <4>1. j \in 1 .. Cardinality(B) /\ i \in 1 .. Cardinality(A) + Cardinality(B)
        BY <3>2, <2>5, <2>13
      <4>2. w[i] = M + b[j]
        BY <4>1, <3>2, <2>13
      <4>3. fu[i] = u[M + b[j]] /\ u[M + b[j]] = t[b[j]]
        BY <4>1, <4>2, <2>18, <2>17, <2>3
      <4>4. (fs \o ft)[i] = t[b[j]]
        BY <4>1, <3>2, <2>19, <2>17
      <4> QED BY <4>3, <4>4
    <3> QED BY <3>1, <3>2
  <2>21. fu = fs \o ft
    <3> PICK g : g = fs \o ft
      OBVIOUS
    <3>1. g = [i \in 1 .. Cardinality(C) |-> g[i]] /\ \A i \in 1 .. Cardinality(C) : fu[i] = g[i]
      BY <2>19, <2>20
    <3> QED BY <3>1, <2>18
  <2> QED BY <2>14, <2>21, Zenon DEF fu, fs, ft, u
<1> QED BY <1>1, <1>2

-----------------------------------------------------------------------------
(* Walks of an index.                                                      *)

\* What a walk relies on: finitely many entries, in a Unique index one for each key.
Walkable(b, n) ==
  /\ n \in Names /\ b.entries[n] \subseteq KeyVals \X Ids /\ IsFiniteSet(b.entries[n])
  /\ n \in Unique => \A e, f \in b.entries[n] : e[1] = f[1] => e = f

IsBound(bound) == bound.kind \in {"unbounded", "included", "excluded"} /\ bound.at \in Pairs

Extent(b, n, lower, upper) ==
  {e \in b.entries[n] : After(Position(n, e), lower) /\ Until(Position(n, e), upper)}

\* Stored keys are pairs of numbers.
LEMMA EntryPairs ==
  ASSUME NEW b, NEW n, Walkable(b, n)
  PROVE  /\ b.entries[n] \subseteq Pairs
         /\ \A e \in b.entries[n] :
              e[1] \in KeyVals /\ e[1] \in Nat /\ e[1] > 0 /\ e[2] \in Ids /\ e[2] \in Nat
              /\ e = <<e[1], e[2]>> /\ Position(n, e) \in Pairs
  BY KeysAssumption, BoundsAssumption DEF Walkable, Pairs, Ids, Position

\* A walk gives each entry between its bounds once, in the order of the tree.
LEMMA WalkEnumerates ==
  ASSUME NEW b, NEW n, Walkable(b, n), NEW lower, NEW upper,
         NEW S, S = Extent(b, n, lower, upper), NEW es, es = Walk(b, n, lower, upper)
  PROVE  /\ S \subseteq b.entries[n] /\ Orders(KeyOrder, S)
         /\ Enumerates(es, S, KeyOrder) /\ es \in Seq(b.entries[n])
         /\ Len(es) \in Nat /\ Len(es) <= Cardinality(b.entries[n]) /\ Cardinality(b.entries[n]) \in Nat
<1>1. S \in SUBSET b.entries[n] /\ S \subseteq Pairs
  BY EntryPairs DEF Extent
<1>2. IsFiniteSet(b.entries[n])
  BY DEF Walkable
<1>3. IsFiniteSet(S) /\ Cardinality(S) <= Cardinality(b.entries[n]) /\ Cardinality(b.entries[n]) \in Nat
  BY <1>1, <1>2, FS_Subset, FS_CardinalityType
<1>4. Orders(KeyOrder, S)
  BY <1>1, KeysOrdered
<1>5. es = Ordered(S, KeyOrder)
  BY <1>1, InOrderIs, Zenon DEF Walk, Extent
<1>6. Enumerates(es, S, KeyOrder) /\ Len(es) = Cardinality(S) /\ Cardinality(S) \in Nat
  BY <1>3, <1>4, <1>5, OrderedEnumerates
<1>7. es \in Seq(b.entries[n])
  BY <1>1, <1>6, SeqMonotonic DEF Enumerates
<1> QED BY <1>1, <1>3, <1>4, <1>6, <1>7

\* A walk resumed behind an entry of another one gives the rest of that one.
LEMMA WalkResumes ==
  ASSUME NEW b, NEW n, Walkable(b, n), NEW lower, IsBound(lower), NEW upper,
         NEW S, S = Extent(b, n, lower, upper), NEW es, es = Walk(b, n, lower, upper),
         NEW k \in 1 .. Len(es)
  PROVE  Extent(b, n, Excluded(Position(n, es[k])), upper) = Behind(S, KeyOrder, es, k)
<1> PICK last : last = es[k]
  OBVIOUS
<1>1. Enumerates(es, S, KeyOrder) /\ S \subseteq b.entries[n]
  BY WalkEnumerates
<1>2. last \in S /\ last \in b.entries[n]
  BY <1>1, ElementOfSeq DEF Enumerates
<1>3. After(Position(n, last), lower)
  BY <1>2 DEF Extent
<1> PICK p : p = Position(n, last)
  OBVIOUS
<1>4. p \in Pairs /\ p[1] \in Nat /\ p[2] \in Nat
  BY <1>2, EntryPairs DEF Pairs
<1>5. ASSUME NEW e \in b.entries[n]
      PROVE  e \in Extent(b, n, Excluded(p), upper) <=> e \in S /\ <<last, e>> \in KeyOrder
  <2> PICK q : q = Position(n, e)
    OBVIOUS
  <2>1. q \in Pairs /\ q[1] \in Nat /\ q[2] \in Nat
    BY EntryPairs DEF Pairs
  <2>2. After(q, Excluded(p)) <=> Precedes(p, q)
    BY DEF After, Excluded
  <2>3. Precedes(p, q) <=> Precedes(last, e)
    <3>1. CASE n \in Unique
      <4>1. p = <<last[1], 0>> /\ q = <<e[1], 0>>
        BY <3>1 DEF Position
      <4>2. /\ last[1] \in Nat /\ e[1] \in Nat /\ last[2] \in Nat /\ e[2] \in Nat
            /\ last[1] = e[1] => last = e
        BY <3>1, <1>2, EntryPairs DEF Walkable
      <4>3. Precedes(p, q) <=> last[1] < e[1]
        BY <4>1, <4>2 DEF Precedes
      <4>4. Precedes(last, e) <=> last[1] < e[1]
        BY <4>2 DEF Precedes
      <4> QED BY <4>3, <4>4
    <3>2. CASE n \notin Unique
      BY <3>2 DEF Position
    <3> QED BY <3>1, <3>2
  <2>4. Precedes(p, q) => After(q, lower)
    <3> PICK l : l = lower.at
      OBVIOUS
    <3>1. l[1] \in Nat /\ l[2] \in Nat
      BY DEF IsBound, Pairs
    <3>2. ~ Precedes(p, l) /\ Precedes(p, q) => ~ Precedes(q, l)
      BY <1>4, <2>1, <3>1 DEF Precedes
    <3>3. Precedes(l, p) /\ Precedes(p, q) => Precedes(l, q)
      BY <1>4, <2>1, <3>1 DEF Precedes
    <3>4. CASE lower.kind = "unbounded"
      BY <3>4 DEF After
    <3>5. CASE lower.kind = "included"
      BY <3>5, <3>2, <1>3 DEF After
    <3>6. CASE lower.kind = "excluded"
      BY <3>6, <3>3, <1>3 DEF After
    <3> QED BY <3>4, <3>5, <3>6 DEF IsBound
  <2>5. <<last, e>> \in KeyOrder <=> Precedes(last, e)
    <3>1. last \in Pairs /\ e \in Pairs
      BY <1>2, EntryPairs
    <3> QED BY <3>1 DEF KeyOrder
  <2>6. e \in S <=> After(q, lower) /\ Until(q, upper)
    BY Zenon DEF Extent
  <2>7. e \in Extent(b, n, Excluded(p), upper) <=> After(q, Excluded(p)) /\ Until(q, upper)
    BY Zenon DEF Extent
  <2> QED BY <2>2, <2>3, <2>4, <2>5, <2>6, <2>7
<1>6. Extent(b, n, Excluded(p), upper) \subseteq b.entries[n]
  BY DEF Extent
<1>7. Behind(S, KeyOrder, es, k) = {e \in S : <<last, e>> \in KeyOrder}
  BY DEF Behind
<1>8. \A e : e \in Extent(b, n, Excluded(p), upper) <=> e \in Behind(S, KeyOrder, es, k)
  BY <1>1, <1>5, <1>6, <1>7
<1> QED BY <1>8

\* The rows of entries that follow each other.
LEMMA RowsJoin ==
  ASSUME NEW X, NEW s \in Seq(X), NEW t \in Seq(X), NEW b, NEW v
  PROVE  Rows(b, v, s \o t) = Rows(b, v, s) \o Rows(b, v, t)
<1> DEFINE Row(e) == [key |-> e[1], doc |-> Resolved(b, v, e[2])]
           M == Len(s)
           N == Len(t)
           u == s \o t
           Y == {Row(s[i]) : i \in 1 .. M} \cup {Row(t[i]) : i \in 1 .. N}
<1>1. /\ M \in Nat /\ N \in Nat /\ DOMAIN s = 1 .. M /\ DOMAIN t = 1 .. N
      /\ DOMAIN u = 1 .. M + N
      /\ \A i \in 1 .. M + N : u[i] = IF i <= M THEN s[i] ELSE t[i - M]
  <2>1. u \in Seq(X) /\ Len(u) = M + N /\ \A i \in 1 .. M + N : u[i] = IF i <= M THEN s[i] ELSE t[i - M]
    BY ConcatProperties
  <2>2. M \in Nat /\ N \in Nat /\ DOMAIN s = 1 .. M /\ DOMAIN t = 1 .. N
    BY LenProperties
  <2>3. DOMAIN u = 1 .. Len(u)
    <3> HIDE DEF u
    <3> QED BY <2>1, LenProperties
  <2> HIDE DEF u
  <2> QED BY <2>1, <2>2, <2>3
<1> HIDE DEF u, M, N
<1> DEFINE rs == [i \in 1 .. M |-> Row(s[i])]
           rt == [i \in 1 .. N |-> Row(t[i])]
           ru == [i \in 1 .. M + N |-> Row(u[i])]
<1>2. Rows(b, v, s) = rs /\ Rows(b, v, t) = rt /\ Rows(b, v, u) = ru
  BY <1>1, Zenon DEF Rows
<1>3. rs \in [1 .. M -> Y] /\ rt \in [1 .. N -> Y]
  <2> HIDE DEF Row
  <2> QED OBVIOUS
<1>4. \A i \in 1 .. M + N : ru[i] = IF i <= M THEN rs[i] ELSE rt[i - M]
  <2> HIDE DEF Row
  <2> TAKE i \in 1 .. M + N
  <2>1. CASE i <= M
    <3>1. i \in 1 .. M
      BY <2>1, <1>1
    <3> QED BY <3>1, <2>1, <1>1
  <2>2. CASE ~ (i <= M)
    <3>1. i - M \in 1 .. N
      BY <2>2, <1>1
    <3> QED BY <3>1, <2>2, <1>1
  <2> QED BY <2>1, <2>2
<1>5. ru = [i \in 1 .. M + N |-> ru[i]]
  <2> HIDE DEF Row
  <2> QED OBVIOUS
<1> HIDE DEF rs, rt, ru, Y
<1>6. rs \in Seq(Y) /\ Len(rs) = M /\ rt \in Seq(Y) /\ Len(rt) = N
  BY <1>1, <1>3, FcnIsSeq
<1> PICK g : g = rs \o rt
  OBVIOUS
<1>7. /\ g \in Seq(Y) /\ Len(g) = M + N
      /\ \A i \in 1 .. M + N : g[i] = IF i <= M THEN rs[i] ELSE rt[i - M]
  <2>1. /\ g \in Seq(Y) /\ Len(g) = Len(rs) + Len(rt)
        /\ \A i \in 1 .. Len(rs) + Len(rt) : g[i] = IF i <= Len(rs) THEN rs[i] ELSE rt[i - Len(rs)]
    BY <1>6, ConcatProperties
  <2> QED BY <2>1, <1>6, Zenon
<1>8. g \in [1 .. M + N -> Y]
  BY <1>7, LenProperties
<1>9. \A i \in 1 .. M + N : ru[i] = g[i]
  BY <1>4, <1>7
<1>10. ru = g
  BY <1>5, <1>8, <1>9
<1> QED BY <1>2, <1>10, Zenon DEF u

-----------------------------------------------------------------------------
(* Iterators.                                                              *)

\* k is how much of the whole walk es the iterator has consumed.
Consumed(b, v, n, end, S, es, it, k) ==
  /\ k \in 0 .. Len(es)
  /\ Extent(b, n, it.from, end) = Behind(S, KeyOrder, es, k)
  /\ it.emitted = IdsOf(SubSeq(es, 1, k))
  /\ it.rows = Rows(b, v, Fresh(n, SubSeq(es, 1, k), {}))
  /\ it.finished => k = Len(es)

\* The elements of a first part and of the part behind it.
LEMMA PartsJoin ==
  ASSUME NEW X, NEW es \in Seq(X), NEW k \in 0 .. Len(es), NEW m \in k .. Len(es)
  PROVE  /\ SubSeq(es, 1, k) \in Seq(X) /\ SubSeq(es, k + 1, m) \in Seq(X)
         /\ Len(SubSeq(es, 1, k)) = k /\ Len(SubSeq(es, k + 1, m)) = m - k
         /\ \A i \in 1 .. k : SubSeq(es, 1, k)[i] = es[i]
         /\ \A i \in 1 .. m - k : SubSeq(es, k + 1, m)[i] = es[k + i]
         /\ SubSeq(es, 1, k) \o SubSeq(es, k + 1, m) = SubSeq(es, 1, m)
<1>1. Len(es) \in Nat /\ k \in Nat /\ m \in Nat /\ k <= m /\ m <= Len(es)
  BY LenProperties
<1>2. \A i \in 1 .. Len(es) : es[i] \in X
  BY ElementOfSeq
<1>3. /\ SubSeq(es, 1, k) \in Seq(X) /\ Len(SubSeq(es, 1, k)) = k
      /\ \A i \in 1 .. k : SubSeq(es, 1, k)[i] = es[i]
  <2> PICK t : t = SubSeq(es, 1, k)
    OBVIOUS
  <2>1. /\ t \in Seq(X)
        /\ Len(t) = IF 1 <= k THEN k - 1 + 1 ELSE 0
        /\ \A i \in 1 .. k - 1 + 1 : t[i] = es[1 + i - 1]
    <3>1. 1 \in Int /\ k \in Int /\ \A i \in 1 .. k : es[i] \in X
      BY <1>1, <1>2
    <3> QED BY <3>1, SubSeqProperties
  <2>2. t \in Seq(X) /\ Len(t) = k /\ \A i \in 1 .. k : t[i] = es[i]
    BY <2>1, <1>1
  <2> QED BY <2>2
<1>4. /\ SubSeq(es, k + 1, m) \in Seq(X) /\ Len(SubSeq(es, k + 1, m)) = m - k
      /\ \A i \in 1 .. m - k : SubSeq(es, k + 1, m)[i] = es[k + i]
  <2> PICK t : t = SubSeq(es, k + 1, m)
    OBVIOUS
  <2>1. /\ t \in Seq(X)
        /\ Len(t) = IF k + 1 <= m THEN m - (k + 1) + 1 ELSE 0
        /\ \A i \in 1 .. m - (k + 1) + 1 : t[i] = es[(k + 1) + i - 1]
    <3>1. k + 1 \in Int /\ m \in Int /\ \A i \in k + 1 .. m : es[i] \in X
      BY <1>1, <1>2
    <3> QED BY <3>1, SubSeqProperties
  <2>2. t \in Seq(X) /\ Len(t) = m - k /\ \A i \in 1 .. m - k : t[i] = es[k + i]
    BY <2>1, <1>1
  <2> QED BY <2>2
<1>5. SubSeq(es, 1, k) \o SubSeq(es, k + 1, m) = SubSeq(es, 1, m)
  <2>1. 1 \in 1 .. Len(es) + 1 /\ k \in 1 - 1 .. Len(es) /\ m \in k .. Len(es)
    BY <1>1
  <2> QED BY <2>1, ConcatAdjacentSubSeq
<1> QED BY <1>3, <1>4, <1>5

\* The ids of two walks in a row are those of both.
LEMMA IdsJoin ==
  ASSUME NEW X, NEW s \in Seq(X), NEW t \in Seq(X)
  PROVE  IdsOf(s \o t) = IdsOf(s) \cup IdsOf(t)
<1> PICK u : u = s \o t
  OBVIOUS
<1> PICK M, N : M = Len(s) /\ N = Len(t)
  OBVIOUS
<1>1. /\ M \in Nat /\ N \in Nat /\ Len(u) = M + N
      /\ \A i \in 1 .. M + N : u[i] = IF i <= M THEN s[i] ELSE t[i - M]
  BY LenProperties, ConcatProperties
<1>2. \A i \in 1 .. M : i \in 1 .. M + N /\ u[i] = s[i]
  BY <1>1
<1>3. \A i \in 1 .. N : M + i \in 1 .. M + N /\ u[M + i] = t[i]
  BY <1>1
<1>4. ASSUME NEW i \in 1 .. M + N PROVE (i \in 1 .. M /\ u[i] = s[i]) \/ \E j \in 1 .. N : u[i] = t[j]
  <2>1. i > M => i - M \in 1 .. N /\ u[i] = t[i - M]
    BY <1>1
  <2> QED BY <2>1, <1>1, <1>2
<1>5. \A i \in 1 .. M + N : u[i][2] \in IdsOf(s) \cup IdsOf(t)
  BY <1>4 DEF IdsOf
<1>6. (\A i \in 1 .. M : s[i][2] \in IdsOf(u)) /\ \A i \in 1 .. N : t[i][2] \in IdsOf(u)
  BY <1>1, <1>2, <1>3 DEF IdsOf
<1>7. IdsOf(u) = {u[i][2] : i \in 1 .. M + N}
  BY <1>1 DEF IdsOf
<1>8. IdsOf(s) = {s[i][2] : i \in 1 .. M} /\ IdsOf(t) = {t[i][2] : i \in 1 .. N}
  BY DEF IdsOf
<1>9. IdsOf(u) \subseteq IdsOf(s) \cup IdsOf(t)
  BY <1>5, <1>7
<1>10. IdsOf(s) \subseteq IdsOf(u) /\ IdsOf(t) \subseteq IdsOf(u)
  BY <1>6, <1>8
<1> QED BY <1>9, <1>10

\* A refill takes the next entries of the walk, or all that is left.
LEMMA RefillConsumes ==
  ASSUME NEW b, NEW v, NEW n, Walkable(b, n), NEW start, IsBound(start), NEW end,
         NEW S, S = Extent(b, n, start, end), NEW es, es = Walk(b, n, start, end),
         NEW it, NEW k, Consumed(b, v, n, end, S, es, it, k)
  PROVE  \E m : /\ Consumed(b, v, n, end, S, es, Refilled(b, v, n, end, it), m)
                /\ Refilled(b, v, n, end, it).finished \/ m > k
<1> DEFINE X == b.entries[n]
           N == Len(es)
<1>1. /\ Enumerates(es, S, KeyOrder) /\ es \in Seq(X) /\ N \in Nat /\ S \subseteq X
      /\ Orders(KeyOrder, S)
  BY WalkEnumerates
<1>2. k \in 0 .. N
  BY DEF Consumed
<1>17. \A x, y \in Seq(X) : Rows(b, v, x \o y) = Rows(b, v, x) \o Rows(b, v, y)
  <2> SUFFICES ASSUME NEW x \in Seq(X), NEW y \in Seq(X)
               PROVE  Rows(b, v, x \o y) = Rows(b, v, x) \o Rows(b, v, y)
    OBVIOUS
  <2> HIDE DEF X
  <2> QED BY RowsJoin
<1>18. \A x, y \in Seq(X) : Fresh(n, x \o y, {}) = Fresh(n, x, {}) \o Fresh(n, y, IdsOf(x))
  <2> SUFFICES ASSUME NEW x \in Seq(X), NEW y \in Seq(X)
               PROVE  Fresh(n, x \o y, {}) = Fresh(n, x, {}) \o Fresh(n, y, IdsOf(x))
    OBVIOUS
  <2>1. n \in Names
    BY DEF Walkable
  <2> HIDE DEF X
  <2>2. \A none, seen : seen = none \cup IdsOf(x) =>
          Fresh(n, x \o y, none) = Fresh(n, x, none) \o Fresh(n, y, seen)
    <3> SUFFICES ASSUME NEW none, NEW seen, seen = none \cup IdsOf(x)
                 PROVE  Fresh(n, x \o y, none) = Fresh(n, x, none) \o Fresh(n, y, seen)
      OBVIOUS
    <3>1. \A z : z \in seen <=> z \in none \/ z \in IdsOf(x)
      OBVIOUS
    <3> QED BY <2>1, <3>1, FreshJoins, SMTT(60)
  <2>3. IdsOf(x) = {} \cup IdsOf(x)
    OBVIOUS
  <2> QED BY <2>2, <2>3, Zenon
<1>19. \A x, y \in Seq(X) : IdsOf(x \o y) = IdsOf(x) \cup IdsOf(y)
  <2> SUFFICES ASSUME NEW x \in Seq(X), NEW y \in Seq(X) PROVE IdsOf(x \o y) = IdsOf(x) \cup IdsOf(y)
    OBVIOUS
  <2> HIDE DEF X
  <2> QED BY IdsJoin
<1>21. \A x \in Seq(X) : \A t \in 0 .. Len(x) :
         /\ SubSeq(x, 1, t) \in Seq(X) /\ Len(SubSeq(x, 1, t)) = t
         /\ \A i \in 1 .. t : SubSeq(x, 1, t)[i] = x[i]
  <2> SUFFICES ASSUME NEW x \in Seq(X), NEW t \in 0 .. Len(x)
               PROVE  /\ SubSeq(x, 1, t) \in Seq(X) /\ Len(SubSeq(x, 1, t)) = t
                      /\ \A i \in 1 .. t : SubSeq(x, 1, t)[i] = x[i]
    OBVIOUS
  <2>1. t \in t .. Len(x)
    BY LenProperties
  <2> HIDE DEF X
  <2> QED BY <2>1, PartsJoin
<1>20. \A m \in k .. N :
         /\ SubSeq(es, 1, k) \in Seq(X) /\ SubSeq(es, k + 1, m) \in Seq(X)
         /\ Len(SubSeq(es, k + 1, m)) = m - k
         /\ \A i \in 1 .. m - k : SubSeq(es, k + 1, m)[i] = es[k + i]
         /\ SubSeq(es, 1, k) \o SubSeq(es, k + 1, m) = SubSeq(es, 1, m)
  <2> SUFFICES ASSUME NEW m \in k .. N
               PROVE  /\ SubSeq(es, 1, k) \in Seq(X) /\ SubSeq(es, k + 1, m) \in Seq(X)
                      /\ Len(SubSeq(es, k + 1, m)) = m - k
                      /\ \A i \in 1 .. m - k : SubSeq(es, k + 1, m)[i] = es[k + i]
                      /\ SubSeq(es, 1, k) \o SubSeq(es, k + 1, m) = SubSeq(es, 1, m)
    OBVIOUS
  <2>1. es \in Seq(X) /\ k \in 0 .. Len(es) /\ m \in k .. Len(es)
    BY <1>1, <1>2
  <2> HIDE DEF X, N
  <2>2. /\ SubSeq(es, 1, k) \in Seq(X) /\ SubSeq(es, k + 1, m) \in Seq(X)
        /\ Len(SubSeq(es, k + 1, m)) = m - k
    BY <2>1, PartsJoin
  <2>3. \A i \in 1 .. m - k : SubSeq(es, k + 1, m)[i] = es[k + i]
    BY <2>1, PartsJoin
  <2>4. SubSeq(es, 1, k) \o SubSeq(es, k + 1, m) = SubSeq(es, 1, m)
    BY <2>1, PartsJoin
  <2> QED BY <2>2, <2>3, <2>4
<1> DEFINE all == Walk(b, n, it.from, end)
           rest == SubSeq(es, k + 1, N)
<1>3. all = rest
  <2>1. Enumerates(rest, Behind(S, KeyOrder, es, k), KeyOrder)
    BY <1>1, <1>2, SuffixEnumerates
  <2>2. Enumerates(all, Behind(S, KeyOrder, es, k), KeyOrder) /\ Orders(KeyOrder, Behind(S, KeyOrder, es, k))
    <3>1. Extent(b, n, it.from, end) = Behind(S, KeyOrder, es, k)
      BY DEF Consumed
    <3> PICK T : T = Extent(b, n, it.from, end)
      OBVIOUS
    <3>2. Enumerates(all, T, KeyOrder) /\ Orders(KeyOrder, T)
      <4> HIDE DEF all
      <4> QED BY WalkEnumerates DEF all
    <3> HIDE DEF all
    <3> QED BY <3>1, <3>2, Zenon
  <2> PICK T : T = Behind(S, KeyOrder, es, k)
    OBVIOUS
  <2>3. all = Ordered(T, KeyOrder)
    <3> HIDE DEF all
    <3> QED BY <2>2, EnumeratesOnce
  <2>4. rest = Ordered(T, KeyOrder)
    <3> HIDE DEF rest
    <3> QED BY <2>1, <2>2, EnumeratesOnce
  <2> HIDE DEF all, rest
  <2> QED BY <2>3, <2>4
<1>4. Len(rest) = N - k /\ rest \in Seq(X) /\ \A i \in 1 .. N - k : rest[i] = es[k + i]
  <2>1. N \in k .. N
    BY <1>1, <1>2
  <2> HIDE DEF N, X
  <2> QED BY <2>1, <1>20
<1> DEFINE taken == Least(Batch, Len(all))
           m == k + taken
           batch == SubSeq(all, 1, taken)
           new == Refilled(b, v, n, end, it)
<1>5. taken \in 0 .. N - k /\ m \in k .. N /\ m \in 0 .. N /\ (taken < Batch => m = N) /\ (taken = Batch => m > k)
  <2>1. Batch \in Nat \ {0} /\ Len(all) = N - k /\ N - k \in Nat /\ k \in Nat /\ N \in Nat
    BY <1>3, <1>4, <1>1, <1>2, ReadingAssumption
  <2> HIDE DEF all, N
  <2> QED BY <2>1 DEF Least
<1>6. taken = Batch \/ taken < Batch
  <2>1. Batch \in Nat \ {0} /\ Len(all) = N - k /\ N - k \in Nat /\ k \in Nat
    BY <1>3, <1>4, <1>1, <1>2, ReadingAssumption
  <2> HIDE DEF all, N
  <2> QED BY <2>1 DEF Least
<1>16. m = k + taken /\ batch = SubSeq(all, 1, taken)
  OBVIOUS
<1> HIDE DEF N, taken, m, batch, rest, all
<1>7. batch = SubSeq(es, k + 1, m) /\ batch \in Seq(X) /\ Len(batch) = taken
      /\ \A i \in 1 .. taken : batch[i] = es[k + i]
  <2> PICK r : r = rest
    OBVIOUS
  <2> PICK t \in 0 .. N - k : t = taken
    BY <1>5
  <2> PICK c : c = batch
    OBVIOUS
  <2> PICK f : f = SubSeq(es, k + 1, m)
    OBVIOUS
  <2>0. k \in Nat /\ t \in Nat /\ N \in Nat /\ m = k + t
    BY <1>1, <1>2, <1>5, <1>16
  <2>1. /\ f \in Seq(X) /\ Len(f) = m - k /\ \A i \in 1 .. m - k : f[i] = es[k + i]
    BY <1>5, <1>20
  <2>2. c \in Seq(X) /\ Len(c) = t /\ \A i \in 1 .. t : c[i] = r[i]
    <3>1. c = SubSeq(r, 1, t) /\ r \in Seq(X) /\ Len(r) = N - k
      BY <1>3, <1>4, <1>16
    <3>2. t \in 0 .. Len(r)
      BY <3>1, <2>0
    <3> QED BY <3>1, <3>2, <1>21, Zenon
  <2>3. \A i \in 1 .. t : r[i] = es[k + i]
    <3>1. \A i \in 1 .. t : i \in 1 .. N - k
      BY <2>0
    <3> QED BY <3>1, <1>4
  <2>4. Len(f) = t /\ \A i \in 1 .. t : f[i] = es[k + i]
    BY <2>0, <2>1
  <2>5. \A i \in 1 .. t : c[i] = f[i]
    BY <2>2, <2>3, <2>4
  <2>6. c = f
    BY <2>1, <2>2, <2>4, <2>5, SeqEqual
  <2> QED BY <2>2, <2>4, <2>6
<1>8. /\ new.from = IF taken = 0 THEN it.from ELSE Excluded(Position(n, batch[taken]))
      /\ new.emitted = it.emitted \cup {batch[i][2] : i \in DOMAIN batch}
      /\ new.rows = it.rows \o Rows(b, v, Fresh(n, batch, it.emitted))
      /\ new.finished = (taken < Batch)
  BY DEF Refilled, all, taken, batch
<1> HIDE DEF new
<1>9. Extent(b, n, new.from, end) = Behind(S, KeyOrder, es, m)
  <2>1. CASE taken = 0
    <3>1. m = k /\ new.from = it.from
      BY <2>1, <1>2, <1>8, <1>16
    <3> QED BY <3>1 DEF Consumed
  <2>2. CASE taken # 0
    <3>1. taken \in 1 .. taken /\ m = k + taken /\ m \in 1 .. N
      BY <2>2, <1>1, <1>2, <1>5, <1>16
    <3>2. new.from = Excluded(Position(n, es[m]))
      BY <2>2, <3>1, <1>7, <1>8
    <3> QED BY <3>1, <3>2, WalkResumes DEF N
  <2> QED BY <2>1, <2>2
<1> PICK s, t, u : s = SubSeq(es, 1, k) /\ t = SubSeq(es, k + 1, m) /\ u = SubSeq(es, 1, m)
  OBVIOUS
<1>10. s \in Seq(X) /\ t \in Seq(X) /\ u = s \o t /\ t = batch
  BY <1>5, <1>7, <1>20, Zenon
<1>11. it.emitted = IdsOf(s) /\ it.rows = Rows(b, v, Fresh(n, s, {}))
  BY DEF Consumed
<1>12. new.emitted = IdsOf(u)
  <2>1. {batch[i][2] : i \in DOMAIN batch} = IdsOf(t)
    <3>1. DOMAIN t = 1 .. Len(t)
      BY <1>10, LenProperties
    <3> QED BY <3>1, <1>10, Zenon DEF IdsOf
  <2>2. IdsOf(u) = IdsOf(s) \cup IdsOf(t)
    BY <1>10, <1>19, Zenon
  <2> QED BY <2>1, <2>2, <1>8, <1>11, Zenon
<1>13. new.rows = Rows(b, v, Fresh(n, u, {}))
  <2> PICK fs, ft : fs = Fresh(n, s, {}) /\ ft = Fresh(n, t, IdsOf(s))
    OBVIOUS
  <2>0. fs = Fresh(n, s, {}) /\ ft = Fresh(n, t, IdsOf(s))
    OBVIOUS
  <2>1. Fresh(n, u, {}) = fs \o ft
    BY <1>10, <1>18, Zenon
  <2>2. fs \in Seq(X) /\ ft \in Seq(X)
    <3>1. CASE n \in Each
      <4>1. GivesOnce(X, s, {}, fs) /\ GivesOnce(X, t, IdsOf(s), ft)
        BY <3>1, <1>10, <2>0, FreshGives, Zenon
      <4> QED BY <4>1, Zenon DEF GivesOnce
    <3>2. CASE n \notin Each
      BY <3>2, <1>10 DEF Fresh
    <3> QED BY <3>1, <3>2
  <2>3. Rows(b, v, fs \o ft) = Rows(b, v, fs) \o Rows(b, v, ft)
    BY <2>2, <1>17, Zenon
  <2>4. new.rows = Rows(b, v, fs) \o Rows(b, v, ft)
    BY <1>8, <1>10, <1>11, Zenon
  <2> QED BY <2>1, <2>3, <2>4, Zenon
<1>14. Consumed(b, v, n, end, S, es, new, m)
  BY <1>5, <1>8, <1>9, <1>12, <1>13, Zenon DEF Consumed, N
<1>15. new.finished \/ m > k
  BY <1>5, <1>6, <1>8
<1> QED BY <1>14, <1>15 DEF new

-----------------------------------------------------------------------------
(* All that an iterator gives.                                             *)

\* Without entries there are no rows.
LEMMA NothingFresh ==
  ASSUME NEW b, NEW v, NEW n
  PROVE  Fresh(n, <<>>, {}) = <<>> /\ Rows(b, v, <<>>) = <<>> /\ IdsOf(<<>>) = {}
<1>1. <<>> \in Seq({}) /\ Len(<<>>) = 0 /\ DOMAIN <<>> = 1 .. 0
  OBVIOUS
<1>2. Fresh(n, <<>>, {}) = <<>>
  <2>1. CASE n \in Each
    <3>1. \A es \in Seq({}) : GivesOnce({}, es, {}, Fresh(n, es, {}))
      BY <2>1, FreshGives, Zenon
    <3> PICK fs : fs = Fresh(n, <<>>, {})
      OBVIOUS
    <3>2. fs \in Seq({}) /\ Len(fs) \in Nat /\ \A i \in 1 .. Len(fs) : \E k \in 1 .. 0 : TRUE
      <4>1. GivesOnce({}, <<>>, {}, fs)
        BY <3>1, <1>1, Zenon
      <4> QED BY <4>1, <1>1, Zenon DEF GivesOnce
    <3>3. Len(fs) = 0
      BY <3>2
    <3>4. fs = <<>>
      BY <3>2, <3>3, EmptySeq
    <3> QED BY <3>4
  <2>2. CASE n \notin Each
    BY <2>2 DEF Fresh
  <2> QED BY <2>1, <2>2
<1>3. Rows(b, v, <<>>) = <<>>
  <2> DEFINE Row(i) == [key |-> <<>>[i][1], doc |-> Resolved(b, v, <<>>[i][2])]
  <2>1. Rows(b, v, <<>>) = [i \in 1 .. 0 |-> Row(i)]
    BY <1>1, Zenon DEF Rows
  <2> HIDE DEF Row
  <2> PICK f : f = [i \in 1 .. 0 |-> Row(i)]
    OBVIOUS
  <2>2. f \in [1 .. 0 -> {}]
    OBVIOUS
  <2>3. f \in Seq({}) /\ Len(f) = 0
    BY <2>2, FcnIsSeq
  <2>4. f = <<>>
    BY <2>3, EmptySeq
  <2> QED BY <2>1, <2>4
<1>4. IdsOf(<<>>) = {}
  BY <1>1 DEF IdsOf
<1> QED BY <1>2, <1>3, <1>4

\* The iterator has consumed nothing when it is made.
LEMMA ResumingConsumes ==
  ASSUME NEW b, NEW v, NEW n, Walkable(b, n), NEW start, NEW end,
         NEW S, S = Extent(b, n, start, end), NEW es, es = Walk(b, n, start, end)
  PROVE  Consumed(b, v, n, end, S, es, Resuming(start), 0)
<1>1. Len(es) \in Nat /\ es \in Seq(b.entries[n])
  BY WalkEnumerates
<1>2. SubSeq(es, 1, 0) = <<>>
  BY <1>1, SubSeqEmpty
<1>3. /\ Resuming(start).from = start /\ Resuming(start).emitted = {}
      /\ Resuming(start).rows = <<>> /\ Resuming(start).finished = FALSE
  BY DEF Resuming
<1>4. Extent(b, n, start, end) = Behind(S, KeyOrder, es, 0)
  BY DEF Behind
<1>5. 0 \in 0 .. Len(es)
  BY <1>1
<1> QED BY <1>2, <1>3, <1>4, <1>5, NothingFresh, Zenon DEF Consumed

Iterated(b, v, n, start, end, f) ==
  /\ f[0] = Resuming(start)
  /\ \A m \in 1 .. Cardinality(b.entries[n]) + 1 :
       f[m] = IF f[m - 1].finished THEN f[m - 1] ELSE Refilled(b, v, n, end, f[m - 1])

\* The recursive function in Refills exists.
LEMMA RefillsSteps ==
  ASSUME NEW b, NEW v, NEW n, NEW start, NEW end, Cardinality(b.entries[n]) \in Nat
  PROVE  \E f : /\ Iterated(b, v, n, start, end, f)
                /\ Refills(b, v, n, start, end) = f[Cardinality(b.entries[n]) + 1].rows
<1> DEFINE First == Resuming(start)
           More(s) == IF s.finished THEN s ELSE Refilled(b, v, n, end, s)
           Rec(g, m) == g = [l \in 0 .. m |-> IF l = 0 THEN First ELSE More(g[l - 1])]
           N == Cardinality(b.entries[n]) + 1
<1> HIDE DEF First, More
<1>1. \A m \in Nat : \E g : Rec(g, m)
  <2> DEFINE Bad == {m \in Nat : ~ \E g : Rec(g, m)}
  <2> SUFFICES ASSUME Bad # {} PROVE FALSE
    OBVIOUS
  <2>0. Bad \subseteq Nat
    OBVIOUS
  <2>1. PICK m \in Nat : m \in Bad /\ \A l \in Bad : m <= l
    BY <2>0, LeastNatural
  <2>2. m # 0
    <3> DEFINE g == [i \in 0 .. 0 |-> First]
    <3>1. Rec(g, 0)
      OBVIOUS
    <3> QED BY <2>1, <3>1
  <2>3. m - 1 \in Nat /\ m - 1 \notin Bad
    <3> HIDE DEF Bad
    <3> QED BY <2>1, <2>2
  <2>4. PICK g : Rec(g, m - 1)
    BY <2>3
  <2> DEFINE e == [i \in 0 .. m |-> IF i < m THEN g[i] ELSE More(g[m - 1])]
  <2>5. Rec(e, m)
    <3>1. ASSUME NEW i \in 0 .. m
          PROVE  e[i] = IF i = 0 THEN First ELSE More(e[i - 1])
      BY <2>2, <2>3, <2>4
    <3> QED BY <3>1, Zenon
  <2> QED BY <2>5, <2>1
<1> HIDE DEF Rec
<1> DEFINE f == CHOOSE g : Rec(g, N)
<1>2. Rec(f, N)
  <2>1. N \in Nat
    OBVIOUS
  <2> HIDE DEF N
  <2> QED BY <1>1, <2>1, Zenon
<1>3. Refills(b, v, n, start, end) = f[N].rows
  BY Zenon DEF Refills, Rec, First, More
<1> HIDE DEF f
<1>4. Iterated(b, v, n, start, end, f)
  <2>1. f = [l \in 0 .. N |-> IF l = 0 THEN First ELSE More(f[l - 1])]
    BY <1>2 DEF Rec
  <2>2. N \in Nat
    OBVIOUS
  <2> HIDE DEF N
  <2>3. f[0] = First
    BY <2>1, <2>2
  <2>4. \A m \in 1 .. N : f[m] = More(f[m - 1])
    BY <2>1, <2>2
  <2> QED BY <2>3, <2>4, Zenon DEF Iterated, N, First, More
<1> QED BY <1>3, <1>4

\* Batch by batch the iterator gives what the whole walk has.
LEMMA RefillsAll ==
  ASSUME NEW b, NEW v, NEW n, Walkable(b, n), NEW start, IsBound(start), NEW end
  PROVE  Refills(b, v, n, start, end) = Rows(b, v, Fresh(n, Walk(b, n, start, end), {}))
<1> PICK S, es : S = Extent(b, n, start, end) /\ es = Walk(b, n, start, end)
  OBVIOUS
<1> PICK N : N = Cardinality(b.entries[n])
  OBVIOUS
<1>1. Len(es) \in Nat /\ Len(es) <= N /\ N \in Nat /\ es \in Seq(b.entries[n])
  BY WalkEnumerates
<1>2. PICK f : /\ Iterated(b, v, n, start, end, f)
               /\ Refills(b, v, n, start, end) = f[N + 1].rows
  BY <1>1, RefillsSteps
<1>3. /\ f[0] = Resuming(start)
      /\ \A m \in 1 .. N + 1 : f[m] = IF f[m - 1].finished THEN f[m - 1] ELSE Refilled(b, v, n, end, f[m - 1])
  BY <1>2 DEF Iterated
<1> DEFINE Good(m) == \E k : Consumed(b, v, n, end, S, es, f[m], k) /\ (f[m].finished \/ k >= m)
<1>4. Good(0)
  BY <1>3, ResumingConsumes
<1>5. ASSUME NEW m \in 1 .. N + 1, Good(m - 1) PROVE Good(m)
  <2>1. PICK k : Consumed(b, v, n, end, S, es, f[m - 1], k) /\ (f[m - 1].finished \/ k >= m - 1)
    BY <1>5
  <2>2. CASE f[m - 1].finished
    <3>1. f[m] = f[m - 1]
      BY <2>2, <1>3
    <3> QED BY <3>1, <2>1, <2>2
  <2>3. CASE ~ f[m - 1].finished
    <3>1. f[m] = Refilled(b, v, n, end, f[m - 1])
      BY <2>3, <1>3
    <3> PICK it : it = f[m - 1]
      OBVIOUS
    <3>2. Consumed(b, v, n, end, S, es, it, k)
      BY <2>1
    <3>3. PICK l : /\ Consumed(b, v, n, end, S, es, Refilled(b, v, n, end, it), l)
                   /\ Refilled(b, v, n, end, it).finished \/ l > k
      BY <3>2, RefillConsumes
    <3>4. Consumed(b, v, n, end, S, es, f[m], l) /\ (f[m].finished \/ l > k)
      BY <3>1, <3>3
    <3>5. k \in Nat /\ l \in Nat
      BY <3>2, <3>3, <1>1 DEF Consumed
    <3>6. f[m].finished \/ l >= m
      BY <3>4, <3>5, <2>1, <2>3, <1>1
    <3> QED BY <3>4, <3>6
  <2> QED BY <2>2, <2>3
<1>6. Good(N + 1)
  <2> DEFINE Bad == {m \in 0 .. N + 1 : ~ Good(m)}
  <2> SUFFICES ASSUME Bad # {} PROVE FALSE
    BY <1>1
  <2>1. Bad \subseteq Nat
    BY <1>1
  <2>2. PICK m \in Bad : \A l \in Bad : m <= l
    <3> HIDE DEF Bad
    <3> QED BY <2>1, LeastNatural
  <2>3. m \in 0 .. N + 1 /\ ~ Good(m)
    BY <2>2
  <2>4. m # 0
    BY <2>3, <1>4
  <2> HIDE DEF Good
  <2>5. m \in 1 .. N + 1 /\ m - 1 \in 0 .. N + 1
    BY <2>3, <2>4, <1>1
  <2>6. m - 1 \notin Bad
    <3> HIDE DEF Bad
    <3> QED BY <2>2, <2>5
  <2>7. Good(m - 1)
    BY <2>5, <2>6
  <2> QED BY <2>3, <2>5, <2>7, <1>5
<1>7. PICK k : Consumed(b, v, n, end, S, es, f[N + 1], k) /\ (f[N + 1].finished \/ k >= N + 1)
  BY <1>6
<1>8. k = Len(es)
  BY <1>7, <1>1 DEF Consumed
<1>9. f[N + 1].rows = Rows(b, v, Fresh(n, SubSeq(es, 1, k), {}))
  BY <1>7 DEF Consumed
<1>10. SubSeq(es, 1, k) = es
  BY <1>1, <1>8, SubSeqFull
<1> QED BY <1>2, <1>9, <1>10

-----------------------------------------------------------------------------
(* The batched scans of all records.                                       *)

RecordsOf(b, ids) == [i \in DOMAIN ids |-> b.docs[ids[i]]]

\* The records of two batches in a row are those of both.
LEMMA RecordsJoin ==
  ASSUME NEW X, NEW s \in Seq(X), NEW t \in Seq(X), NEW b
  PROVE  RecordsOf(b, s \o t) = RecordsOf(b, s) \o RecordsOf(b, t)
<1> DEFINE Row(id) == b.docs[id]
           M == Len(s)
           N == Len(t)
           u == s \o t
           Y == {Row(s[i]) : i \in 1 .. M} \cup {Row(t[i]) : i \in 1 .. N}
<1>1. /\ M \in Nat /\ N \in Nat /\ DOMAIN s = 1 .. M /\ DOMAIN t = 1 .. N
      /\ DOMAIN u = 1 .. M + N
      /\ \A i \in 1 .. M + N : u[i] = IF i <= M THEN s[i] ELSE t[i - M]
  <2>1. u \in Seq(X) /\ Len(u) = M + N /\ \A i \in 1 .. M + N : u[i] = IF i <= M THEN s[i] ELSE t[i - M]
    BY ConcatProperties
  <2>2. M \in Nat /\ N \in Nat /\ DOMAIN s = 1 .. M /\ DOMAIN t = 1 .. N
    BY LenProperties
  <2>3. DOMAIN u = 1 .. Len(u)
    <3> HIDE DEF u
    <3> QED BY <2>1, LenProperties
  <2> HIDE DEF u
  <2> QED BY <2>1, <2>2, <2>3
<1> HIDE DEF u, M, N
<1> DEFINE rs == [i \in 1 .. M |-> Row(s[i])]
           rt == [i \in 1 .. N |-> Row(t[i])]
           ru == [i \in 1 .. M + N |-> Row(u[i])]
<1>2. RecordsOf(b, s) = rs /\ RecordsOf(b, t) = rt /\ RecordsOf(b, u) = ru
  BY <1>1, Zenon DEF RecordsOf
<1>3. rs \in [1 .. M -> Y] /\ rt \in [1 .. N -> Y]
  <2> HIDE DEF Row
  <2> QED OBVIOUS
<1>4. \A i \in 1 .. M + N : ru[i] = IF i <= M THEN rs[i] ELSE rt[i - M]
  <2> HIDE DEF Row
  <2> TAKE i \in 1 .. M + N
  <2>1. CASE i <= M
    <3>1. i \in 1 .. M
      BY <2>1, <1>1
    <3> QED BY <3>1, <2>1, <1>1
  <2>2. CASE ~ (i <= M)
    <3>1. i - M \in 1 .. N
      BY <2>2, <1>1
    <3> QED BY <3>1, <2>2, <1>1
  <2> QED BY <2>1, <2>2
<1>5. ru = [i \in 1 .. M + N |-> ru[i]]
  <2> HIDE DEF Row
  <2> QED OBVIOUS
<1> HIDE DEF rs, rt, ru, Y
<1>6. rs \in Seq(Y) /\ Len(rs) = M /\ rt \in Seq(Y) /\ Len(rt) = N
  BY <1>1, <1>3, FcnIsSeq
<1> PICK g : g = rs \o rt
  OBVIOUS
<1>7. /\ g \in Seq(Y) /\ Len(g) = M + N
      /\ \A i \in 1 .. M + N : g[i] = IF i <= M THEN rs[i] ELSE rt[i - M]
  <2>1. /\ g \in Seq(Y) /\ Len(g) = Len(rs) + Len(rt)
        /\ \A i \in 1 .. Len(rs) + Len(rt) : g[i] = IF i <= Len(rs) THEN rs[i] ELSE rt[i - Len(rs)]
    BY <1>6, ConcatProperties
  <2> QED BY <2>1, <1>6, Zenon
<1>8. g \in [1 .. M + N -> Y]
  BY <1>7, LenProperties
<1>9. \A i \in 1 .. M + N : ru[i] = g[i]
  BY <1>4, <1>7
<1>10. ru = g
  BY <1>5, <1>8, <1>9
<1> QED BY <1>2, <1>10, Zenon DEF u

\* The ids of the records there are, in order.
LEMMA PresentOrdered ==
  ASSUME NEW b, NEW S, S \subseteq Present(b), NEW ids, ids = IdsInOrder(S)
  PROVE  /\ IsFiniteSet(S) /\ S \subseteq Nat /\ Orders(Less, S)
         /\ Enumerates(ids, S, Less) /\ ids \in Seq(S) /\ Len(ids) = Cardinality(S) /\ Len(ids) \in Nat
         /\ Len(ids) <= MaxId
<1>1. S \in SUBSET (1 .. MaxId) /\ MaxId \in Nat /\ 1 .. MaxId \subseteq Nat
  BY BoundsAssumption DEF Present, Ids
<1>2. IsFiniteSet(1 .. MaxId) /\ Cardinality(1 .. MaxId) = MaxId
  <2>1. 1 \in Int /\ MaxId \in Int
    BY <1>1
  <2>2. IsFiniteSet(1 .. MaxId) /\ Cardinality(1 .. MaxId) = IF 1 > MaxId THEN 0 ELSE MaxId - 1 + 1
    BY <2>1, FS_Interval
  <2> QED BY <2>2, <1>1
<1>3. IsFiniteSet(S) /\ Cardinality(S) <= MaxId
  BY <1>1, <1>2, FS_Subset
<1>4. S \subseteq Nat
  BY <1>1
<1>5. Orders(Less, S)
  BY <1>4, NumbersOrdered
<1>6. ids = Ordered(S, Less)
  BY <1>4, IdsInOrderIs
<1>7. Enumerates(ids, S, Less) /\ Len(ids) = Cardinality(S) /\ Cardinality(S) \in Nat
  BY <1>3, <1>5, <1>6, OrderedEnumerates
<1> QED BY <1>3, <1>4, <1>5, <1>7 DEF Enumerates

\* k is how many of the ids a batched scan is past.
Passed(b, ids, it, k) ==
  /\ k \in 0 .. Len(ids)
  /\ {id \in Present(b) : id > it.last} = Behind(Present(b), Less, ids, k)
  /\ it.rows = RecordsOf(b, SubSeq(ids, 1, k))
  /\ it.finished => k = Len(ids)

\* A refill of the raw dump goes on where the last one stopped, and ends it or
\* moves it forward.
LEMMA DumpPasses ==
  ASSUME NEW b, NEW ids, ids = IdsInOrder(Present(b)), NEW it, NEW k, Passed(b, ids, it, k)
  PROVE  \E m : Passed(b, ids, Dump(b, it), m) /\ (Dump(b, it).finished \/ m > k)
<1> DEFINE X == Present(b)
           N == Len(ids)
<1>1. Enumerates(ids, X, Less) /\ Orders(Less, X) /\ ids \in Seq(X) /\ N \in Nat /\ X \subseteq Nat
  BY PresentOrdered
<1>2. k \in 0 .. N
  BY DEF Passed
<1>17. \A x, y \in Seq(X) : RecordsOf(b, x \o y) = RecordsOf(b, x) \o RecordsOf(b, y)
  <2> SUFFICES ASSUME NEW x \in Seq(X), NEW y \in Seq(X)
               PROVE  RecordsOf(b, x \o y) = RecordsOf(b, x) \o RecordsOf(b, y)
    OBVIOUS
  <2> HIDE DEF X
  <2> QED BY RecordsJoin
<1>21. \A x \in Seq(X) : \A t \in 0 .. Len(x) :
         /\ SubSeq(x, 1, t) \in Seq(X) /\ Len(SubSeq(x, 1, t)) = t
         /\ \A i \in 1 .. t : SubSeq(x, 1, t)[i] = x[i]
  <2> SUFFICES ASSUME NEW x \in Seq(X), NEW t \in 0 .. Len(x)
               PROVE  /\ SubSeq(x, 1, t) \in Seq(X) /\ Len(SubSeq(x, 1, t)) = t
                      /\ \A i \in 1 .. t : SubSeq(x, 1, t)[i] = x[i]
    OBVIOUS
  <2>1. t \in t .. Len(x)
    BY LenProperties
  <2> HIDE DEF X
  <2> QED BY <2>1, PartsJoin
<1>20. \A m \in k .. N :
         /\ SubSeq(ids, 1, k) \in Seq(X) /\ SubSeq(ids, k + 1, m) \in Seq(X)
         /\ Len(SubSeq(ids, k + 1, m)) = m - k
         /\ \A i \in 1 .. m - k : SubSeq(ids, k + 1, m)[i] = ids[k + i]
         /\ SubSeq(ids, 1, k) \o SubSeq(ids, k + 1, m) = SubSeq(ids, 1, m)
  <2> SUFFICES ASSUME NEW m \in k .. N
               PROVE  /\ SubSeq(ids, 1, k) \in Seq(X) /\ SubSeq(ids, k + 1, m) \in Seq(X)
                      /\ Len(SubSeq(ids, k + 1, m)) = m - k
                      /\ \A i \in 1 .. m - k : SubSeq(ids, k + 1, m)[i] = ids[k + i]
                      /\ SubSeq(ids, 1, k) \o SubSeq(ids, k + 1, m) = SubSeq(ids, 1, m)
    OBVIOUS
  <2>1. ids \in Seq(X) /\ k \in 0 .. Len(ids) /\ m \in k .. Len(ids)
    BY <1>1, <1>2
  <2> HIDE DEF X, N
  <2>2. /\ SubSeq(ids, 1, k) \in Seq(X) /\ SubSeq(ids, k + 1, m) \in Seq(X)
        /\ Len(SubSeq(ids, k + 1, m)) = m - k
    BY <2>1, PartsJoin
  <2>3. \A i \in 1 .. m - k : SubSeq(ids, k + 1, m)[i] = ids[k + i]
    BY <2>1, PartsJoin
  <2>4. SubSeq(ids, 1, k) \o SubSeq(ids, k + 1, m) = SubSeq(ids, 1, m)
    BY <2>1, PartsJoin
  <2> QED BY <2>2, <2>3, <2>4
<1> DEFINE T == {id \in X : id > it.last}
           all == IdsInOrder(T)
           rest == SubSeq(ids, k + 1, N)
<1>22. T \subseteq Present(b)
  OBVIOUS
<1>3. all = rest
  <2>1. Enumerates(rest, Behind(X, Less, ids, k), Less)
    <3> HIDE DEF X
    <3> QED BY <1>1, <1>2, SuffixEnumerates
  <2>2. T = Behind(X, Less, ids, k)
    BY DEF Passed
  <2> HIDE DEF T, X
  <2>3. Enumerates(all, T, Less) /\ Orders(Less, T)
    BY <1>22, PresentOrdered
  <2>4. Enumerates(rest, T, Less)
    BY <2>1, <2>2
  <2> HIDE DEF all, rest
  <2>5. all = Ordered(T, Less)
    BY <2>3, EnumeratesOnce
  <2>6. rest = Ordered(T, Less)
    BY <2>3, <2>4, EnumeratesOnce
  <2> QED BY <2>5, <2>6
<1>4. Len(rest) = N - k /\ rest \in Seq(X) /\ \A i \in 1 .. N - k : rest[i] = ids[k + i]
  <2>1. N \in k .. N
    BY <1>1, <1>2
  <2> HIDE DEF N, X
  <2> QED BY <2>1, <1>20
<1>23. Cardinality(T) = N - k
  <2> HIDE DEF T, rest
  <2> QED BY <1>3, <1>4, <1>22, PresentOrdered
<1> DEFINE taken == Least(Batch, Cardinality(T))
           m == k + taken
           batch == SubSeq(all, 1, taken)
           new == Dump(b, it)
<1>5. /\ taken \in 0 .. N - k /\ m \in k .. N /\ m \in 0 .. N
      /\ (taken < Batch => m = N) /\ (taken = Batch => m > k) /\ (taken = Batch \/ taken < Batch)
  <2>1. Batch \in Nat \ {0} /\ Cardinality(T) = N - k /\ N - k \in Nat /\ k \in Nat /\ N \in Nat
    BY <1>23, <1>1, <1>2, ReadingAssumption
  <2> HIDE DEF T, N
  <2> QED BY <2>1 DEF Least
<1>16. m = k + taken /\ batch = SubSeq(all, 1, taken)
  OBVIOUS
<1>8. /\ new.last = IF taken = 0 THEN it.last ELSE batch[taken]
      /\ new.rows = it.rows \o RecordsOf(b, batch)
      /\ new.finished = (taken < Batch)
  BY Zenon DEF Dump, RecordsOf
<1> HIDE DEF N, T, taken, m, batch, rest, all, new
<1>7. batch = SubSeq(ids, k + 1, m) /\ batch \in Seq(X) /\ Len(batch) = taken
      /\ \A i \in 1 .. taken : batch[i] = ids[k + i]
  <2> PICK r : r = rest
    OBVIOUS
  <2> PICK t \in 0 .. N - k : t = taken
    BY <1>5
  <2> PICK c : c = batch
    OBVIOUS
  <2> PICK f : f = SubSeq(ids, k + 1, m)
    OBVIOUS
  <2>0. k \in Nat /\ t \in Nat /\ N \in Nat /\ m = k + t
    BY <1>1, <1>2, <1>5, <1>16
  <2>1. /\ f \in Seq(X) /\ Len(f) = m - k /\ \A i \in 1 .. m - k : f[i] = ids[k + i]
    BY <1>5, <1>20
  <2>2. c \in Seq(X) /\ Len(c) = t /\ \A i \in 1 .. t : c[i] = r[i]
    <3>1. c = SubSeq(r, 1, t) /\ r \in Seq(X) /\ Len(r) = N - k
      BY <1>3, <1>4, <1>16
    <3>2. t \in 0 .. Len(r)
      BY <3>1, <2>0
    <3> QED BY <3>1, <3>2, <1>21, Zenon
  <2>3. \A i \in 1 .. t : r[i] = ids[k + i]
    <3>1. \A i \in 1 .. t : i \in 1 .. N - k
      BY <2>0
    <3> QED BY <3>1, <1>4
  <2>4. Len(f) = t /\ \A i \in 1 .. t : f[i] = ids[k + i]
    BY <2>0, <2>1
  <2>5. \A i \in 1 .. t : c[i] = f[i]
    BY <2>2, <2>3, <2>4
  <2>6. c = f
    BY <2>1, <2>2, <2>4, <2>5, SeqEqual
  <2> QED BY <2>2, <2>4, <2>6
<1>9. {id \in X : id > new.last} = Behind(X, Less, ids, m)
  <2>1. CASE taken = 0
    <3>1. m = k /\ new.last = it.last
      BY <2>1, <1>2, <1>8, <1>16
    <3> QED BY <3>1 DEF Passed
  <2>2. CASE taken # 0
    <3>1. taken \in 1 .. taken /\ m = k + taken /\ m \in 1 .. N
      BY <2>2, <1>1, <1>2, <1>5, <1>16
    <3>2. new.last = ids[m]
      BY <2>2, <3>1, <1>7, <1>8
    <3>3. ids[m] \in X /\ m # 0
      BY <3>1, <1>1, ElementOfSeq DEF N
    <3> HIDE DEF X
    <3>4. \A id \in X : id > ids[m] <=> <<ids[m], id>> \in Less
      BY <3>3, <1>1 DEF Less
    <3> QED BY <3>2, <3>3, <3>4 DEF Behind
  <2> QED BY <2>1, <2>2
<1> PICK s, t, u : s = SubSeq(ids, 1, k) /\ t = SubSeq(ids, k + 1, m) /\ u = SubSeq(ids, 1, m)
  OBVIOUS
<1>10. s \in Seq(X) /\ t \in Seq(X) /\ u = s \o t /\ t = batch
  BY <1>5, <1>7, <1>20, Zenon
<1>11. it.rows = RecordsOf(b, s)
  BY DEF Passed
<1>13. new.rows = RecordsOf(b, u)
  <2>1. RecordsOf(b, s \o t) = RecordsOf(b, s) \o RecordsOf(b, t)
    BY <1>10, <1>17, Zenon
  <2> QED BY <2>1, <1>8, <1>10, <1>11, Zenon
<1>14. Passed(b, ids, new, m)
  BY <1>5, <1>8, <1>9, <1>13, Zenon DEF Passed, N
<1>15. new.finished \/ m > k
  BY <1>5, <1>8
<1> QED BY <1>14, <1>15 DEF new

\* The raw dump starts before the first record.
LEMMA DumpStarts ==
  ASSUME NEW b, NEW ids, ids = IdsInOrder(Present(b)),
         NEW it, it.last = 0, it.rows = <<>>, it.finished = FALSE
  PROVE  Passed(b, ids, it, 0)
<1>1. Len(ids) \in Nat /\ Present(b) \subseteq Nat
  BY PresentOrdered
<1>2. SubSeq(ids, 1, 0) = <<>>
  BY SubSeqEmpty
<1>3. RecordsOf(b, <<>>) = <<>>
  <2> DEFINE Row(i) == b.docs[<<>>[i]]
  <2>1. DOMAIN <<>> = 1 .. 0
    OBVIOUS
  <2>2. RecordsOf(b, <<>>) = [i \in 1 .. 0 |-> Row(i)]
    BY <2>1, Zenon DEF RecordsOf
  <2> HIDE DEF Row
  <2> PICK f : f = [i \in 1 .. 0 |-> Row(i)]
    OBVIOUS
  <2>3. f \in [1 .. 0 -> {}]
    OBVIOUS
  <2>4. f \in Seq({}) /\ Len(f) = 0
    BY <2>3, FcnIsSeq
  <2>5. f = <<>>
    BY <2>4, EmptySeq
  <2> QED BY <2>2, <2>5
<1>4. {id \in Present(b) : id > it.last} = Behind(Present(b), Less, ids, 0)
  <2>1. \A id \in Present(b) : id > 0
    BY DEF Present, Ids
  <2> QED BY <2>1 DEF Behind
<1>5. 0 \in 0 .. Len(ids)
  BY <1>1
<1> QED BY <1>2, <1>3, <1>4, <1>5, Zenon DEF Passed

Scan0 == [last |-> 0, rows |-> <<>>, finished |-> FALSE]

Scans(b, f) ==
  /\ f[0] = Scan0
  /\ \A m \in 1 .. MaxId + 1 : f[m] = IF f[m - 1].finished THEN f[m - 1] ELSE Dump(b, f[m - 1])

\* The recursive function in Dumped exists.
LEMMA DumpedSteps ==
  ASSUME NEW b
  PROVE  \E f : Scans(b, f) /\ Dumped(b) = f[MaxId + 1].rows
<1> DEFINE First == Scan0
           More(s) == IF s.finished THEN s ELSE Dump(b, s)
           Rec(g, m) == g = [l \in 0 .. m |-> IF l = 0 THEN First ELSE More(g[l - 1])]
           N == MaxId + 1
<1> HIDE DEF First, More
<1>1. \A m \in Nat : \E g : Rec(g, m)
  <2> DEFINE Bad == {m \in Nat : ~ \E g : Rec(g, m)}
  <2> SUFFICES ASSUME Bad # {} PROVE FALSE
    OBVIOUS
  <2>0. Bad \subseteq Nat
    OBVIOUS
  <2>1. PICK m \in Nat : m \in Bad /\ \A l \in Bad : m <= l
    BY <2>0, LeastNatural
  <2>2. m # 0
    <3> DEFINE g == [i \in 0 .. 0 |-> First]
    <3>1. Rec(g, 0)
      OBVIOUS
    <3> QED BY <2>1, <3>1
  <2>3. m - 1 \in Nat /\ m - 1 \notin Bad
    <3> HIDE DEF Bad
    <3> QED BY <2>1, <2>2
  <2>4. PICK g : Rec(g, m - 1)
    BY <2>3
  <2> DEFINE e == [i \in 0 .. m |-> IF i < m THEN g[i] ELSE More(g[m - 1])]
  <2>5. Rec(e, m)
    <3>1. ASSUME NEW i \in 0 .. m
          PROVE  e[i] = IF i = 0 THEN First ELSE More(e[i - 1])
      BY <2>2, <2>3, <2>4
    <3> QED BY <3>1, Zenon
  <2> QED BY <2>5, <2>1
<1> HIDE DEF Rec
<1> DEFINE f == CHOOSE g : Rec(g, N)
<1>2. Rec(f, N)
  <2>1. N \in Nat
    BY BoundsAssumption
  <2> HIDE DEF N
  <2> QED BY <1>1, <2>1, Zenon
<1>3. Dumped(b) = f[N].rows
  BY Zenon DEF Dumped, Rec, First, More, Scan0
<1> HIDE DEF f
<1>4. Scans(b, f)
  <2>1. f = [l \in 0 .. N |-> IF l = 0 THEN First ELSE More(f[l - 1])]
    BY <1>2 DEF Rec
  <2>2. N \in Nat
    BY BoundsAssumption
  <2> HIDE DEF N
  <2>3. f[0] = First
    BY <2>1, <2>2
  <2>4. \A m \in 1 .. N : f[m] = More(f[m - 1])
    BY <2>1, <2>2
  <2> QED BY <2>3, <2>4, Zenon DEF Scans, N, First, More
<1> QED BY <1>3, <1>4

\* Batch by batch a scan gives every record, in the order of ids.
LEMMA DumpedAll ==
  ASSUME NEW b
  PROVE  Dumped(b) = RecordsOf(b, IdsInOrder(Present(b)))
<1> PICK ids : ids = IdsInOrder(Present(b))
  OBVIOUS
<1> PICK N : N = MaxId
  OBVIOUS
<1>1. Len(ids) \in Nat /\ Len(ids) <= N /\ N \in Nat /\ ids \in Seq(Present(b))
  BY PresentOrdered, BoundsAssumption
<1>2. PICK f : Scans(b, f) /\ Dumped(b) = f[N + 1].rows
  BY DumpedSteps
<1>3. /\ f[0].last = 0 /\ f[0].rows = <<>> /\ f[0].finished = FALSE
      /\ \A m \in 1 .. N + 1 : f[m] = IF f[m - 1].finished THEN f[m - 1] ELSE Dump(b, f[m - 1])
  BY <1>2 DEF Scans, Scan0
<1> DEFINE Good(m) == \E k : Passed(b, ids, f[m], k) /\ (f[m].finished \/ k >= m)
<1>4. Good(0)
  <2> PICK it : it = f[0]
    OBVIOUS
  <2>1. Passed(b, ids, it, 0)
    BY <1>3, DumpStarts
  <2> QED BY <2>1
<1>5. ASSUME NEW m \in 1 .. N + 1, Good(m - 1) PROVE Good(m)
  <2>1. PICK k : Passed(b, ids, f[m - 1], k) /\ (f[m - 1].finished \/ k >= m - 1)
    BY <1>5
  <2>2. CASE f[m - 1].finished
    <3>1. f[m] = f[m - 1]
      BY <2>2, <1>3
    <3> QED BY <3>1, <2>1, <2>2
  <2>3. CASE ~ f[m - 1].finished
    <3>1. f[m] = Dump(b, f[m - 1])
      BY <2>3, <1>3
    <3> PICK it : it = f[m - 1]
      OBVIOUS
    <3>2. Passed(b, ids, it, k)
      BY <2>1
    <3>3. PICK l : Passed(b, ids, Dump(b, it), l) /\ (Dump(b, it).finished \/ l > k)
      BY <3>2, DumpPasses
    <3>4. Passed(b, ids, f[m], l) /\ (f[m].finished \/ l > k)
      BY <3>1, <3>3
    <3>5. k \in Nat /\ l \in Nat
      BY <3>2, <3>3, <1>1 DEF Passed
    <3>6. f[m].finished \/ l >= m
      BY <3>4, <3>5, <2>1, <2>3, <1>1
    <3> QED BY <3>4, <3>6
  <2> QED BY <2>2, <2>3
<1>6. Good(N + 1)
  <2> DEFINE Bad == {m \in 0 .. N + 1 : ~ Good(m)}
  <2> SUFFICES ASSUME Bad # {} PROVE FALSE
    BY <1>1
  <2>1. Bad \subseteq Nat
    BY <1>1
  <2>2. PICK m \in Bad : \A l \in Bad : m <= l
    <3> HIDE DEF Bad
    <3> QED BY <2>1, LeastNatural
  <2>3. m \in 0 .. N + 1 /\ ~ Good(m)
    BY <2>2
  <2>4. m # 0
    BY <2>3, <1>4
  <2> HIDE DEF Good
  <2>5. m \in 1 .. N + 1 /\ m - 1 \in 0 .. N + 1
    BY <2>3, <2>4, <1>1
  <2>6. m - 1 \notin Bad
    <3> HIDE DEF Bad
    <3> QED BY <2>2, <2>5
  <2>7. Good(m - 1)
    BY <2>5, <2>6
  <2> QED BY <2>3, <2>5, <2>7, <1>5
<1>7. PICK k : Passed(b, ids, f[N + 1], k) /\ (f[N + 1].finished \/ k >= N + 1)
  BY <1>6
<1>8. k = Len(ids)
  BY <1>7, <1>1 DEF Passed
<1>9. f[N + 1].rows = RecordsOf(b, SubSeq(ids, 1, k))
  BY <1>7 DEF Passed
<1>10. SubSeq(ids, 1, k) = ids
  BY <1>1, <1>8, SubSeqFull
<1> QED BY <1>2, <1>9, <1>10

-----------------------------------------------------------------------------
(* An index that has every document.                                       *)

Full(b, n) ==
  /\ n \in Names /\ b.docs \in [Ids -> Stored \cup {NoDoc}]
  /\ b.entries[n] = Expected(b, n)
  /\ n \in Unique => Distinct(b, n)

\* An index has an entry for each key of each document.
LEMMA FullEntries ==
  ASSUME NEW b, NEW n, Full(b, n)
  PROVE  /\ b.entries[n] \subseteq KeyVals \X Ids
         /\ \A id \in Present(b) : b.docs[id] \in Stored /\ b.docs[id].doc \in Docs
         /\ \A k, id : <<k, id>> \in b.entries[n]
              <=> id \in Present(b) /\ k \in Keys[n][b.docs[id].doc]
<1>1. \A id \in Present(b) : id \in Ids /\ b.docs[id] \in Stored /\ b.docs[id].doc \in Docs
  BY DEF Full, Present, Stored
<1>2. \A id \in Present(b) : Keys[n][b.docs[id].doc] \subseteq KeyVals
  BY <1>1, IndexesAssumption DEF Full
<1>3. b.entries[n] = Expected(b, n)
  BY DEF Full
<1>4. Expected(b, n) \subseteq KeyVals \X Ids
  BY DEF Expected
<1>5. ASSUME NEW k, NEW id
      PROVE  <<k, id>> \in Expected(b, n) <=> id \in Present(b) /\ k \in Keys[n][b.docs[id].doc]
  BY <1>1, <1>2 DEF Expected, Present
<1> QED BY <1>1, <1>3, <1>4, <1>5

\* A full index can be walked, and has one entry per document if it is not Each.
LEMMA FullWalkable ==
  ASSUME NEW b, NEW n, Full(b, n)
  PROVE  /\ Walkable(b, n)
         /\ n \notin Each => \A e, f \in b.entries[n] : e[2] = f[2] => e = f
<1> DEFINE E == b.entries[n]
           KeysAt == [id \in Present(b) |-> Keys[n][b.docs[id].doc]]
           T == {KeysAt[id] : id \in Present(b)}
<1>1. n \in Names /\ E \subseteq KeyVals \X Ids
  BY FullEntries DEF Full
<1>2. \A e \in E : /\ e = <<e[1], e[2]>> /\ e[1] \in KeyVals /\ e[2] \in Ids
                   /\ e[2] \in Present(b) /\ e[1] \in Keys[n][b.docs[e[2]].doc]
  <2> TAKE e \in E
  <2>1. e = <<e[1], e[2]>> /\ e[1] \in KeyVals /\ e[2] \in Ids
    BY <1>1
  <2>2. <<e[1], e[2]>> \in E
    BY <2>1
  <2> QED BY <2>1, <2>2, FullEntries
<1>3. IsFiniteSet(Present(b))
  BY PresentOrdered
<1>4. IsFiniteSet(T)
  <2>1. KeysAt \in Surjection(Present(b), T)
    BY DEF Surjection
  <2> HIDE DEF KeysAt, T
  <2> QED BY <2>1, <1>3, FS_Surjection
<1>5. \A t \in T : IsFiniteSet(t)
  <2> SUFFICES ASSUME NEW id \in Present(b) PROVE IsFiniteSet(Keys[n][b.docs[id].doc])
    OBVIOUS
  <2> QED BY FullEntries, KeysAssumption, <1>1
<1>6. IsFiniteSet(UNION T)
  <2> HIDE DEF T
  <2> QED BY <1>4, <1>5, FS_UNION
<1>7. E \subseteq (UNION T) \X Present(b)
  BY <1>2
<1>8. IsFiniteSet(E)
  <2>1. IsFiniteSet((UNION T) \X Present(b))
    BY <1>3, <1>6, FS_Product
  <2> HIDE DEF T, E
  <2> QED BY <2>1, <1>7, FS_Subset
<1>9. n \in Unique => \A e, f \in E : e[1] = f[1] => e = f
  <2> SUFFICES ASSUME n \in Unique, NEW e \in E, NEW f \in E, e[1] = f[1] PROVE e = f
    OBVIOUS
  <2>1. Distinct(b, n)
    BY DEF Full
  <2>2. b.docs[e[2]] # NoDoc /\ b.docs[f[2]] # NoDoc
    BY <1>2 DEF Present
  <2>3. e[1] \in Keys[n][b.docs[e[2]].doc] \cap Keys[n][b.docs[f[2]].doc]
    BY <1>2
  <2>4. e[2] = f[2]
    BY <1>2, <2>1, <2>2, <2>3 DEF Distinct
  <2> QED BY <1>2, <2>4
<1>10. n \notin Each => \A e, f \in E : e[2] = f[2] => e = f
  <2> SUFFICES ASSUME n \notin Each, NEW e \in E, NEW f \in E, e[2] = f[2] PROVE e = f
    OBVIOUS
  <2> PICK d : d = b.docs[e[2]].doc
    OBVIOUS
  <2>1. d \in Docs /\ e[1] \in Keys[n][d] /\ f[1] \in Keys[n][d]
    BY <1>2, FullEntries
  <2>2. PICK k \in KeyVals : Keys[n][d] = {k}
    BY <2>1, <1>1, IndexesAssumption
  <2>3. e[1] = f[1]
    BY <2>1, <2>2
  <2> QED BY <1>2, <2>3
<1> QED BY <1>1, <1>8, <1>9, <1>10 DEF Walkable

-----------------------------------------------------------------------------
(* What a range of such an index has.                                      *)

\* The bounds of a caller stay bounds when they are widened.
LEMMA BoundsType ==
  ASSUME NEW bound \in Bounds, NEW n
  PROVE  /\ IsBound(bound) /\ IsBound(WidenLower(n, bound)) /\ IsBound(WidenUpper(n, bound))
         /\ bound.at = <<bound.at[1], 0>> /\ bound.at[1] \in Nat
<1>1. \/ bound = Unbounded
      \/ \E k \in KeyVals : bound = Included(<<k, 0>>)
      \/ \E k \in KeyVals : bound = Excluded(<<k, 0>>)
  BY DEF Bounds
<1>2. KeyVals \subseteq Nat /\ MaxId \in Nat
  BY KeysAssumption, BoundsAssumption
<1>3. /\ bound.kind \in {"unbounded", "included", "excluded"}
      /\ bound.at = <<bound.at[1], 0>> /\ bound.at[1] \in Nat
  BY <1>1, <1>2 DEF Unbounded, Included, Excluded
<1>4. IsBound(bound)
  BY <1>3 DEF IsBound, Pairs
<1>5. IsBound(WidenLower(n, bound))
  BY <1>2, <1>3, <1>4 DEF IsBound, Pairs, WidenLower, Excluded
<1>6. IsBound(WidenUpper(n, bound))
  BY <1>2, <1>3, <1>4 DEF IsBound, Pairs, WidenUpper, Included
<1> QED BY <1>3, <1>4, <1>5, <1>6

\* The stored key of an entry: its suffix is 0, or its id.
LEMMA PositionIs ==
  ASSUME NEW n, NEW k, NEW id \in Ids
  PROVE  \E s \in 0 .. MaxId : /\ Position(n, <<k, id>>) = <<k, s>>
                               /\ n \in Unique => s = 0
                               /\ n \notin Unique => s > 0
<1>1. id \in 1 .. MaxId /\ MaxId \in Nat
  BY BoundsAssumption DEF Ids
<1>2. CASE n \in Unique
  BY <1>1, <1>2 DEF Position
<1>3. CASE n \notin Unique
  BY <1>1, <1>3 DEF Position
<1> QED BY <1>2, <1>3

\* Stored keys are compared by key, and then by the id at their end.
LEMMA PrecedesIs ==
  ASSUME NEW k, NEW s, NEW x, NEW t
  PROVE  Precedes(<<k, s>>, <<x, t>>) <=> k < x \/ (k = x /\ s < t)
BY DEF Precedes

\* Widened for the stored keys, a lower bound is the one of the caller.
LEMMA LowerMeans ==
  ASSUME NEW n, NEW k \in Nat, NEW id \in Ids, NEW bound \in Bounds
  PROVE  After(Position(n, <<k, id>>), WidenLower(n, bound))
           <=> /\ bound.kind = "included" => k >= bound.at[1]
               /\ bound.kind = "excluded" => k > bound.at[1]
<1> PICK x : x = bound.at[1]
  OBVIOUS
<1>1. /\ bound.kind \in {"unbounded", "included", "excluded"}
      /\ bound.at = <<x, 0>> /\ x \in Nat /\ MaxId \in Nat
  BY BoundsType, BoundsAssumption DEF IsBound
<1>2. PICK s \in 0 .. MaxId : /\ Position(n, <<k, id>>) = <<k, s>>
                              /\ n \in Unique => s = 0
                              /\ n \notin Unique => s > 0
  BY PositionIs
<1> PICK p, w : p = Position(n, <<k, id>>) /\ w = WidenLower(n, bound)
  OBVIOUS
<1>3. CASE bound.kind = "unbounded"
  BY <1>3 DEF WidenLower, After
<1>4. CASE bound.kind = "included"
  <2>1. WidenLower(n, bound) = bound
    BY <1>4 DEF WidenLower
  <2>2. After(p, bound) <=> ~Precedes(<<k, s>>, <<x, 0>>)
    BY <1>1, <1>2, <1>4 DEF After
  <2>3. Precedes(<<k, s>>, <<x, 0>>) <=> k < x
    BY <1>1, <1>2, PrecedesIs
  <2> QED BY <1>1, <1>4, <2>1, <2>2, <2>3
<1>5. CASE bound.kind = "excluded"
  <2>1. PICK t \in 0 .. MaxId : /\ w.kind = "excluded" /\ w.at = <<x, t>>
                                /\ n \in Unique => t = 0
                                /\ n \notin Unique => t = MaxId
    <3>1. 0 \in 0 .. MaxId /\ MaxId \in 0 .. MaxId
      BY <1>1
    <3>2. CASE n \in Unique
      <4>1. w.kind = "excluded" /\ w.at = <<x, 0>>
        BY <1>1, <1>5, <3>2 DEF WidenLower
      <4> QED BY <4>1, <3>1, <3>2
    <3>3. CASE n \notin Unique
      <4>1. w.kind = "excluded" /\ w.at = <<x, MaxId>>
        BY <1>1, <1>5, <3>3 DEF WidenLower, Excluded
      <4> QED BY <4>1, <3>1, <3>3
    <3> QED BY <3>2, <3>3
  <2>2. After(p, w) <=> Precedes(<<x, t>>, <<k, s>>)
    BY <1>2, <2>1 DEF After
  <2>3. Precedes(<<x, t>>, <<k, s>>) <=> x < k
    BY <1>1, <1>2, <2>1, PrecedesIs
  <2> QED BY <1>1, <1>5, <2>2, <2>3
<1> QED BY <1>1, <1>3, <1>4, <1>5

\* So is an upper bound.
LEMMA UpperMeans ==
  ASSUME NEW n, NEW k \in Nat, NEW id \in Ids, NEW bound \in Bounds
  PROVE  Until(Position(n, <<k, id>>), WidenUpper(n, bound))
           <=> /\ bound.kind = "included" => k <= bound.at[1]
               /\ bound.kind = "excluded" => k < bound.at[1]
<1> PICK x : x = bound.at[1]
  OBVIOUS
<1>1. /\ bound.kind \in {"unbounded", "included", "excluded"}
      /\ bound.at = <<x, 0>> /\ x \in Nat /\ MaxId \in Nat
  BY BoundsType, BoundsAssumption DEF IsBound
<1>2. PICK s \in 0 .. MaxId : /\ Position(n, <<k, id>>) = <<k, s>>
                              /\ n \in Unique => s = 0
                              /\ n \notin Unique => s > 0
  BY PositionIs
<1> PICK p, w : p = Position(n, <<k, id>>) /\ w = WidenUpper(n, bound)
  OBVIOUS
<1>3. CASE bound.kind = "unbounded"
  BY <1>3 DEF WidenUpper, Until
<1>4. CASE bound.kind = "excluded"
  <2>1. WidenUpper(n, bound) = bound
    BY <1>4 DEF WidenUpper
  <2>2. Until(p, bound) <=> Precedes(<<k, s>>, <<x, 0>>)
    BY <1>1, <1>2, <1>4 DEF Until
  <2>3. Precedes(<<k, s>>, <<x, 0>>) <=> k < x
    BY <1>1, <1>2, PrecedesIs
  <2> QED BY <1>1, <1>4, <2>1, <2>2, <2>3
<1>5. CASE bound.kind = "included"
  <2>1. PICK t \in 0 .. MaxId : /\ w.kind = "included" /\ w.at = <<x, t>>
                                /\ n \in Unique => t = 0
                                /\ n \notin Unique => t = MaxId
    <3>1. 0 \in 0 .. MaxId /\ MaxId \in 0 .. MaxId
      BY <1>1
    <3>2. CASE n \in Unique
      <4>1. w.kind = "included" /\ w.at = <<x, 0>>
        BY <1>1, <1>5, <3>2 DEF WidenUpper
      <4> QED BY <4>1, <3>1, <3>2
    <3>3. CASE n \notin Unique
      <4>1. w.kind = "included" /\ w.at = <<x, MaxId>>
        BY <1>1, <1>5, <3>3 DEF WidenUpper, Included
      <4> QED BY <4>1, <3>1, <3>3
    <3> QED BY <3>2, <3>3
  <2>2. Until(p, w) <=> ~Precedes(<<x, t>>, <<k, s>>)
    BY <1>2, <2>1 DEF Until
  <2>3. Precedes(<<x, t>>, <<k, s>>) <=> x < k
    BY <1>1, <1>2, <2>1, PrecedesIs
  <2> QED BY <1>1, <1>5, <2>2, <2>3
<1> QED BY <1>1, <1>3, <1>4, <1>5

\* A range has the entries whose keys are within its bounds.
LEMMA CollectWithin ==
  ASSUME NEW b, NEW n, Full(b, n), NEW lower \in Bounds, NEW upper \in Bounds
  PROVE  Extent(b, n, WidenLower(n, lower), WidenUpper(n, upper))
           = {e \in b.entries[n] : Within(e[1], lower, upper)}
<1>1. ASSUME NEW e \in b.entries[n]
      PROVE  /\ After(Position(n, e), WidenLower(n, lower))
             /\ Until(Position(n, e), WidenUpper(n, upper))
             <=> Within(e[1], lower, upper)
  <2> PICK k, id : k = e[1] /\ id = e[2]
    OBVIOUS
  <2>1. e = <<k, id>> /\ k \in Nat /\ id \in Ids
    BY FullWalkable, EntryPairs
  <2>2. After(Position(n, e), WidenLower(n, lower))
           <=> /\ lower.kind = "included" => k >= lower.at[1]
               /\ lower.kind = "excluded" => k > lower.at[1]
    BY <2>1, LowerMeans
  <2>3. Until(Position(n, e), WidenUpper(n, upper))
           <=> /\ upper.kind = "included" => k <= upper.at[1]
               /\ upper.kind = "excluded" => k < upper.at[1]
    BY <2>1, UpperMeans
  <2> QED BY <2>2, <2>3, Zenon DEF Within
<1> QED BY <1>1, Zenon DEF Extent

-----------------------------------------------------------------------------
(* A range of such an index has each document with a key in it once.       *)

\* The documents with a key in a range.
Found(b, n, lower, upper) ==
  {id \in Present(b) : \E k \in Keys[n][b.docs[id].doc] : Within(k, lower, upper)}

\* s has, from the entries E, one or more for each of the documents T, upwards by key.
Collected(s, E, T) ==
  /\ s \in Seq(E) /\ Len(s) \in Nat
  /\ \A i, j \in 1 .. Len(s) : i < j => s[i][1] <= s[j][1] /\ s[i] # s[j]
  /\ \A i \in 1 .. Len(s) : s[i][2] \in T
  /\ \A id \in T : \E i \in 1 .. Len(s) : s[i][2] = id

\* s names each of the documents T once.
Lists(s, T) ==
  /\ Len(s) \in Nat
  /\ \A i, j \in 1 .. Len(s) : i < j => s[i][2] # s[j][2]
  /\ \A i \in 1 .. Len(s) : s[i][2] \in T
  /\ \A id \in T : \E i \in 1 .. Len(s) : s[i][2] = id

\* The entries collected from a full index are those of the documents with a key
\* in the range, upwards by key.
LEMMA CollectFinds ==
  ASSUME NEW b, NEW n, Full(b, n), NEW lower \in Bounds, NEW upper \in Bounds,
         NEW es, es = Collect(b, n, lower, upper)
  PROVE  Collected(es, b.entries[n], Found(b, n, lower, upper))
<1> PICK S : S = Extent(b, n, WidenLower(n, lower), WidenUpper(n, upper))
  OBVIOUS
<1>1. Walkable(b, n)
  BY FullWalkable
<1>2. es = Walk(b, n, WidenLower(n, lower), WidenUpper(n, upper))
  BY Zenon DEF Collect
<1>3. /\ S \subseteq b.entries[n] /\ Enumerates(es, S, KeyOrder)
      /\ es \in Seq(b.entries[n]) /\ Len(es) \in Nat
  BY <1>1, <1>2, WalkEnumerates, Zenon
<1>4. S = {e \in b.entries[n] : Within(e[1], lower, upper)}
  <2>1. Extent(b, n, WidenLower(n, lower), WidenUpper(n, upper))
          = {e \in b.entries[n] : Within(e[1], lower, upper)}
    BY CollectWithin
  <2> QED BY <2>1, Zenon
<1>5. ASSUME NEW i \in 1 .. Len(es), NEW j \in 1 .. Len(es), i < j
      PROVE  es[i][1] <= es[j][1] /\ es[i] # es[j]
  <2>1. <<es[i], es[j]>> \in KeyOrder
    BY <1>3, <1>5 DEF Enumerates
  <2> PICK p, q : p = es[i] /\ q = es[j]
    OBVIOUS
  <2>2. p[1] \in Nat /\ p[2] \in Nat /\ q[1] \in Nat /\ q[2] \in Nat /\ Precedes(p, q)
    BY <2>1 DEF KeyOrder, Pairs
  <2>3. p[1] <= q[1] /\ p # q
    BY <2>2 DEF Precedes
  <2> QED BY <2>3
<1>6. ASSUME NEW i \in 1 .. Len(es) PROVE es[i][2] \in Found(b, n, lower, upper)
  <2> PICK e : e = es[i]
    OBVIOUS
  <2>1. e \in S
    BY <1>3, ElementOfSeq DEF Enumerates
  <2>2. e \in b.entries[n] /\ Within(e[1], lower, upper)
    BY <2>1, <1>4
  <2>3. e = <<e[1], e[2]>>
    BY <2>2, <1>1, EntryPairs
  <2>4. e[2] \in Present(b) /\ e[1] \in Keys[n][b.docs[e[2]].doc]
    BY <2>2, <2>3, FullEntries
  <2> QED BY <2>2, <2>4, Zenon DEF Found
<1>7. ASSUME NEW id \in Found(b, n, lower, upper) PROVE \E i \in 1 .. Len(es) : es[i][2] = id
  <2>1. PICK k \in Keys[n][b.docs[id].doc] : Within(k, lower, upper)
    BY Zenon DEF Found
  <2>2. id \in Present(b)
    BY Zenon DEF Found
  <2>3. <<k, id>> \in b.entries[n]
    BY <2>2, FullEntries
  <2> PICK e : e = <<k, id>>
    OBVIOUS
  <2>4. e \in b.entries[n] /\ e[1] = k /\ e[2] = id
    BY <2>3
  <2>5. e \in S
    BY <2>1, <2>4, <1>4, Zenon
  <2>6. PICK i \in 1 .. Len(es) : es[i] = e
    BY <2>5, <1>3, Zenon DEF Enumerates
  <2> QED BY <2>4, <2>6
<1> QED BY <1>3, <1>5, <1>6, <1>7 DEF Collected

\* What is left of it once every document was given.
LEMMA FreshFinds ==
  ASSUME NEW b, NEW n, Full(b, n), NEW lower \in Bounds, NEW upper \in Bounds,
         NEW es, es = Collect(b, n, lower, upper), NEW fs, fs = Fresh(n, es, {})
  PROVE  Collected(fs, b.entries[n], Found(b, n, lower, upper)) /\ Lists(fs, Found(b, n, lower, upper))
<1> PICK T : T = Found(b, n, lower, upper)
  OBVIOUS
<1>1. /\ es \in Seq(b.entries[n]) /\ Len(es) \in Nat
      /\ \A i, j \in 1 .. Len(es) : i < j => es[i][1] <= es[j][1] /\ es[i] # es[j]
      /\ \A i \in 1 .. Len(es) : es[i][2] \in T
      /\ \A id \in T : \E i \in 1 .. Len(es) : es[i][2] = id
  <2>1. Collected(es, b.entries[n], Found(b, n, lower, upper))
    BY CollectFinds, Zenon
  <2> QED BY <2>1, Zenon DEF Collected
<1>2. ASSUME n \in Each
      PROVE  /\ fs \in Seq(b.entries[n]) /\ Len(fs) \in Nat
             /\ \A i, j \in 1 .. Len(fs) : i < j => fs[i][1] <= fs[j][1] /\ fs[i][2] # fs[j][2]
             /\ \A i \in 1 .. Len(fs) : fs[i][2] \in T
             /\ \A id \in T : \E i \in 1 .. Len(fs) : fs[i][2] = id
  <2>1. /\ fs \in Seq(b.entries[n]) /\ Len(fs) \in Nat
        /\ \A i \in 1 .. Len(fs) : \E k \in 1 .. Len(es) : fs[i] = es[k] /\ es[k][2] \notin {}
        /\ \A i, j \in 1 .. Len(fs) : i < j =>
             fs[i][2] # fs[j][2] /\ \E k, l \in 1 .. Len(es) : k < l /\ fs[i] = es[k] /\ fs[j] = es[l]
        /\ \A k \in 1 .. Len(es) : es[k][2] \notin {} => \E i \in 1 .. Len(fs) : fs[i][2] = es[k][2]
    <3>1. GivesOnce(b.entries[n], es, {}, fs)
      BY <1>1, <1>2, FreshGives, Zenon
    <3> QED BY <3>1 DEF GivesOnce
  <2>2. \A i, j \in 1 .. Len(fs) : i < j => fs[i][1] <= fs[j][1] /\ fs[i][2] # fs[j][2]
    <3> SUFFICES ASSUME NEW i \in 1 .. Len(fs), NEW j \in 1 .. Len(fs), i < j
                 PROVE  fs[i][1] <= fs[j][1] /\ fs[i][2] # fs[j][2]
      OBVIOUS
    <3>1. fs[i][2] # fs[j][2]
      BY <2>1
    <3>2. PICK k, l \in 1 .. Len(es) : k < l /\ fs[i] = es[k] /\ fs[j] = es[l]
      BY <2>1
    <3>3. es[k][1] <= es[l][1]
      BY <1>1, <3>2
    <3> QED BY <3>1, <3>2, <3>3
  <2>3. ASSUME NEW i \in 1 .. Len(fs) PROVE fs[i][2] \in T
    <3>1. PICK k \in 1 .. Len(es) : fs[i] = es[k]
      BY <2>1
    <3> QED BY <3>1, <1>1
  <2>4. ASSUME NEW id \in T PROVE \E i \in 1 .. Len(fs) : fs[i][2] = id
    <3>1. PICK k \in 1 .. Len(es) : es[k][2] = id
      BY <1>1
    <3>2. PICK i \in 1 .. Len(fs) : fs[i][2] = es[k][2]
      BY <2>1
    <3> QED BY <3>1, <3>2
  <2> QED BY <2>1, <2>2, <2>3, <2>4
<1>3. ASSUME n \notin Each
      PROVE  /\ fs \in Seq(b.entries[n]) /\ Len(fs) \in Nat
             /\ \A i, j \in 1 .. Len(fs) : i < j => fs[i][1] <= fs[j][1] /\ fs[i][2] # fs[j][2]
             /\ \A i \in 1 .. Len(fs) : fs[i][2] \in T
             /\ \A id \in T : \E i \in 1 .. Len(fs) : fs[i][2] = id
  <2>1. fs = es
    BY <1>3, Zenon DEF Fresh
  <2>2. ASSUME NEW i \in 1 .. Len(es), NEW j \in 1 .. Len(es), i < j PROVE es[i][2] # es[j][2]
    <3>1. es[i] \in b.entries[n] /\ es[j] \in b.entries[n] /\ es[i] # es[j]
      BY <1>1, <2>2, ElementOfSeq
    <3> QED BY <3>1, <1>3, FullWalkable
  <2> QED BY <1>1, <2>1, <2>2
<1>4. /\ fs \in Seq(b.entries[n]) /\ Len(fs) \in Nat
      /\ \A i, j \in 1 .. Len(fs) : i < j => fs[i][1] <= fs[j][1] /\ fs[i][2] # fs[j][2]
      /\ \A i \in 1 .. Len(fs) : fs[i][2] \in T
      /\ \A id \in T : \E i \in 1 .. Len(fs) : fs[i][2] = id
  BY <1>2, <1>3
<1>5. Lists(fs, T)
  BY <1>4 DEF Lists
<1>6. Collected(fs, b.entries[n], T)
  <2>1. ASSUME NEW i \in 1 .. Len(fs), NEW j \in 1 .. Len(fs), i < j PROVE fs[i] # fs[j]
    BY <2>1, <1>4
  <2> QED BY <1>4, <2>1 DEF Collected
<1> QED BY <1>5, <1>6, Zenon

\* The two counts of a range.
LEMMA FoundCount ==
  ASSUME NEW T, NEW s, Lists(s, T)
  PROVE  Cardinality(T) = Len(s)
<1> USE DEF Lists
<1> DEFINE N == Len(s)
           g == [i \in 1 .. N |-> s[i][2]]
<1>1. N \in Nat /\ IsFiniteSet(1 .. N) /\ Cardinality(1 .. N) = N
  <2>1. 1 \in Int /\ N \in Int /\ N \in Nat
    OBVIOUS
  <2> HIDE DEF N
  <2>2. IsFiniteSet(1 .. N) /\ Cardinality(1 .. N) = IF 1 > N THEN 0 ELSE N - 1 + 1
    BY <2>1, FS_Interval
  <2> QED BY <2>1, <2>2
<1>2. g \in [1 .. N -> T]
  OBVIOUS
<1>3. ASSUME NEW i \in 1 .. N, NEW j \in 1 .. N, i # j PROVE g[i] # g[j]
  <2>1. i < j \/ j < i
    BY <1>3
  <2> QED BY <2>1
<1>4. ASSUME NEW id \in T PROVE \E i \in 1 .. N : g[i] = id
  OBVIOUS
<1> HIDE DEF g, N
<1>5. g \in Bijection(1 .. N, T)
  BY <1>2, <1>3, <1>4 DEF Bijection, Injection, Surjection, IsInjective
<1>6. ExistsBijection(1 .. N, T)
  BY <1>5 DEF ExistsBijection
<1>7. Cardinality(T) = Cardinality(1 .. N)
  BY <1>1, <1>6, FS_Bijection
<1> QED BY <1>1, <1>7 DEF N

-----------------------------------------------------------------------------
(* Reads of an index that has every document.                              *)

\* Version v can read all there is.
Reads(b, v) == v \in Versions /\ \A id \in Present(b) : CanDecode(b, v, b.docs[id])

\* A reader that decodes every record gets each document that is there.
LEMMA GetsAll ==
  ASSUME NEW b, b.docs \in [Ids -> Stored \cup {NoDoc}], NEW v, Reads(b, v), NEW id \in Present(b)
  PROVE  /\ b.docs[id] # NoDoc /\ b.docs[id] \in Stored
         /\ Get(b, v, id) = Decoded(v, b.docs[id]) /\ Get(b, v, id) \in Docs
         /\ Resolved(b, v, id) = Get(b, v, id)
         /\ Get(b, v, id) # Error
<1> PICK r : r = b.docs[id]
  OBVIOUS
<1>1. id \in Ids /\ r # NoDoc
  BY DEF Present
<1>2. r \in Stored /\ CanDecode(b, v, r)
  BY <1>1 DEF Reads
<1>3. Decoded(v, r) \in Docs
  BY <1>2, VersionsAssumption DEF Decoded, Stored
<1>4. Get(b, v, id) = Decoded(v, r)
  BY <1>1, <1>2 DEF Get
<1>5. Resolved(b, v, id) = Get(b, v, id)
  BY <1>1 DEF Resolved
<1> QED BY <1>1, <1>2, <1>3, <1>4, <1>5, ErrorAssumption

\* The undecoded records of documents that are there.
LEMMA RawOfPresent ==
  ASSUME NEW b, NEW ids, \A i \in DOMAIN ids : ids[i] \in Present(b)
  PROVE  RawRows(b, ids) = [i \in DOMAIN ids |-> b.docs[ids[i]]]
<1>1. \A i \in DOMAIN ids : GetRaw(b, ids[i]) # NoDoc
  BY DEF GetRaw, Present
<1> QED BY <1>1, Zenon DEF RawRows, GetRaw

\* Every way of reading a range gives each document with a key in it once.
LEMMA RangeReads ==
  ASSUME NEW vs, \A v \in vs : Reads(View, v), NEW n, Full(View, n), n \in Active(View.row),
         NEW lower \in Bounds, NEW upper \in Bounds
  PROVE  RangeFindsAll(vs, n, lower, upper)
<1> PICK b : b = View
  OBVIOUS
<1> PICK es : es = Collect(b, n, lower, upper)
  OBVIOUS
<1> PICK fs : fs = Fresh(n, es, {})
  OBVIOUS
<1> DEFINE T == Found(b, n, lower, upper)
           ids == {fs[i][2] : i \in DOMAIN fs}
<1>0. Full(b, n) /\ n \in Active(b.row) /\ \A v \in vs : Reads(b, v)
  OBVIOUS
<1>1. /\ es \in Seq(b.entries[n]) /\ Len(es) \in Nat
      /\ \A i \in 1 .. Len(es) : es[i][2] \in T
      /\ \A id \in T : \E i \in 1 .. Len(es) : es[i][2] = id
  <2>1. Collected(es, b.entries[n], T)
    BY <1>0, CollectFinds, Zenon
  <2> QED BY <2>1, Zenon DEF Collected
<1>0a. Collected(fs, b.entries[n], T) /\ Lists(fs, T)
  BY <1>0, FreshFinds, Zenon
<1>2. /\ fs \in Seq(b.entries[n]) /\ Len(fs) \in Nat
      /\ \A i, j \in 1 .. Len(fs) : i < j => fs[i][1] <= fs[j][1] /\ fs[i][2] # fs[j][2]
      /\ \A i \in 1 .. Len(fs) : fs[i][2] \in T
      /\ \A id \in T : \E i \in 1 .. Len(fs) : fs[i][2] = id
  <2>1. \A i, j \in 1 .. Len(fs) : i < j => fs[i][1] <= fs[j][1]
    <3> HIDE DEF T
    <3> QED BY <1>0a DEF Collected
  <2>2. \A i, j \in 1 .. Len(fs) : i < j => fs[i][2] # fs[j][2]
    BY <1>0a, Zenon DEF Lists
  <2>3. /\ fs \in Seq(b.entries[n]) /\ Len(fs) \in Nat
        /\ \A i \in 1 .. Len(fs) : fs[i][2] \in T
        /\ \A id \in T : \E i \in 1 .. Len(fs) : fs[i][2] = id
    BY <1>0a, Zenon DEF Collected
  <2> HIDE DEF T
  <2>4. ASSUME NEW i \in 1 .. Len(fs), NEW j \in 1 .. Len(fs), i < j
        PROVE  fs[i][1] <= fs[j][1] /\ fs[i][2] # fs[j][2]
    BY <2>1, <2>2, <2>4
  <2> QED BY <2>3, <2>4, Zenon
<1> HIDE DEF T
<1>3. DOMAIN fs = 1 .. Len(fs) /\ DOMAIN es = 1 .. Len(es)
  BY <1>1, <1>2, LenProperties
<1>4. ids = T /\ {es[i][2] : i \in DOMAIN es} = T
  <2>1. ids = T
    BY <1>2, <1>3
  <2>2. {es[i][2] : i \in DOMAIN es} = T
    BY <1>1, <1>3
  <2> QED BY <2>1, <2>2
<1>5. T = Matching(n, lower, upper)
  BY Zenon DEF T, Found, Matching
<1>6. Len(fs) = Cardinality(T)
  BY <1>0a, FoundCount, Zenon
<1>7. \A i \in DOMAIN fs : fs[i][2] \in Present(b)
  <2>1. T \subseteq Present(b)
    BY DEF T, Found
  <2> QED BY <2>1, <1>2, <1>3
<1>8. IndexRangeRaw(b, n, es) = [i \in DOMAIN fs |-> b.docs[fs[i][2]]]
  <2> DEFINE at == [i \in DOMAIN fs |-> fs[i][2]]
  <2>1. IndexRangeRaw(b, n, es) = RawRows(b, at)
    BY <1>0, Zenon DEF IndexRangeRaw, Usable
  <2>2. DOMAIN at = DOMAIN fs /\ \A i \in DOMAIN fs : at[i] = fs[i][2]
    OBVIOUS
  <2> HIDE DEF at
  <2>3. \A i \in DOMAIN at : at[i] \in Present(b)
    BY <2>2, <1>7
  <2>4. RawRows(b, at) = [i \in DOMAIN at |-> b.docs[at[i]]]
    BY <2>3, RawOfPresent
  <2>5. [i \in DOMAIN at |-> b.docs[at[i]]] = [i \in DOMAIN fs |-> b.docs[fs[i][2]]]
    BY <2>2
  <2> QED BY <2>1, <2>4, <2>5, Zenon
<1>9. CountIndexRangeRaw(b, n, es) = CountIndexRange(es)
  BY <1>0, Zenon DEF CountIndexRangeRaw, CountIndexRange, Usable
<1>10. CountDistinct(es) = IF Len(fs) > MaxDistinct THEN Error ELSE Len(fs)
  <2>1. CountDistinct(es) = IF Cardinality(T) > MaxDistinct THEN Error ELSE Cardinality(T)
    BY <1>4, Zenon DEF CountDistinct
  <2> QED BY <2>1, <1>6, Zenon
<1>11. ASSUME NEW v \in vs
       PROVE  /\ \A i \in DOMAIN fs : Get(b, v, fs[i][2]) \in Docs
              /\ IterRange(b, v, n, lower, upper) = IndexRange(b, v, n, es)
  <2>1. b.docs \in [Ids -> Stored \cup {NoDoc}] /\ Reads(b, v)
    BY <1>0 DEF Full
  <2>2. \A i \in DOMAIN fs : Get(b, v, fs[i][2]) \in Docs
    BY <2>1, <1>7, GetsAll, Zenon
  <2>3. IsBound(WidenLower(n, lower)) /\ Walkable(b, n)
    BY <1>0, BoundsType, FullWalkable
  <2>4. IterRange(b, v, n, lower, upper) = Rows(b, v, Fresh(n, es, {}))
    <3>1. \A start, end : IsBound(start)
             => Refills(b, v, n, start, end) = Rows(b, v, Fresh(n, Walk(b, n, start, end), {}))
      BY <2>3, RefillsAll, Zenon
    <3>2. IterRange(b, v, n, lower, upper)
            = Rows(b, v, Fresh(n, Walk(b, n, WidenLower(n, lower), WidenUpper(n, upper)), {}))
      BY <3>1, <2>3, Zenon DEF IterRange
    <3> QED BY <3>2, Zenon DEF Collect
  <2> QED BY <2>2, <2>4, Zenon DEF IndexRange
<1>12. \A i, j \in DOMAIN fs : i < j => fs[i][1] <= fs[j][1]
  BY <1>2, <1>3
<1>13. RangeFindsAll(vs, n, lower, upper) <=>
         /\ ids = Matching(n, lower, upper) /\ Len(fs) = Cardinality(ids)
         /\ \A i, j \in DOMAIN fs : i < j => fs[i][1] <= fs[j][1]
         /\ phase = "idle" =>
              /\ IndexRangeRaw(b, n, es) = [i \in DOMAIN fs |-> b.docs[fs[i][2]]]
              /\ CountIndexRangeRaw(b, n, es) = CountIndexRange(es)
         /\ CountDistinct(es) = IF Len(fs) > MaxDistinct THEN Error ELSE Len(fs)
         /\ \A v \in vs :
              /\ \A i \in DOMAIN fs : Get(b, v, fs[i][2]) \in Docs
              /\ IterRange(b, v, n, lower, upper) = IndexRange(b, v, n, es)
  BY DEF RangeFindsAll
<1> HIDE DEF ids
<1> QED BY <1>4, <1>5, <1>6, <1>8, <1>9, <1>10, <1>11, <1>12, <1>13, Zenon

-----------------------------------------------------------------------------
(* The entries under one key.                                              *)

At(b, n, k) == {e \in b.entries[n] : e[1] = k}

\* A range from a key to itself has the entries of that key alone, widened or not.
LEMMA KeyBound ==
  ASSUME NEW k \in KeyVals, NEW at, at = Included(<<k, 0>>)
  PROVE  /\ at \in Bounds /\ \A j \in Nat : Within(j, at, at) <=> j = k
         /\ \A n : /\ WidenLower(n, at) = at
                   /\ n \in Unique => WidenUpper(n, at) = at
                   /\ n \notin Unique => WidenUpper(n, at) = Included(<<k, MaxId>>)
<1>1. at.kind = "included" /\ at.at = <<k, 0>> /\ at.at[1] = k
  BY DEF Included
<1>2. at \in Bounds
  BY DEF Bounds
<1>3. k \in Nat
  BY KeysAssumption
<1>4. ASSUME NEW j \in Nat PROVE Within(j, at, at) <=> j = k
  <2>1. Within(j, at, at) <=> j >= k /\ j <= k
    BY <1>1 DEF Within
  <2> QED BY <2>1, <1>3
<1>5. ASSUME NEW n PROVE /\ WidenLower(n, at) = at
                         /\ n \in Unique => WidenUpper(n, at) = at
                         /\ n \notin Unique => WidenUpper(n, at) = Included(<<k, MaxId>>)
  BY <1>1 DEF WidenLower, WidenUpper
<1> QED BY <1>2, <1>4, <1>5

\* They all belong to different documents, so each of them is given.
LEMMA KeyRange ==
  ASSUME NEW b, NEW n, Full(b, n), NEW k \in KeyVals, NEW at, at = Included(<<k, 0>>),
         NEW es, es = Collect(b, n, at, at)
  PROVE  /\ es \in Seq(At(b, n, k)) /\ Len(es) \in Nat
         /\ \A e \in At(b, n, k) : \E i \in 1 .. Len(es) : es[i] = e
         /\ Fresh(n, es, {}) = es /\ es = InOrder(At(b, n, k))
<1> DEFINE S == At(b, n, k)
<1>1. Walkable(b, n) /\ at \in Bounds /\ \A j \in Nat : Within(j, at, at) <=> j = k
  BY FullWalkable, KeyBound
<1>2. \A e \in b.entries[n] : e[1] \in Nat
  BY <1>1, EntryPairs
<1>3. Extent(b, n, WidenLower(n, at), WidenUpper(n, at)) = S
  <2>1. Extent(b, n, WidenLower(n, at), WidenUpper(n, at)) = {e \in b.entries[n] : Within(e[1], at, at)}
    BY <1>1, CollectWithin
  <2>2. \A e \in b.entries[n] : Within(e[1], at, at) <=> e[1] = k
    BY <1>1, <1>2
  <2>3. {e \in b.entries[n] : Within(e[1], at, at)} = S
    BY <2>2, Zenon DEF At
  <2> QED BY <2>1, <2>3, Zenon
<1>4. es = InOrder(S)
  BY <1>3, Zenon DEF Collect, Walk, Extent
<1>5. S \subseteq Pairs /\ S \subseteq b.entries[n]
  BY <1>1, EntryPairs DEF At
<1>6. IsFiniteSet(S)
  <2>1. IsFiniteSet(b.entries[n])
    BY <1>1 DEF Walkable
  <2> HIDE DEF S
  <2> QED BY <2>1, <1>5, FS_Subset
<1>7. Orders(KeyOrder, S) /\ es = Ordered(S, KeyOrder)
  <2> HIDE DEF S
  <2> QED BY <1>5, <1>4, KeysOrdered, InOrderIs
<1>8. Enumerates(es, S, KeyOrder) /\ Len(es) \in Nat
  <2> HIDE DEF S
  <2> QED BY <1>6, <1>7, OrderedEnumerates
<1>9. Fresh(n, es, {}) = es
  <2>1. CASE n \notin Each
    BY <2>1, Zenon DEF Fresh
  <2>2. CASE n \in Each
    <3> PICK fs : fs = Fresh(n, es, {})
      OBVIOUS
    <3>0. es \in Seq(S)
      BY <1>8, Zenon DEF Enumerates
    <3>1. GivesOnce(S, es, {}, fs)
      <4> HIDE DEF S
      <4> QED BY <3>0, <2>2, FreshGives, Zenon
    <3>2. \A e, f \in S : e[2] = f[2] => e = f
      <4> SUFFICES ASSUME NEW e \in S, NEW f \in S, e[2] = f[2] PROVE e = f
        OBVIOUS
      <4>1. e = <<e[1], e[2]>> /\ f = <<f[1], f[2]>>
        BY <1>1, <1>5, EntryPairs
      <4>2. e[1] = k /\ f[1] = k
        BY DEF At
      <4> QED BY <4>1, <4>2
    <3> HIDE DEF S
    <3>3. \A i \in 1 .. Len(es) : es[i] \in S
      BY <3>0, ElementOfSeq
    <3>4. ASSUME NEW e \in S PROVE \E i \in 1 .. Len(fs) : fs[i] = e
      <4>1. PICK j \in 1 .. Len(es) : es[j] = e
        BY <1>8 DEF Enumerates
      <4>2. PICK i \in 1 .. Len(fs) : fs[i][2] = es[j][2]
        <5>1. es[j][2] \notin {}
          OBVIOUS
        <5> QED BY <3>1, <5>1, GivesEvery
      <4>3. fs[i] \in S
        BY <3>1, ElementOfSeq DEF GivesOnce
      <4> QED BY <4>1, <4>2, <4>3, <3>2
    <3>5. \A i, j \in 1 .. Len(fs) : i < j => <<fs[i], fs[j]>> \in KeyOrder
      BY <3>1, <1>8, GivesInOrder
    <3>6. Enumerates(fs, S, KeyOrder)
      BY <3>1, <3>4, <3>5 DEF GivesOnce, Enumerates
    <3>7. fs = Ordered(S, KeyOrder)
      BY <3>6, <1>7, EnumeratesOnce
    <3> QED BY <3>7, <1>7
  <2> QED BY <2>1, <2>2
<1> QED BY <1>4, <1>8, <1>9 DEF Enumerates

\* lookup and find_unique give what the range of the key gives.
LEMMA LookupReads ==
  ASSUME NEW v, Reads(View, v), NEW n, Full(View, n), n \in Active(View.row), NEW k \in KeyVals
  PROVE  LookupFindsAll(n, k, v)
<1> PICK b : b = View
  OBVIOUS
<1> PICK at : at = Included(<<k, 0>>)
  OBVIOUS
<1> PICK es : es = Collect(b, n, at, at)
  OBVIOUS
<1> PICK range : range = IndexRange(b, v, n, es)
  OBVIOUS
<1> DEFINE S == At(b, n, k)
<1>0. Full(b, n) /\ n \in Active(b.row) /\ Reads(b, v) /\ b.docs \in [Ids -> Stored \cup {NoDoc}]
  BY DEF Full
<1>1. /\ es \in Seq(S) /\ Len(es) \in Nat
      /\ \A e \in S : \E i \in 1 .. Len(es) : es[i] = e
      /\ Fresh(n, es, {}) = es /\ es = InOrder(S)
  BY <1>0, KeyRange
<1>2. S \subseteq b.entries[n] /\ \A e \in S : e[1] = k /\ e = <<e[1], e[2]>> /\ e[2] \in Present(b)
  <2>1. Walkable(b, n)
    BY <1>0, FullWalkable
  <2>2. \A e \in b.entries[n] : e = <<e[1], e[2]>>
    BY <2>1, EntryPairs
  <2>3. S \subseteq b.entries[n] /\ \A e \in S : e[1] = k
    BY DEF At
  <2>4. ASSUME NEW e \in S PROVE e[2] \in Present(b)
    <3>1. <<e[1], e[2]>> \in b.entries[n]
      BY <2>2, <2>3
    <3> QED BY <3>1, <1>0, FullEntries
  <2> HIDE DEF S
  <2> QED BY <2>2, <2>3, <2>4
<1> HIDE DEF S
<1>3. DOMAIN es = 1 .. Len(es) /\ \A i \in 1 .. Len(es) : es[i] \in S
  BY <1>1, LenProperties, ElementOfSeq
<1>4. range = [i \in DOMAIN es |-> [key |-> es[i][1], doc |-> Resolved(b, v, es[i][2])]]
  BY <1>1, Zenon DEF IndexRange, Rows
<1>5. DOMAIN range = DOMAIN es /\ \A i \in DOMAIN es : range[i].doc = Resolved(b, v, es[i][2])
  BY <1>4
<1>6. \A i \in DOMAIN es : Resolved(b, v, es[i][2]) # Error
  <2> TAKE i \in DOMAIN es
  <2> PICK id : id = es[i][2]
    OBVIOUS
  <2>1. id \in Present(b)
    BY <1>2, <1>3
  <2> QED BY <2>1, <1>0, GetsAll
<1>7. Lookup(b, v, n, k) = [i \in DOMAIN range |-> range[i].doc]
  <2> DEFINE found == [i \in DOMAIN es |-> Resolved(b, v, es[i][2])]
             ks == IF n \in Unique THEN InOrder({e \in b.entries[n] : e[1] = k})
                   ELSE Walk(b, n, Included(<<k, 0>>), Included(<<k, MaxId>>))
             got == [i \in DOMAIN ks |-> Resolved(b, v, ks[i][2])]
  <2>1. ks = es
    <3>1. CASE n \in Unique
      BY <3>1, <1>1, Zenon DEF S, At
    <3>2. CASE n \notin Unique
      <4>1. WidenLower(n, at) = at /\ WidenUpper(n, at) = Included(<<k, MaxId>>)
        BY <3>2, KeyBound
      <4> QED BY <3>2, <4>1, Zenon DEF Collect
    <3> QED BY <3>1, <3>2
  <2>2. Lookup(b, v, n, k) = IF \E i \in DOMAIN got : got[i] = Error THEN Error ELSE got
    BY Zenon DEF Lookup
  <2> HIDE DEF ks
  <2>3. got = found
    BY <2>1, Zenon
  <2>4. \A i \in DOMAIN found : found[i] # Error
    BY <1>6
  <2>5. [i \in DOMAIN range |-> range[i].doc] = found
    BY <1>5
  <2> HIDE DEF got, found
  <2> QED BY <2>2, <2>3, <2>4, <2>5, Zenon
<1>8. range = <<>> <=> S = {}
  <2>1. range \in [1 .. Len(es) -> {range[i] : i \in 1 .. Len(es)}]
    BY <1>3, <1>4
  <2>2. range \in Seq({range[i] : i \in 1 .. Len(es)}) /\ Len(range) = Len(es)
    <3> PICK X : X = {range[i] : i \in 1 .. Len(es)}
      OBVIOUS
    <3>1. range \in [1 .. Len(es) -> X] /\ Len(es) \in Nat
      BY <1>1, <2>1, Zenon
    <3>2. range \in Seq(X) /\ Len(range) = Len(es)
      BY <3>1, FcnIsSeq
    <3> QED BY <3>2, Zenon
  <2>3. range = <<>> <=> Len(es) = 0
    BY <2>2, EmptySeq
  <2>4. S = {} <=> Len(es) = 0
    <3>1. Len(es) = 0 => S = {}
      BY <1>1
    <3>2. Len(es) # 0 => 1 \in 1 .. Len(es)
      BY <1>1
    <3> QED BY <1>3, <3>1, <3>2
  <2> QED BY <2>3, <2>4
<1>9. ASSUME n \in Unique
      PROVE  /\ FindUnique(b, v, n, k) = IF range = <<>> THEN NoDoc ELSE range[1].doc
             /\ FindUniqueRaw(b, n, k) = NoDoc <=> range = <<>>
  <2> DEFINE H == Holders(b, n, k)
  <2>0. H = {e[2] : e \in S}
    BY Zenon DEF Holders, S, At
  <2>1. Usable(b, n)
    BY <1>0 DEF Usable
  <2>2. CASE S = {}
    <3>1. H = {}
      BY <2>0, <2>2
    <3> HIDE DEF H
    <3>2. FindUnique(b, v, n, k) = NoDoc
      BY <3>1, <2>1, <1>9, Zenon DEF FindUnique, H
    <3>3. FindUniqueRaw(b, n, k) = NoDoc
      BY <3>1, <2>1, <1>9, Zenon DEF FindUniqueRaw, H
    <3> QED BY <3>2, <3>3, <1>8, <2>2, Zenon
  <2>3. CASE S # {}
    <3> PICK e : e = es[1]
      OBVIOUS
    <3>1. 1 \in DOMAIN es /\ e \in S
      <4>1. PICK x \in S : TRUE
        BY <2>3
      <4>2. PICK i \in 1 .. Len(es) : es[i] = x
        BY <1>1
      <4>3. 1 \in 1 .. Len(es)
        BY <1>1, <4>2
      <4> QED BY <4>3, <1>3
    <3>2. \A f \in S : f = e
      <4>1. Walkable(b, n)
        BY <1>0, FullWalkable
      <4>2. \A f \in S : f[1] = e[1] /\ f \in b.entries[n]
        BY <3>1, <1>2
      <4> QED BY <4>1, <4>2, <3>1, <1>9 DEF Walkable
    <3> PICK id : id = e[2]
      OBVIOUS
    <3>3. H = {id}
      BY <2>0, <3>1, <3>2
    <3> HIDE DEF H
    <3>4. H # {} /\ (CHOOSE i \in H : TRUE) = id
      BY <3>3
    <3>5. id \in Present(b)
      BY <3>1, <1>2
    <3>6. b.docs[id] # NoDoc /\ Resolved(b, v, id) = Get(b, v, id)
      BY <3>5, <1>0, GetsAll
    <3>7. range[1].doc = Resolved(b, v, id)
      BY <3>1, <1>5
    <3>8. FindUnique(b, v, n, k) = Get(b, v, id)
      BY <3>4, <2>1, <1>9, Zenon DEF FindUnique, H
    <3>9. FindUniqueRaw(b, n, k) # NoDoc
      <4>1. FindUniqueRaw(b, n, k) = IF GetRaw(b, id) = NoDoc THEN Error ELSE GetRaw(b, id)
        BY <3>4, <2>1, <1>9, Zenon DEF FindUniqueRaw, H
      <4> QED BY <4>1, <3>6, Zenon DEF GetRaw
    <3> QED BY <3>6, <3>7, <3>8, <3>9, <1>8, <2>3, Zenon
  <2> QED BY <2>2, <2>3
<1> QED BY <1>7, <1>9, Zenon DEF LookupFindsAll

-----------------------------------------------------------------------------
(* Scans of the primary tree.                                              *)

\* Every scan of the primary tree gives each document once.
LEMMA ScansRead ==
  ASSUME NEW vs, \A v \in vs : Reads(View, v), View.docs \in [Ids -> Stored \cup {NoDoc}]
  PROVE  ScansFindAll(vs)
<1> PICK b : b = View
  OBVIOUS
<1> PICK P : P = Present(b)
  OBVIOUS
<1> PICK ids : ids = IdsInOrder(P)
  OBVIOUS
<1> DEFINE N == Cardinality(P)
<1>0. b.docs \in [Ids -> Stored \cup {NoDoc}] /\ \A v \in vs : Reads(b, v)
  OBVIOUS
<1>1. Enumerates(ids, P, Less) /\ ids \in Seq(P) /\ Len(ids) = N /\ N \in Nat
  BY PresentOrdered
<1>2. DOMAIN ids = 1 .. N /\ \A i \in 1 .. N : ids[i] \in Present(b)
  BY <1>1, LenProperties, ElementOfSeq
<1>3. CountAll(b) = N
  BY Zenon DEF CountAll
<1> HIDE DEF N
<1>4. RecordsOf(b, ids) = [i \in 1 .. N |-> b.docs[ids[i]]]
  BY <1>2, Zenon DEF RecordsOf
<1>5. AllRaw(b) = [i \in 1 .. N |-> b.docs[ids[i]]]
  <2>1. AllRaw(b) = [i \in 1 .. N |-> b.docs[NthId(P, i)]]
    BY <1>3, Zenon DEF AllRaw
  <2>2. ids = [i \in 1 .. N |-> NthId(P, i)]
    BY Zenon DEF IdsInOrder, N
  <2>3. \A i \in 1 .. N : ids[i] = NthId(P, i)
    <3> DEFINE A(i) == NthId(P, i)
    <3>1. ids = [i \in 1 .. N |-> A(i)]
      BY <2>2, Zenon
    <3> HIDE DEF A
    <3>2. \A i \in 1 .. N : ids[i] = A(i)
      BY <3>1
    <3> QED BY <3>2, Zenon DEF A
  <2> QED BY <2>1, <2>3, Zenon
<1>6. Dumped(b) = AllRaw(b)
  BY <1>4, <1>5, DumpedAll, Zenon
<1>7. Len(AllRaw(b)) = N
  BY <1>1, <1>5
<1>8. DumpRaw(b, 0) = AllRaw(b)
  BY <1>6, Zenon DEF DumpRaw
<1>9. DumpRaw(b, 1) = SubSeq(AllRaw(b), 1, Least(1, CountAll(b)))
  <2>1. DumpRaw(b, 1) = SubSeq(Dumped(b), 1, Least(1, Len(Dumped(b))))
    BY DEF DumpRaw
  <2> QED BY <2>1, <1>3, <1>6, <1>7, Zenon
<1>10. ASSUME NEW v \in vs PROVE Len(All(b, v)) = CountAll(b) /\ IterAll(b, v) = All(b, v)
  <2>1. \A i \in 1 .. N : /\ Get(b, v, ids[i]) # Error
                          /\ CanDecode(b, v, b.docs[ids[i]])
                          /\ Get(b, v, ids[i]) = Decoded(v, b.docs[ids[i]])
    <3> TAKE i \in 1 .. N
    <3> PICK id : id = ids[i]
      OBVIOUS
    <3>1. id \in Present(b)
      BY <1>2
    <3>2. CanDecode(b, v, b.docs[id])
      BY <3>1, <1>0, Zenon DEF Reads
    <3> QED BY <3>1, <3>2, <1>0, GetsAll
  <2>2. All(b, v) = [i \in 1 .. N |-> Get(b, v, ids[i])]
    BY <2>1, <1>2, Zenon DEF All
  <2>3. Len(All(b, v)) = N
    BY <2>2, <1>1
  <2> PICK rows : rows = [i \in 1 .. N |-> b.docs[ids[i]]]
    OBVIOUS
  <2>4. DOMAIN rows = 1 .. N /\ \A i \in 1 .. N : rows[i] = b.docs[ids[i]]
    OBVIOUS
  <2>5. IterAll(b, v) = [i \in DOMAIN rows |-> IF CanDecode(b, v, rows[i]) THEN Decoded(v, rows[i]) ELSE Error]
    BY <1>5, <1>6, Zenon DEF IterAll
  <2>6. IterAll(b, v) = [i \in 1 .. N |-> IF CanDecode(b, v, rows[i]) THEN Decoded(v, rows[i]) ELSE Error]
    BY <2>4, <2>5, Zenon
  <2>7. \A i \in 1 .. N : (IF CanDecode(b, v, rows[i]) THEN Decoded(v, rows[i]) ELSE Error) = Get(b, v, ids[i])
    BY <2>1, <2>4, Zenon
  <2>8. IterAll(b, v) = [i \in 1 .. N |-> Get(b, v, ids[i])]
    <3> DEFINE A(i) == IF CanDecode(b, v, rows[i]) THEN Decoded(v, rows[i]) ELSE Error
               B(i) == Get(b, v, ids[i])
    <3>1. \A i \in 1 .. N : A(i) = B(i)
      BY <2>7, Zenon
    <3>2. IterAll(b, v) = [i \in 1 .. N |-> A(i)]
      BY <2>6, Zenon
    <3> HIDE DEF A, B
    <3>3. IterAll(b, v) = [i \in 1 .. N |-> B(i)]
      BY <3>1, <3>2
    <3> QED BY <3>3, Zenon DEF B
  <2> QED BY <2>2, <2>3, <2>8, <1>3, Zenon
<1> QED BY <1>8, <1>9, <1>10, Zenon DEF ScansFindAll

-----------------------------------------------------------------------------
(* What is read of the collection.                                         *)

\* The cached descriptor names the indexes of the catalog row Active, unless
\* a reconciliation has changed the row behind it.
AgreeInv == ~behind /\ cache # NoRow => cache.active = db.row.active

\* No step gives a cached row other active indexes than those of its database.
LEMMA AgreeStep == TypeInv /\ AgreeInv /\ [Next]_vars => AgreeInv'
<1> SUFFICES ASSUME TypeInv, AgreeInv, [Next]_vars PROVE AgreeInv'
  OBVIOUS
<1>1. CASE Begin
  BY <1>1 DEF Begin, AgreeInv, history
<1>2. ASSUME NEW v \in Versions, OpenCollection(v) PROVE AgreeInv'
  <2> SUFFICES ASSUME ~behind', cache # NoRow PROVE cache.active = db'.row.active
    BY <1>2, OpenEffect DEF AgreeInv
  <2>1. Opened = db
    BY OpenedEffect DEF TypeInv
  <2>2. db' = Opened /\ behind' = behind
    BY <1>2, OpenEffect
  <2> QED BY <2>1, <2>2 DEF AgreeInv
<1>3. CASE Operate
  <2>1. behind' = behind /\ db'.row = db.row /\ cache'.active = Live.active
    BY <1>3, SameIndexes
  <2> QED BY <2>1 DEF AgreeInv, Live
<1>4. CASE Commit \/ Rollback \/ Restart
  BY <1>4 DEF Commit, Rollback, Restart, Closed, AgreeInv
<1>5. CASE UNCHANGED vars
  BY <1>5 DEF vars, history, AgreeInv
<1> QED BY <1>1, <1>2, <1>3, <1>4, <1>5 DEF Next

\* While the process is not behind, its cached row has the active indexes of the
\* database.
LEMMA AgreeInvariant == Spec => []AgreeInv
<1>1. Init => AgreeInv
  BY DEF Init, AgreeInv
<1> QED BY <1>1, AgreeStep, TypeInvariant, PTL DEF Spec

\* What is read has all documents in the indexes that ought to have them.
LEMMA ViewFull ==
  ASSUME TypeInv, FollowInv, AgreeInv, CanRead
  PROVE  /\ View \in Database /\ View.docs \in [Ids -> Stored \cup {NoDoc}]
         /\ \A n \in Complete : Full(View, n) /\ n \in Active(View.row)
<1>1. View \in Database
  BY DEF View, TypeInv
<1>2. View.docs \in [Ids -> Stored \cup {NoDoc}] /\ View.full \subseteq Names
  BY <1>1 DEF Database
<1>3. ASSUME NEW n \in Complete PROVE Follows(View, n, newest)
  <2>1. n \in Active(View.row) /\ (n \in Steady \/ ~wentBack)
    BY <1>3, Zenon DEF Complete
  <2>2. View.row # NoRow /\ ~View.neglected
    BY DEF CanRead
  <2>3. CASE phase = "idle"
    <3>1. View = saved
      BY <2>3 DEF View
    <3>2. AllFollow(saved, saved.row, newest, wentBack)
      BY DEF FollowInv
    <3> QED BY <2>1, <2>2, <3>1, <3>2 DEF AllFollow
  <2>4. CASE phase # "idle"
    <3>1. View = db /\ ~behind
      BY <2>4 DEF View, CanRead
    <3>2. AllFollow(db, Live, newest, wentBack)
      BY DEF FollowInv
    <3>3. Live # NoRow /\ Active(Live) = Active(db.row)
      BY <3>1, <2>2 DEF Live, AgreeInv, Active
    <3> QED BY <2>1, <2>2, <3>1, <3>2, <3>3 DEF AllFollow
  <2> QED BY <2>3, <2>4
<1>4. ASSUME NEW n \in Complete PROVE Full(View, n) /\ n \in Active(View.row)
  <2>1. n \in View.full /\ n \in Active(View.row)
    BY Zenon DEF Complete
  <2>2. Follows(View, n, newest)
    BY <1>3
  <2> QED BY <1>2, <2>1, <2>2 DEF Follows, Full
<1> QED BY <1>1, <1>2, <1>4

\* The types that can read everything are versions of the program.
LEMMA ReadersRead ==
  ASSUME TypeInv, CanRead
  PROVE  \A v \in Readers : Reads(View, v)
<1> TAKE v \in Readers
<1>1. \A id \in Present(View) : CanDecode(View, v, View.docs[id])
  BY Zenon DEF Readers
<1>2. v \in IF phase = "idle" THEN Versions ELSE {handle}
  BY Zenon DEF Readers
<1>3. v \in Versions
  BY <1>2 DEF CanRead, TypeInv
<1> QED BY <1>1, <1>3, Zenon DEF Reads

\* A range of an index (collect_range and widen_bounds_for_kind) has each
\* document with a key in it once, in key order and without an error; the
\* iterator that collects it in batches (IterIndexRange) gives the same, also
\* when a batch ends between two entries of one document of an Each index; the
\* raw range, the counts, lookup and find_unique agree with it, and iter_all
\* and dump_raw give every record once, in the order of ids.  It is so in a
\* snapshot and in a transaction that has written, after any interleaving of
\* commits, rollbacks, restarts and reconciliations, for batches, id spaces,
\* documents and indexes of any size.
THEOREM ReadsAreComplete == Spec => []ReadsFindAll
<1>1. TypeInv /\ FollowInv /\ AgreeInv => ReadsFindAll
  <2> SUFFICES ASSUME TypeInv, FollowInv, AgreeInv, CanRead
               PROVE  \E vs \in {Readers} :
                        /\ \A n \in Complete, lower, upper \in Bounds : RangeFindsAll(vs, n, lower, upper)
                        /\ \A n \in Complete, k \in KeyVals, v \in vs : LookupFindsAll(n, k, v)
                        /\ ScansFindAll(vs)
    BY Zenon DEF ReadsFindAll
  <2>1. \A v \in Readers : Reads(View, v)
    BY ReadersRead
  <2>2. /\ View.docs \in [Ids -> Stored \cup {NoDoc}]
        /\ \A n \in Complete : Full(View, n) /\ n \in Active(View.row)
    BY ViewFull
  <2>3. ASSUME NEW n \in Complete, NEW lower \in Bounds, NEW upper \in Bounds
        PROVE  RangeFindsAll(Readers, n, lower, upper)
    BY <2>1, <2>2, RangeReads, Zenon
  <2>4. ASSUME NEW n \in Complete, NEW k \in KeyVals, NEW v \in Readers
        PROVE  LookupFindsAll(n, k, v)
    BY <2>1, <2>2, LookupReads, Zenon
  <2>5. ScansFindAll(Readers)
    BY <2>1, <2>2, ScansRead, Zenon
  <2> QED BY <2>3, <2>4, <2>5, Zenon
<1> QED BY <1>1, FollowInvariant, AgreeInvariant, TypeInvariant, PTL

\* "clean db must pass": between transactions, whatever was written, rolled
\* back or cut off before, the integrity check (cross_reference_index,
\* check_primary_to_index) finds no index entry without its document, unless
\* an older version wrote to an index whose keys migration changes, and none
\* missing from an index that has been there before the documents.
THEOREM IntegrityCheckPasses == Spec => []CheckPasses
<1>1. TypeInv /\ FollowInv /\ AgreeInv => CheckPasses
  <2> SUFFICES ASSUME TypeInv, FollowInv, AgreeInv, phase = "idle", CanRead
               PROVE  /\ \A f \in OrphanIndexEntries(saved) : f[1] \notin Steady /\ wentBack
                      /\ \A f \in MissingIndexEntries(saved) : f[1] \notin Complete
    BY Zenon DEF CheckPasses
  <2>0. saved = View /\ saved \in Database /\ saved.row # NoRow /\ ~saved.neglected
    BY DEF View, CanRead, TypeInv
  <2>1. ASSUME NEW f \in OrphanIndexEntries(saved) PROVE f[1] \notin Steady /\ wentBack
    <3> PICK n, id : n = f[1] /\ id = f[2]
      OBVIOUS
    <3>1. n \in Active(saved.row) /\ id \in Scanned(saved, n) /\ id \in Ids /\ id \notin Present(saved)
      BY <2>1 DEF OrphanIndexEntries
    <3> SUFFICES ASSUME n \in Steady \/ ~wentBack PROVE FALSE
      BY DEF TypeInv
    <3>2. Follows(saved, n, newest)
      BY <2>0, <3>1 DEF FollowInv, AllFollow
    <3>3. PICK e \in saved.entries[n] : e[2] = id
      BY <3>1 DEF Scanned
    <3>4. e \in Expected(saved, n)
      BY <3>2 DEF Follows
    <3>5. saved.docs[id] # NoDoc
      BY <3>3, <3>4 DEF Expected
    <3> QED BY <3>1, <3>5 DEF Present
  <2>2. ASSUME NEW f \in MissingIndexEntries(saved) PROVE f[1] \notin Complete
    <3> PICK n, id : n = f[1] /\ id = f[2]
      OBVIOUS
    <3>1. n \in Active(saved.row) \ Each /\ id \in Present(saved) /\ id \notin Scanned(saved, n)
      BY <2>2 DEF MissingIndexEntries
    <3> SUFFICES ASSUME n \in Complete PROVE FALSE
      OBVIOUS
    <3>2. Full(saved, n)
      BY <2>0, ViewFull
    <3>3. n \in Names /\ saved.docs[id].doc \in Docs
      BY <3>1, <3>2, FullEntries DEF Full
    <3> PICK d : d = saved.docs[id].doc
      OBVIOUS
    <3>4. PICK k \in KeyVals : Keys[n][d] = {k}
      BY <3>1, <3>3, IndexesAssumption
    <3>5. <<k, id>> \in saved.entries[n]
      BY <3>1, <3>2, <3>4, FullEntries
    <3>6. id \in Scanned(saved, n)
      BY <3>5 DEF Scanned
    <3> QED BY <3>1, <3>6
  <2> QED BY <2>1, <2>2
<1> QED BY <1>1, FollowInvariant, AgreeInvariant, TypeInvariant, PTL

-----------------------------------------------------------------------------
(* Filters, limits and sorting.                                            *)

\* What passes a filter.
LEMMA PassingKeeps ==
  ASSUME NEW cs \in Seq(Docs), NEW pass, NEW ds, ds = Passing(cs, pass)
  PROVE  /\ ds \in Seq(Docs) /\ Len(ds) \in Nat /\ Len(cs) \in Nat /\ Len(ds) <= Len(cs)
         /\ pass = Docs => Len(ds) = Len(cs)
<1> DEFINE K == {i \in 1 .. Len(cs) : cs[i] = Error \/ cs[i] \in pass}
<1>1. Len(cs) \in Nat /\ DOMAIN cs = 1 .. Len(cs) /\ \A i \in 1 .. Len(cs) : cs[i] \in Docs
  BY LenProperties, ElementOfSeq
<1>2. IsFiniteSet(1 .. Len(cs)) /\ Cardinality(1 .. Len(cs)) = Len(cs)
  <2>1. 1 \in Int /\ Len(cs) \in Int
    BY <1>1
  <2>2. IsFiniteSet(1 .. Len(cs)) /\ Cardinality(1 .. Len(cs)) = IF 1 > Len(cs) THEN 0 ELSE Len(cs) - 1 + 1
    BY <2>1, FS_Interval
  <2> QED BY <1>1, <2>2
<1>3. K \in SUBSET (1 .. Len(cs)) /\ K \subseteq Nat
  BY <1>1
<1>4. IsFiniteSet(K) /\ Cardinality(K) <= Len(cs) /\ Cardinality(K) \in Nat
  <2> HIDE DEF K
  <2> QED BY <1>2, <1>3, FS_Subset, FS_CardinalityType
<1>5. pass = Docs => K = 1 .. Len(cs)
  BY <1>1
<1> PICK at : at = IdsInOrder(K)
  OBVIOUS
<1>6. ds = [i \in DOMAIN at |-> cs[at[i]]]
  BY <1>1, Zenon DEF Passing
<1> HIDE DEF K
<1>7. Orders(Less, K) /\ at = Ordered(K, Less)
  BY <1>3, NumbersOrdered, IdsInOrderIs
<1>8. Enumerates(at, K, Less) /\ Len(at) = Cardinality(K)
  BY <1>4, <1>7, OrderedEnumerates
<1>9. at \in Seq(K)
  BY <1>8 DEF Enumerates
<1>10. DOMAIN at = 1 .. Len(at) /\ \A i \in 1 .. Len(at) : at[i] \in K
  BY <1>9, LenProperties, ElementOfSeq
<1>11. ds \in [1 .. Len(at) -> Docs]
  <2>1. \A i \in 1 .. Len(at) : cs[at[i]] \in Docs
    BY <1>1, <1>3, <1>10
  <2> QED BY <2>1, <1>6, <1>10
<1>12. ds \in Seq(Docs) /\ Len(ds) = Len(at)
  BY <1>11, <1>8, <1>4, FcnIsSeq
<1> QED BY <1>1, <1>2, <1>4, <1>5, <1>8, <1>12

\* No document and no sequence of documents is an error.
LEMMA NoError ==
  ASSUME NEW ds \in Seq(Docs)
  PROVE  ds # Error /\ \A i \in DOMAIN ds : ds[i] # Error
<1>1. \A i \in DOMAIN ds : ds[i] \in Docs
  BY LenProperties, ElementOfSeq
<1> QED BY <1>1, ErrorAssumption

\* An unsorted query takes the first of the documents that pass, as many as it may.
LEMMA UnsortedTakes ==
  ASSUME NEW cs \in Seq(Docs), NEW pass, NEW limit \in Nat, NEW ds, ds = Passing(cs, pass)
  PROVE  /\ Len(FetchUnsorted(cs, pass, limit)) = Least(limit, Len(ds))
         /\ limit > 0 /\ limit >= Len(ds) => FetchUnsorted(cs, pass, limit) = ds
<1>1. ds \in Seq(Docs) /\ Len(ds) \in Nat
  BY PassingKeeps
<1> PICK N : N = Least(limit, Len(ds))
  OBVIOUS
<1>2. N \in 0 .. Len(ds) /\ (limit = 0 => N = 0) /\ (limit >= Len(ds) => N = Len(ds))
  BY <1>1 DEF Least
<1> PICK taken : taken = SubSeq(ds, 1, N)
  OBVIOUS
<1>3. taken \in Seq(Docs) /\ Len(taken) = N
  BY <1>1, <1>2
<1>4. \A i \in DOMAIN taken : taken[i] # Error
  BY <1>3, NoError
<1>5. cs # Error
  BY NoError
<1>6. CASE limit = 0
  <2>1. FetchUnsorted(cs, pass, limit) = <<>>
    BY <1>6, Zenon DEF FetchUnsorted
  <2> QED BY <1>2, <1>6, <2>1
<1>7. CASE limit # 0
  <2>1. FetchUnsorted(cs, pass, limit) = taken
    BY <1>4, <1>5, <1>7, Zenon DEF FetchUnsorted
  <2>2. limit >= Len(ds) => taken = ds
    BY <1>1, <1>2
  <2> QED BY <1>3, <2>1, <2>2
<1> QED BY <1>6, <1>7

\* The order of places by rank, stable.
Ranked(ds) ==
  {r \in Nat \X Nat : \/ Rank[ds[r[1]]] < Rank[ds[r[2]]]
                      \/ Rank[ds[r[1]]] = Rank[ds[r[2]]] /\ r[1] < r[2]}

\* Rank, and then the place, orders the candidates of a query.
LEMMA RankedOrders ==
  ASSUME NEW ds \in Seq(Docs)
  PROVE  /\ Orders(Ranked(ds), 1 .. Len(ds)) /\ IsFiniteSet(1 .. Len(ds))
         /\ Len(ds) \in Nat /\ Cardinality(1 .. Len(ds)) = Len(ds)
         /\ \A i \in 1 .. Len(ds) : Rank[ds[i]] \in Nat
<1> DEFINE f(i) == Rank[ds[i]]
           S == 1 .. Len(ds)
<1>1. Len(ds) \in Nat /\ \A i \in S : i \in Nat /\ f(i) \in Nat
  <2>1. Len(ds) \in Nat /\ \A i \in 1 .. Len(ds) : ds[i] \in Docs
    BY LenProperties, ElementOfSeq
  <2> QED BY <2>1, ReadingAssumption
<1>2. IsFiniteSet(S) /\ Cardinality(S) = Len(ds)
  <2>1. 1 \in Int /\ Len(ds) \in Int
    BY <1>1
  <2>2. IsFiniteSet(1 .. Len(ds)) /\ Cardinality(1 .. Len(ds)) = IF 1 > Len(ds) THEN 0 ELSE Len(ds) - 1 + 1
    BY <2>1, FS_Interval
  <2> QED BY <1>1, <2>2
<1>3. \A i, j \in S : <<i, j>> \in Ranked(ds) <=> f(i) < f(j) \/ (f(i) = f(j) /\ i < j)
  <2> SUFFICES ASSUME NEW i \in S, NEW j \in S
               PROVE  <<i, j>> \in Ranked(ds) <=> f(i) < f(j) \/ (f(i) = f(j) /\ i < j)
    OBVIOUS
  <2> PICK r : r = <<i, j>>
    OBVIOUS
  <2>1. r \in Nat \X Nat /\ r[1] = i /\ r[2] = j
    BY <1>1
  <2>2. r \in Ranked(ds) <=> \/ Rank[ds[r[1]]] < Rank[ds[r[2]]]
                             \/ Rank[ds[r[1]]] = Rank[ds[r[2]]] /\ r[1] < r[2]
    BY <2>1, Zenon DEF Ranked
  <2>3. r \in Ranked(ds) <=> \/ Rank[ds[i]] < Rank[ds[j]]
                             \/ Rank[ds[i]] = Rank[ds[j]] /\ i < j
    BY <2>1, <2>2
  <2> QED BY <2>3, Zenon
<1> HIDE DEF f, S
<1>4. \A i \in S : <<i, i>> \notin Ranked(ds)
  BY <1>1, <1>3
<1>5. \A i, j, k \in S : <<i, j>> \in Ranked(ds) /\ <<j, k>> \in Ranked(ds) => <<i, k>> \in Ranked(ds)
  <2> SUFFICES ASSUME NEW i \in S, NEW j \in S, NEW k \in S,
                      <<i, j>> \in Ranked(ds), <<j, k>> \in Ranked(ds)
               PROVE  <<i, k>> \in Ranked(ds)
    OBVIOUS
  <2> PICK a, b, c : a = f(i) /\ b = f(j) /\ c = f(k)
    OBVIOUS
  <2>1. a \in Nat /\ b \in Nat /\ c \in Nat /\ i \in Nat /\ j \in Nat /\ k \in Nat
    BY <1>1
  <2>2. (a < b \/ (a = b /\ i < j)) /\ (b < c \/ (b = c /\ j < k))
    BY <1>3
  <2>3. a < c \/ (a = c /\ i < k)
    BY <2>1, <2>2
  <2> QED BY <1>3, <2>3
<1>6. \A i, j \in S : i # j => <<i, j>> \in Ranked(ds) \/ <<j, i>> \in Ranked(ds)
  <2> SUFFICES ASSUME NEW i \in S, NEW j \in S, i # j
               PROVE  <<i, j>> \in Ranked(ds) \/ <<j, i>> \in Ranked(ds)
    OBVIOUS
  <2> PICK a, b : a = f(i) /\ b = f(j)
    OBVIOUS
  <2>1. a \in Nat /\ b \in Nat /\ i \in Nat /\ j \in Nat
    BY <1>1
  <2>2. (a < b \/ (a = b /\ i < j)) \/ (b < a \/ (b = a /\ j < i))
    <3>1. i < j \/ j < i
      BY <2>1
    <3>2. a < b \/ b < a \/ a = b
      BY <2>1
    <3> QED BY <3>1, <3>2
  <2> QED BY <1>3, <2>2
<1>7. Orders(Ranked(ds), S)
  BY <1>4, <1>5, <1>6, Zenon DEF Orders
<1> QED BY <1>1, <1>2, <1>7 DEF S, f

Sorted(ds, L) == [k \in 1 .. L |-> ds[Ordered(1 .. Len(ds), Ranked(ds))[k]]]

\* The sorted result takes its places in this order.
LEMMA SortedPicks ==
  ASSUME NEW cs \in Seq(Docs), NEW pass, NEW limit \in Nat, NEW cap \in Nat,
         NEW ds, ds = Passing(cs, pass)
  PROVE  FetchSorted(cs, pass, limit, cap)
           = IF Len(ds) > cap THEN Error ELSE Sorted(ds, Least(limit, Len(ds)))
<1> PICK at : at = Ordered(1 .. Len(ds), Ranked(ds))
  OBVIOUS
<1>1. ds \in Seq(Docs) /\ Len(ds) \in Nat /\ DOMAIN ds = 1 .. Len(ds)
  BY PassingKeeps, LenProperties
<1>2. cs # Error /\ \A i \in DOMAIN ds : ds[i] # Error
  BY <1>1, NoError
<1> DEFINE Earlier(i, j) == \/ Rank[ds[i]] < Rank[ds[j]]
                            \/ Rank[ds[i]] = Rank[ds[j]] /\ i < j
           S == 1 .. Len(ds)
           A(k) == CHOOSE i \in DOMAIN ds : Cardinality({j \in DOMAIN ds : Earlier(j, i)}) = k - 1
           B(k) == CHOOSE i \in S : Cardinality(Below(S, Ranked(ds), i)) = k - 1
           L == Least(limit, Len(ds))
<1>3. ASSUME NEW i \in S PROVE {j \in DOMAIN ds : Earlier(j, i)} = Below(S, Ranked(ds), i)
  <2>1. S \subseteq Nat
    BY <1>1
  <2>2. \A j \in S : Earlier(j, i) <=> <<j, i>> \in Ranked(ds)
    BY <2>1 DEF Ranked
  <2>3. DOMAIN ds = S
    BY <1>1
  <2> HIDE DEF Earlier, S
  <2> QED BY <2>2, <2>3 DEF Below
<1>4. \A k : A(k) = B(k)
  <2>1. DOMAIN ds = S
    BY <1>1
  <2> HIDE DEF Earlier, S
  <2>2. \A i \in S : Cardinality({j \in DOMAIN ds : Earlier(j, i)}) = Cardinality(Below(S, Ranked(ds), i))
    BY <1>3, Zenon
  <2> QED BY <2>1, <2>2, Zenon
<1>5. FetchSorted(cs, pass, limit, cap)
        = IF (\E i \in DOMAIN ds : ds[i] = Error) \/ Len(ds) > cap THEN Error
          ELSE [k \in 1 .. L |-> ds[A(k)]]
  <2> DEFINE Sooner(x, i, j) == \/ Rank[x[i]] < Rank[x[j]]
                                \/ Rank[x[i]] = Rank[x[j]] /\ i < j
             F(x) == IF (\E i \in DOMAIN x : x[i] = Error) \/ Len(x) > cap THEN Error
                     ELSE [k \in 1 .. Least(limit, Len(x)) |->
                             x[CHOOSE i \in DOMAIN x : Cardinality({j \in DOMAIN x : Sooner(x, j, i)}) = k - 1]]
  <2>1. FetchSorted(cs, pass, limit, cap) = F(Passing(cs, pass))
    BY <1>2, Zenon DEF FetchSorted
  <2>2. F(Passing(cs, pass)) = F(ds)
    <3> HIDE DEF F
    <3> QED OBVIOUS
  <2> QED BY <2>1, <2>2, Zenon
<1>6. at = [k \in 1 .. Cardinality(S) |-> B(k)]
  BY Zenon DEF Ordered
<1> HIDE DEF A, B
<1>7. Cardinality(S) = Len(ds)
  BY <1>1, RankedOrders
<1>8. \A k \in 1 .. L : at[k] = A(k)
  <2>1. 1 .. L \subseteq 1 .. Cardinality(S)
    BY <1>1, <1>7 DEF Least
  <2> HIDE DEF S, L
  <2>2. \A k \in 1 .. Cardinality(S) : at[k] = B(k)
    BY <1>6
  <2> QED BY <2>1, <2>2, <1>4
<1>9. [k \in 1 .. L |-> ds[A(k)]] = [k \in 1 .. L |-> ds[at[k]]]
  <2> HIDE DEF L
  <2> QED BY <1>8, Zenon
<1>10. ~ \E i \in DOMAIN ds : ds[i] = Error
  BY <1>2
<1> HIDE DEF L
<1>11. [k \in 1 .. L |-> ds[at[k]]] = Sorted(ds, L)
  BY Zenon DEF Sorted
<1> QED BY <1>5, <1>9, <1>10, <1>11, Zenon DEF L

-----------------------------------------------------------------------------
(* What sorting keeps.                                                     *)

\* ss is in the order of ranks, and has of every document as many as ds has,
\* or fewer when it ends before those of that rank.
SortKept(ds, ss) ==
  /\ \A i, j \in DOMAIN ss : i < j => Rank[ss[i]] <= Rank[ss[j]]
  /\ \A d \in Docs :
       /\ Copies(ss, d) <= Copies(ds, d)
       /\ \A i \in DOMAIN ss : Rank[d] < Rank[ss[i]] => Copies(ss, d) = Copies(ds, d)

\* The sorted prefix keeps what comes first, in the order of the ranks.
LEMMA SortedKeeps ==
  ASSUME NEW ds \in Seq(Docs), NEW L \in 0 .. Len(ds), NEW ss, ss = Sorted(ds, L)
  PROVE  ss \in Seq(Docs) /\ Len(ss) = L /\ SortKept(ds, ss)
<1> PICK at : at = Ordered(1 .. Len(ds), Ranked(ds))
  OBVIOUS
<1>0. ss = [k \in 1 .. L |-> ds[at[k]]]
  BY Zenon DEF Sorted
<1> DEFINE M == Len(ds)
           S == 1 .. M
           R == Ranked(ds)
<1>1. /\ Orders(R, S) /\ IsFiniteSet(S) /\ M \in Nat /\ Cardinality(S) = M
      /\ \A i \in S : Rank[ds[i]] \in Nat
  BY RankedOrders
<1>2. Enumerates(at, S, R) /\ Len(at) = M
  BY <1>1, OrderedEnumerates
<1>3. \A i \in S : ds[i] \in Docs
  BY ElementOfSeq
<1>4. L \in Nat /\ 1 .. L \subseteq S
  BY <1>1
<1> HIDE DEF S, R, M
<1>5. at \in Seq(S)
  BY <1>2, Zenon DEF Enumerates
<1>6. \A i \in S : at[i] \in S
  BY <1>2, <1>5, ElementOfSeq DEF S
<1>7. \A x \in S : \E i \in S : at[i] = x
  BY <1>2, Zenon DEF Enumerates, S
<1>8. \A i, j \in S : i < j => <<at[i], at[j]>> \in R
  BY <1>2, Zenon DEF Enumerates, S
<1>9. \A i, j \in S : i < j => Rank[ds[at[i]]] <= Rank[ds[at[j]]]
  <2> SUFFICES ASSUME NEW i \in S, NEW j \in S, i < j PROVE Rank[ds[at[i]]] <= Rank[ds[at[j]]]
    OBVIOUS
  <2> PICK r : r = <<at[i], at[j]>>
    OBVIOUS
  <2>1. r \in R
    BY <1>8
  <2>2. \/ Rank[ds[r[1]]] < Rank[ds[r[2]]]
        \/ Rank[ds[r[1]]] = Rank[ds[r[2]]] /\ r[1] < r[2]
    BY <2>1, Zenon DEF R, Ranked
  <2> PICK a, b : a = Rank[ds[at[i]]] /\ b = Rank[ds[at[j]]]
    OBVIOUS
  <2>3. a < b \/ a = b
    BY <2>2
  <2>4. a \in Nat /\ b \in Nat
    BY <1>1, <1>6
  <2> QED BY <2>3, <2>4
<1>10. /\ ss \in Seq(Docs) /\ Len(ss) = L /\ DOMAIN ss = 1 .. L
       /\ \A i \in 1 .. L : ss[i] = ds[at[i]]
  <2>1. \A i \in 1 .. L : ds[at[i]] \in Docs
    BY <1>3, <1>4, <1>6
  <2>2. ss \in [1 .. L -> Docs]
    BY <2>1, <1>0
  <2> QED BY <2>2, <1>0, <1>4, FcnIsSeq
<1>11. ASSUME NEW i \in DOMAIN ss, NEW j \in DOMAIN ss, i < j PROVE Rank[ss[i]] <= Rank[ss[j]]
  BY <1>4, <1>9, <1>10, <1>11
<1>12. ASSUME NEW d \in Docs
       PROVE  /\ Copies(ss, d) <= Copies(ds, d)
              /\ \A i \in DOMAIN ss : Rank[d] < Rank[ss[i]] => Copies(ss, d) = Copies(ds, d)
  <2> DEFINE A == {i \in 1 .. L : ds[at[i]] = d}
             B == {i \in S : ds[i] = d}
             g == [i \in A |-> at[i]]
  <2>1. Copies(ss, d) = Cardinality(A)
    <3>1. {i \in DOMAIN ss : ss[i] = d} = A
      BY <1>10
    <3> QED BY <3>1, Zenon DEF Copies
  <2>2. Copies(ds, d) = Cardinality(B)
    <3>1. DOMAIN ds = S
      BY DEF S, M
    <3> QED BY <3>1, Zenon DEF Copies
  <2>3. IsFiniteSet(B) /\ IsFiniteSet(A)
    <3>1. B \in SUBSET S /\ A \in SUBSET S
      BY <1>4
    <3> HIDE DEF A, B
    <3> QED BY <3>1, <1>1, FS_Subset
  <2>4. g \in [A -> B]
    BY <1>4, <1>6
  <2>5. \A i, j \in A : i # j => at[i] # at[j]
    <3> SUFFICES ASSUME NEW i \in A, NEW j \in A, i # j PROVE at[i] # at[j]
      OBVIOUS
    <3>1. i \in S /\ j \in S /\ (i < j \/ j < i)
      BY <1>4
    <3>2. <<at[i], at[j]>> \in R \/ <<at[j], at[i]>> \in R
      BY <3>1, <1>8
    <3>3. <<at[i], at[i]>> \notin R
      BY <3>1, <1>1, <1>6 DEF Orders
    <3> QED BY <3>2, <3>3
  <2>6. g \in Injection(A, B)
    <3>1. \A i \in A : g[i] = at[i]
      OBVIOUS
    <3> HIDE DEF g, A, B
    <3> QED BY <2>4, <2>5, <3>1 DEF Injection, IsInjective
  <2>7. /\ Cardinality(A) <= Cardinality(B)
        /\ Cardinality(A) = Cardinality(B) <=> g \in Surjection(A, B)
    <3> HIDE DEF g, A, B
    <3> QED BY <2>3, <2>6, FS_Injection
  <2>8. ASSUME NEW i \in DOMAIN ss, Rank[d] < Rank[ss[i]] PROVE Cardinality(A) = Cardinality(B)
    <3>1. i \in 1 .. L /\ i \in S /\ Rank[d] < Rank[ds[at[i]]]
      BY <2>8, <1>4, <1>10
    <3>2. ASSUME NEW x \in B PROVE \E j \in A : g[j] = x
      <4>1. PICK j \in S : at[j] = x
        BY <1>7
      <4>2. ds[at[j]] = d
        BY <4>1
      <4> PICK a, c : a = Rank[d] /\ c = Rank[ds[at[i]]]
        OBVIOUS
      <4>3. a \in Nat /\ c \in Nat /\ a < c
        BY <3>1, <1>1, <1>6, ReadingAssumption
      <4>4. ~ (i < j)
        <5>1. i < j => c <= a
          BY <1>9, <3>1, <4>2
        <5> QED BY <5>1, <4>3
      <4>5. i # j
        BY <4>2, <4>3
      <4>6. j \in 1 .. L
        <5>1. i \in Nat /\ j \in Nat /\ 1 <= j /\ i <= L
          BY <3>1, <1>1, <1>4 DEF S
        <5> QED BY <5>1, <4>4, <4>5, <1>4
      <4> QED BY <4>1, <4>2, <4>6
    <3>3. g \in Surjection(A, B)
      <4> HIDE DEF g, A, B
      <4> QED BY <2>4, <3>2 DEF Surjection
    <3> QED BY <3>3, <2>7
  <2> HIDE DEF A, B, g
  <2> QED BY <2>1, <2>2, <2>7, <2>8, Zenon
<1> QED BY <1>10, <1>11, <1>12, Zenon DEF SortKept

-----------------------------------------------------------------------------
(* Queries.                                                                *)

\* What a query looks at is documents without an error, no more of them than
\* there are, and counted without them as many.
LEMMA CandidatesCount ==
  ASSUME NEW v, Reads(View, v), View.docs \in [Ids -> Stored \cup {NoDoc}],
         NEW q \in Sources, q.index # NoRow => Full(View, q.index),
         NEW cs, cs = Candidates(View, v, q)
  PROVE  /\ cs \in Seq(Docs) /\ Len(cs) \in Nat /\ Len(cs) <= MaxId
         /\ \/ CountFast(View, q) = Len(cs)
            \/ CountFast(View, q) = Error /\ q.index \in Each /\ Len(cs) > MaxDistinct
<1> PICK b : b = View
  OBVIOUS
<1>0. b.docs \in [Ids -> Stored \cup {NoDoc}] /\ Reads(b, v)
  OBVIOUS
<1> PICK n, lower, upper : n = q.index /\ lower = q.lower /\ upper = q.upper
  OBVIOUS
<1>1. lower \in Bounds /\ upper \in Bounds
  BY DEF Sources, Bounds
<1> PICK P : P = Present(b)
  OBVIOUS
<1>2. IsFiniteSet(P) /\ Cardinality(P) <= MaxId /\ Cardinality(P) \in Nat
  BY PresentOrdered, FS_CardinalityType
<1>3. CASE n = NoRow
  <2> PICK ids : ids = IdsInOrder(P)
    OBVIOUS
  <2>1. ids \in Seq(P) /\ Len(ids) = Cardinality(P) /\ Len(ids) \in Nat
    BY PresentOrdered
  <2>2. DOMAIN ids = 1 .. Len(ids) /\ \A i \in 1 .. Len(ids) : ids[i] \in Present(b)
    BY <2>1, LenProperties, ElementOfSeq
  <2>3. \A i \in 1 .. Len(ids) : Get(b, v, ids[i]) \in Docs /\ Get(b, v, ids[i]) # Error
    BY <2>2, <1>0, GetsAll
  <2>4. cs = All(b, v)
    BY <1>3, Zenon DEF Candidates
  <2>5. cs = [i \in 1 .. Len(ids) |-> Get(b, v, ids[i])]
    BY <2>2, <2>3, <2>4, Zenon DEF All
  <2>6. cs \in [1 .. Len(ids) -> Docs]
    BY <2>3, <2>5
  <2>7. cs \in Seq(Docs) /\ Len(cs) = Len(ids)
    BY <2>1, <2>6, FcnIsSeq
  <2>8. CountFast(b, q) = Cardinality(P)
    BY <1>3, Zenon DEF CountFast, CountAll
  <2> QED BY <2>1, <2>7, <2>8, <1>2
<1>4. CASE n # NoRow
  <2> PICK es : es = Collect(b, n, lower, upper)
    OBVIOUS
  <2> PICK fs : fs = Fresh(n, es, {})
    OBVIOUS
  <2> DEFINE T == Found(b, n, lower, upper)
  <2>0. Full(b, n)
    BY <1>4
  <2>1. /\ es \in Seq(b.entries[n]) /\ Len(es) \in Nat
        /\ \A i \in 1 .. Len(es) : es[i][2] \in T
        /\ \A id \in T : \E i \in 1 .. Len(es) : es[i][2] = id
    <3>1. Collected(es, b.entries[n], T)
      BY <1>1, <2>0, CollectFinds, Zenon
    <3> QED BY <3>1, Zenon DEF Collected
  <2>0a. Collected(fs, b.entries[n], T) /\ Lists(fs, T)
    BY <1>1, <2>0, FreshFinds, Zenon
  <2>2. /\ fs \in Seq(b.entries[n]) /\ Len(fs) \in Nat
        /\ \A i \in 1 .. Len(fs) : fs[i][2] \in T
        /\ \A id \in T : \E i \in 1 .. Len(fs) : fs[i][2] = id
    BY <2>0a, Zenon DEF Collected
  <2>3. T \in SUBSET P
    BY DEF Found
  <2> HIDE DEF T
  <2>4. Cardinality(T) <= Cardinality(P)
    BY <2>3, <1>2, FS_Subset
  <2>5. Len(fs) = Cardinality(T)
    BY <2>0a, FoundCount, Zenon
  <2>6. DOMAIN fs = 1 .. Len(fs) /\ DOMAIN es = 1 .. Len(es)
    BY <2>1, <2>2, LenProperties
  <2>7. \A i \in 1 .. Len(fs) : Resolved(b, v, fs[i][2]) \in Docs
    <3> TAKE i \in 1 .. Len(fs)
    <3> PICK id : id = fs[i][2]
      OBVIOUS
    <3>1. id \in Present(b)
      BY <2>2, <2>3
    <3> QED BY <3>1, <1>0, GetsAll
  <2> PICK rows : rows = [i \in DOMAIN fs |-> [key |-> fs[i][1], doc |-> Resolved(b, v, fs[i][2])]]
    OBVIOUS
  <2>8. cs = [i \in DOMAIN rows |-> rows[i].doc]
    <3>1. IndexRange(b, v, n, es) = rows
      BY Zenon DEF IndexRange, Rows
    <3> QED BY <3>1, <1>4, Zenon DEF Candidates
  <2>9. DOMAIN rows = 1 .. Len(fs) /\ \A i \in 1 .. Len(fs) : rows[i].doc = Resolved(b, v, fs[i][2])
    BY <2>6
  <2>10. cs \in [1 .. Len(fs) -> Docs]
    BY <2>7, <2>8, <2>9
  <2>11. cs \in Seq(Docs) /\ Len(cs) = Len(fs)
    BY <2>2, <2>10, FcnIsSeq
  <2>12. CASE n \in Each
    <3>1. {es[i][2] : i \in DOMAIN es} = T
      BY <2>1, <2>6
    <3>2. CountFast(b, q) = CountDistinct(es)
      BY <1>4, <2>12, Zenon DEF CountFast
    <3>3. CountFast(b, q) = IF Cardinality(T) > MaxDistinct THEN Error ELSE Cardinality(T)
      BY <3>1, <3>2, Zenon DEF CountDistinct
    <3> QED BY <3>3, <2>2, <2>4, <2>5, <2>11, <2>12, <1>2, BoundsAssumption
  <2>13. CASE n \notin Each
    <3>1. CountFast(b, q) = CountIndexRange(es)
      BY <1>4, <2>13, Zenon DEF CountFast
    <3>2. fs = es
      BY <2>13, Zenon DEF Fresh
    <3>3. CountFast(b, q) = Len(fs)
      BY <3>1, <3>2, Zenon DEF CountIndexRange
    <3> QED BY <3>3, <2>2, <2>4, <2>5, <2>11, <1>2, BoundsAssumption
  <2> QED BY <2>12, <2>13
<1> QED BY <1>3, <1>4

\* What a query says of some candidates, a filter and a limit.
Agreed(q, cs, pass, all, limit) ==
  LET count  == Count(View, q, cs, pass, limit)
      sorted == FetchSorted(cs, pass, limit, MaxId)
  IN /\ count \in {Error, Len(FetchUnsorted(cs, pass, limit))}
     /\ count = Error => q.index \in Each /\ Len(all) > MaxDistinct
     /\ Len(sorted) = Least(limit, Len(all))
     /\ \A i, j \in DOMAIN sorted : i < j => Rank[sorted[i]] <= Rank[sorted[j]]
     /\ \A d \in Docs :
          /\ Copies(sorted, d) <= Copies(all, d)
          /\ \A i \in DOMAIN sorted : Rank[d] < Rank[sorted[i]] => Copies(sorted, d) = Copies(all, d)
     /\ FetchSorted(cs, pass, limit, 1) = Error <=> Len(all) > 1

\* A query whose fast count is right counts and sorts the same documents.
LEMMA QueryAgrees ==
  ASSUME NEW q, NEW cs \in Seq(Docs), Len(cs) <= MaxId,
         \/ CountFast(View, q) = Len(cs)
         \/ CountFast(View, q) = Error /\ q.index \in Each /\ Len(cs) > MaxDistinct,
         NEW pass, NEW all, all = FetchUnsorted(cs, pass, MaxId), NEW limit \in 0 .. MaxId
  PROVE  Agreed(q, cs, pass, all, limit)
<1> PICK ds : ds = Passing(cs, pass)
  OBVIOUS
<1>0. MaxId \in Nat /\ MaxId > 0 /\ limit \in Nat
  BY BoundsAssumption
<1>1. /\ ds \in Seq(Docs) /\ Len(ds) \in Nat /\ Len(cs) \in Nat /\ Len(ds) <= Len(cs)
      /\ pass = Docs => Len(ds) = Len(cs)
  BY PassingKeeps
<1>2. Len(ds) <= MaxId
  BY <1>0, <1>1
<1>3. all = ds
  BY <1>0, <1>1, <1>2, UnsortedTakes
<1> PICK L : L = Least(limit, Len(ds))
  OBVIOUS
<1>4. L \in 0 .. Len(ds) /\ L \in Nat
  BY <1>0, <1>1 DEF Least
<1>5. Len(FetchUnsorted(cs, pass, limit)) = L
  BY <1>0, UnsortedTakes
<1>6. \A i \in Nat : i # Error
  BY ErrorAssumption
<1>7. cs # Error /\ \A i \in DOMAIN cs : cs[i] # Error
  BY NoError
<1> PICK total : total = IF pass = Docs THEN CountFast(View, q) ELSE CountSlow(cs, pass)
  OBVIOUS
<1>8. \/ total = Len(ds)
      \/ total = Error /\ q.index \in Each /\ Len(ds) > MaxDistinct
  <2>1. CASE pass = Docs
    BY <2>1, <1>1
  <2>2. CASE pass # Docs
    <3>1. CountSlow(cs, pass) = Len(ds)
      BY <1>7, Zenon DEF CountSlow
    <3> QED BY <2>2, <3>1
  <2> QED BY <2>1, <2>2
<1> PICK count : count = Count(View, q, cs, pass, limit)
  OBVIOUS
<1>9. count = IF total = Error THEN Error ELSE Least(total, limit)
  BY Zenon DEF Count
<1>10. \/ count = L /\ count # Error
       \/ count = Error /\ q.index \in Each /\ Len(ds) > MaxDistinct
  <2>1. CASE total = Len(ds)
    <3>1. total # Error
      BY <2>1, <1>1, <1>6
    <3>2. Least(total, limit) = L
      BY <2>1, <1>0, <1>1 DEF Least
    <3> QED BY <3>1, <3>2, <1>4, <1>6, <1>9
  <2>2. CASE total = Error /\ q.index \in Each /\ Len(ds) > MaxDistinct
    BY <2>2, <1>9
  <2> QED BY <2>1, <2>2, <1>8
<1> PICK ss : ss = Sorted(ds, L)
  OBVIOUS
<1>11. FetchSorted(cs, pass, limit, MaxId) = ss
  <2>1. FetchSorted(cs, pass, limit, MaxId)
          = IF Len(ds) > MaxId THEN Error ELSE Sorted(ds, Least(limit, Len(ds)))
    BY <1>0, SortedPicks
  <2>2. ~ (Len(ds) > MaxId)
    BY <1>0, <1>1, <1>2
  <2> QED BY <2>1, <2>2, Zenon
<1>12. FetchSorted(cs, pass, limit, 1) = IF Len(ds) > 1 THEN Error ELSE ss
  <2>1. FetchSorted(cs, pass, limit, 1)
          = IF Len(ds) > 1 THEN Error ELSE Sorted(ds, Least(limit, Len(ds)))
    BY <1>0, SortedPicks
  <2> QED BY <2>1, Zenon
<1>13. ss \in Seq(Docs) /\ Len(ss) = L /\ SortKept(ds, ss)
  <2>1. ds \in Seq(Docs) /\ L \in 0 .. Len(ds)
    BY <1>1, <1>4
  <2> QED BY <2>1, SortedKeeps, Zenon
<1>14. ss # Error
  BY <1>13, NoError
<1>15. FetchSorted(cs, pass, limit, 1) = Error <=> Len(ds) > 1
  BY <1>12, <1>14
<1>16. /\ count \in {Error, Len(FetchUnsorted(cs, pass, limit))}
       /\ count = Error => q.index \in Each /\ Len(all) > MaxDistinct
  BY <1>3, <1>5, <1>10
<1> QED BY <1>3, <1>11, <1>13, <1>15, <1>16, Zenon DEF Agreed, SortKept

\* A query's count (count_fast, from the index entries alone, without a
\* filter; count_slow with one) is the length of what it fetches
\* (fetch_unsorted), and only the distinct ids of an Each index can be too many
\* to count; sorting (fetch_sorted) loses, doubles and reorders nothing, the
\* sorted result is cut after sorting, and it fails only for a full buffer.
\* It is so for every source, range, filter and limit, in every snapshot that
\* the commits, rollbacks and restarts of module Documents can leave.
THEOREM QueriesCountAndSort == Spec => []QueriesAgree
<1>1. TypeInv /\ FollowInv /\ AgreeInv => QueriesAgree
  <2> SUFFICES ASSUME TypeInv, FollowInv, AgreeInv, phase = "idle", CanRead,
                      NEW v \in Readers, NEW q \in Sources
               PROVE  \A pass \in Filters : \A limit \in 0 .. MaxId :
                        Agreed(q, Candidates(View, v, q), pass,
                               FetchUnsorted(Candidates(View, v, q), pass, MaxId), limit)
    BY Zenon DEF QueriesAgree, Agreed
  <2> TAKE pass \in Filters
  <2> TAKE limit \in 0 .. MaxId
  <2> PICK cs : cs = Candidates(View, v, q)
    OBVIOUS
  <2> PICK all : all = FetchUnsorted(cs, pass, MaxId)
    OBVIOUS
  <2> SUFFICES Agreed(q, cs, pass, all, limit)
    OBVIOUS
  <2>1. Reads(View, v)
    BY ReadersRead
  <2>2. /\ View.docs \in [Ids -> Stored \cup {NoDoc}]
        /\ \A n \in Complete : Full(View, n)
    BY ViewFull
  <2>3. q.index # NoRow => q.index \in Complete
    BY DEF Sources
  <2>4. /\ cs \in Seq(Docs) /\ Len(cs) \in Nat /\ Len(cs) <= MaxId
        /\ \/ CountFast(View, q) = Len(cs)
           \/ CountFast(View, q) = Error /\ q.index \in Each /\ Len(cs) > MaxDistinct
    BY <2>1, <2>2, <2>3, CandidatesCount
  <2> QED BY <2>4, QueryAgrees
<1> QED BY <1>1, FollowInvariant, AgreeInvariant, TypeInvariant, PTL

=============================================================================
