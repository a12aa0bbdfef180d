---------------------------- MODULE IndexContent ----------------------------
(***************************************************************************)
(* What is in an index: documents in segments, deletions kept in files of  *)
(* later segments, segments merged by Indexers and, behind their back, by  *)
(* a BackgroundMerger that has to carry over what was deleted meanwhile.   *)
(*                                                                         *)
(* Locks, files and purges are the matter of IndexFiles.tla: here one      *)
(* Indexer session is open at a time, one merger works next to it, and     *)
(* both commit in one step, since they hold the write lock then.           *)
(***************************************************************************)
EXTENDS Integers, FiniteSets, SequencesExt

CONSTANTS MaxDocs,     \* bound: documents are 1..MaxDocs, added in order
          MaxSeg,      \* bound: segment numbers are 1..MaxSeg
          MaxCommits,  \* bound: commits of either kind
          Terms,       \* a term is the set of documents that have it
          Fields       \* and so is a field

Docs == 1..MaxDocs
Segs == 1..MaxSeg

ASSUME BoundsAssumption == {MaxDocs, MaxSeg, MaxCommits} \subseteq Nat
ASSUME TermAssumption == Terms \cup Fields \subseteq SUBSET Docs
ASSUME FieldAssumption == \A d \in Docs : \E f \in Fields : d \in f

VARIABLES
    docs,        \* docs[n]: the documents of segment n, in doc id order
    dels,        \* dels[n][t]: the doc ids its deletions file for t lists
    latest,      \* the segments of the latest snapshot
    commits,     \* its generation
    schema,      \* the fields in its schema file
    used,        \* how many documents have been handed in so far
    \* The Indexer session.
    open,        \* whether there is one
    view,        \* the segments of its snapshot and PolyReader
    mine,        \* its segment number
    added,       \* the documents in its segment so far
    bits,        \* bit_vecs of its DeletionsWriter
    updated,     \* the segments whose bit vector has to be written
    fields,      \* its schema
    \* The BackgroundMerger.
    mpc,         \* "idle", "begun" (cutoff written) or "merged"
    mview,       \* the segments of the PolyReader it started with
    mcommits,    \* the generation it started with
    mschema,     \* the schema file of its snapshot
    cutoff,      \* its segment number
    docMaps      \* docMaps[n]: new ids for the documents of n, 0: deleted

store == <<docs, dels, latest, commits, schema>>
session == <<open, view, mine, added, bits, updated, fields>>
merger == <<mpc, mview, mcommits, mschema, cutoff, docMaps>>
vars == <<store, used, session, merger>>

\* A document has one field here.
Field(d) == CHOOSE f \in Fields : d \in f

TypeOK ==
    /\ docs \in [Segs -> Seq(Docs)]
    /\ dels = [n \in Segs |-> dels[n]]
    /\ \A n \in Segs : /\ DOMAIN dels[n] \subseteq Segs
                       /\ dels[n] \in [DOMAIN dels[n] -> SUBSET Nat]
    /\ latest \subseteq Segs
    /\ commits \in 0..MaxCommits
    /\ schema \subseteq Fields
    /\ used \in 0..MaxDocs
    /\ open \in BOOLEAN
    /\ view \subseteq Segs
    /\ mine \in Segs \cup {0}
    /\ added \in Seq(Docs)
    /\ bits \in [view -> SUBSET Nat]
    /\ updated \subseteq view
    /\ fields \subseteq Fields
    /\ mpc \in {"idle", "begun", "merged"}
    /\ mview \subseteq Segs
    /\ mcommits \in 0..MaxCommits
    /\ mschema \subseteq Fields
    /\ cutoff \in Segs \cup {0}
    /\ DOMAIN docMaps \subseteq mview
    /\ docMaps \in [DOMAIN docMaps -> Seq(Nat)]

Init ==
    /\ docs = [n \in Segs |-> <<>>]
    /\ dels = [n \in Segs |-> <<>>]
    /\ latest = {}
    /\ commits = 0
    /\ schema = {}
    /\ used = 0
    /\ open = FALSE
    /\ view = {} /\ mine = 0 /\ added = <<>> /\ bits = <<>> /\ updated = {}
    /\ fields = {}
    /\ mpc = "idle"
    /\ mview = {} /\ mcommits = 0 /\ mschema = {} /\ cutoff = 0
    /\ docMaps = <<>>

-----------------------------------------------------------------------------
(* Segments and deletions.                                                 *)

Highest(S) == CHOOSE n \in S \cup {0} : \A m \in S : m <= n

Addressing(list, t) == {n \in list : t \in DOMAIN dels[n]}

\* DefDelReader_Read_Deletions: the newest deletions file for t wins.
Deletions(list, t) ==
    LET files == Addressing(list, t)
    IN IF files = {} THEN {} ELSE dels[Highest(files)][t]

DelCount(list, t) == Cardinality(Deletions(list, t))

DocMax(n) == Len(docs[n])

\* The documents a reader of these segments finds.
Live(list) == UNION {{docs[n][i] : i \in (1..DocMax(n)) \ Deletions(list, n)} :
                       n \in list}

\* Offsets of a PolyReader, whose segments are sorted by number: how many
\* documents there are in those of the first n.
DocsUpTo(list, n) ==
    LET sum[k \in 0..MaxSeg] ==
            IF k = 0 THEN 0
            ELSE sum[k - 1] + IF k \in list THEN DocMax(k) ELSE 0
    IN  sum[n]

Start(list, n) == DocsUpTo(list, n - 1)

\* PolyReader_sub_tick: the last segment that starts before this doc id.
SubTick(list, id) == Highest({n \in list : Start(list, n) < id})

\* Mutant: a map that does not close the gaps of the deleted documents.
GenerateDocMapGaps(max, gone, offset) ==
    [i \in 1..max |-> IF i \in gone THEN 0 ELSE offset + i]

\* DelWriter_Generate_Doc_Map: 0 for a deleted document, else its new id.
GenerateDocMap(max, gone, offset) ==
    [i \in 1..max |-> IF i \in gone THEN 0
                      ELSE offset + Cardinality((1..i) \ gone)]

\* The documents of s that are not gone, closed up.
Kept(s, gone) ==
    LET ids == DOMAIN s \ gone
    IN  [k \in 1..Cardinality(ids) |->
            s[CHOOSE i \in ids : Cardinality((1..i) \ gone) = k]]

\* A segment's documents after each merge of a further segment, in order.
Growing(start, order, gone) ==
    LET after[k \in 0..Len(order)] ==
            IF k = 0 THEN start
            ELSE after[k - 1] \o Kept(docs[order[k]], gone[order[k]])
    IN  after

Consolidated(start, order, gone) == Growing(start, order, gone)[Len(order)]

\* Mutant: deletions files of merged segments are let go.
ForcedNone(list, merged) == {}

\* DefDelWriter_Merge_Segment: the segments whose newest deletions file is in
\* a segment that is being merged away; it has to be written again.
Forced(list, merged) ==
    {t \in list : \E n \in merged :
        t \in DOMAIN dels[n] /\ Cardinality(dels[n][t]) = DelCount(list, t)}

\* DefDelWriter_Finish, which is not called when every segment was merged.
Written(list, merged, toWrite, vectors) ==
    IF merged = list THEN <<>> ELSE [t \in toWrite |-> vectors[t]]

-----------------------------------------------------------------------------
(* The Indexer.                                                            *)

\* Indexer_init: with TRUNCATE an empty snapshot and an empty PolyReader.
IxBegin(truncate) ==
    /\ ~open
    /\ commits < MaxCommits
    /\ Highest(latest \cup {cutoff}) < MaxSeg
    /\ open' = TRUE
    /\ mine' = Highest(latest \cup {cutoff}) + 1
    /\ view' = IF truncate THEN {} ELSE latest
    /\ bits' = [n \in view' |-> Deletions(latest, n)]
    /\ fields' = IF truncate THEN {} ELSE schema
    /\ added' = <<>>
    /\ updated' = {}
    /\ UNCHANGED <<store, used, merger>>

\* The document's field is in the Schema that the caller has supplied.
AddDoc ==
    /\ open
    /\ used < MaxDocs
    /\ used' = used + 1
    /\ added' = Append(added, used + 1)
    /\ fields' = fields \cup {Field(used + 1)}
    /\ UNCHANGED <<store, open, view, mine, bits, updated, merger>>

\* A segment of two documents of another index, some of them deleted there.
AddIndex(gone) ==
    /\ open
    /\ used + 2 <= MaxDocs
    /\ used' = used + 2
    /\ LET others == <<used + 1, used + 2>>
       IN /\ added' = added \o Kept(others, gone)
          /\ fields' = fields \cup {Field(d) : d \in ToSet(others)}
    /\ UNCHANGED <<store, open, view, mine, bits, updated, merger>>

\* Delete_By_Term and Delete_By_Query, segment by segment.
DeleteMatching(matching) ==
    /\ open
    /\ LET hits == [n \in view |->
                      {i \in 1..DocMax(n) : docs[n][i] \in matching}]
       IN /\ bits' = [n \in view |-> bits[n] \cup hits[n]]
          /\ updated' = updated \cup {n \in view : ~(hits[n] \subseteq bits[n])}
    /\ UNCHANGED <<store, used, open, view, mine, added, fields, merger>>

DeleteByDocID(id) ==
    /\ open
    /\ LET n == SubTick(view, id)
           i == id - Start(view, n)
       IN /\ i \notin bits[n]
          /\ bits' = [bits EXCEPT ![n] = @ \cup {i}]
          /\ updated' = updated \cup {n}
    /\ UNCHANGED <<store, used, open, view, mine, added, fields, merger>>

EndSession ==
    /\ open' = FALSE
    /\ view' = {} /\ mine' = 0 /\ added' = <<>> /\ bits' = <<>> /\ updated' = {}
    /\ fields' = {}

\* The segments S_maybe_merge may recycle: all of them under the merge lock,
\* those beyond the cutoff while a merger holds it.
Recyclable == IF mpc = "idle" THEN view ELSE {n \in view : n > cutoff}

\* Prepare_Commit and Commit; Recycle has chosen these segments.
IxCommit(order) ==
    /\ open
    /\ commits < MaxCommits
    /\ LET merged  == ToSet(order)
           content == Consolidated(added, order, bits)
           toWrite == updated \cup Forced(view, merged)
       IN /\ content # <<>> \/ merged # {} \/ view = {} \/ toWrite # {}
          /\ docs' = [docs EXCEPT ![mine] = content]
          /\ dels' = [dels EXCEPT ![mine] =
                         Written(view, merged, toWrite, bits)]
          /\ latest' = (view \ merged) \cup {mine}
    /\ commits' = commits + 1
    /\ schema' = fields
    /\ EndSession
    /\ UNCHANGED <<used, merger>>

\* Nothing to commit, or no Commit: the session ends and leaves no trace.
IxCommitNothing ==
    /\ open
    /\ added = <<>> /\ view # {} /\ updated = {}
    /\ EndSession
    /\ UNCHANGED <<store, used, merger>>

IxAbandon ==
    /\ open
    /\ EndSession
    /\ UNCHANGED <<store, used, merger>>

IndexerNext ==
    \/ \E truncate \in BOOLEAN : IxBegin(truncate)
    \/ AddDoc
    \/ \E gone \in SUBSET {1, 2} : AddIndex(gone)
    \/ \E t \in Terms : DeleteMatching(t)
    \/ \E id \in 1..DocsUpTo(view, MaxSeg) : DeleteByDocID(id)
    \/ \E order \in SetToAllKPermutations(Recyclable) : IxCommit(order)
    \/ IxCommitNothing
    \/ IxAbandon

-----------------------------------------------------------------------------
(* The BackgroundMerger.                                                   *)

EndMerge ==
    /\ mpc' = "idle"
    /\ mview' = {} /\ mcommits' = 0 /\ mschema' = {} /\ cutoff' = 0
    /\ docMaps' = <<>>

MBegin ==
    /\ ~open
    /\ mpc = "idle"
    /\ latest # {}
    /\ Highest(latest) < MaxSeg
    /\ mpc' = "begun"
    /\ mview' = latest
    /\ mcommits' = commits
    /\ mschema' = schema
    /\ cutoff' = Highest(latest) + 1
    /\ UNCHANGED <<store, used, session, docMaps>>

\* S_maybe_merge.  One segment without deletions is not worth it.
MMerge(order) ==
    /\ mpc = "begun"
    /\ order # <<>>
    /\ Len(order) = 1 => DelCount(mview, order[1]) # 0
    /\ LET merged  == ToSet(order)
           gone    == [n \in mview |-> Deletions(mview, n)]
           place(n) == CHOOSE k \in DOMAIN order : order[k] = n
           before(n) == Len(Growing(<<>>, order, gone)[place(n) - 1])
       IN /\ docMaps' = [n \in merged |->
                           GenerateDocMap(DocMax(n), gone[n], before(n))]
          /\ docs' = [docs EXCEPT ![cutoff] = Consolidated(<<>>, order, gone)]
          /\ dels' = [dels EXCEPT ![cutoff] =
                         Written(mview, merged, Forced(mview, merged), gone)]
    /\ mpc' = "merged"
    /\ UNCHANGED <<latest, commits, schema, used, session, mview, mcommits,
                   mschema, cutoff>>

\* The segments it has merged away, and its snapshot without them.
Merged == DOMAIN docMaps

\* Mutant: Merge_Segment leaves the segment in the snapshot.
MListKeeps == mview \cup {cutoff}

MList == (mview \ Merged) \cup {cutoff}

\* The merged segments against which Indexers have made new deletions.
Changed == {n \in Merged : DelCount(latest, n) # DelCount(mview, n)}

\* The doc ids, in the merger's own snapshot, of what they have deleted.
NewlyGone ==
    UNION {{docMaps[n][i] + Start(MList, cutoff) :
              i \in {j \in Deletions(latest, n) : docMaps[n][j] # 0}} :
             n \in Changed}

\* The deletions file of the extra segment: Delete_By_Doc_ID, then Finish.
CarriedDels ==
    LET hit(t) == {id - Start(MList, t) :
                     id \in {g \in NewlyGone : SubTick(MList, g) = t}}
        targets == {t \in MList : ~(hit(t) \subseteq Deletions(MList, t))}
    IN [t \in targets |-> Deletions(MList, t) \cup hit(t)]

\* Nobody has committed since the merger began.
MCommitAlone ==
    /\ mpc = "merged"
    /\ ~open
    /\ commits = mcommits
    /\ commits < MaxCommits
    /\ latest' = MList
    /\ commits' = commits + 1
    /\ schema' = mschema
    /\ EndMerge
    /\ UNCHANGED <<docs, dels, used, session>>

\* The latest segments beyond the cutoff join the merger's snapshot; when
\* there are new deletions one more segment carries them.
MCommitUpdated ==
    /\ mpc = "merged"
    /\ ~open
    /\ commits # mcommits
    /\ commits < MaxCommits
    /\ Merged \subseteq latest
    /\ Highest(latest) < MaxSeg
    /\ LET fresh == {n \in latest : n > cutoff}
           extra == Highest(latest) + 1
       IN IF Changed = {}
          THEN latest' = MList \cup fresh /\ UNCHANGED <<docs, dels>>
          ELSE /\ latest' = MList \cup fresh \cup {extra}
               /\ docs' = [docs EXCEPT ![extra] = <<>>]
               /\ dels' = [dels EXCEPT ![extra] = CarriedDels]
    /\ commits' = commits + 1
    /\ schema' = mschema
    /\ EndMerge
    /\ UNCHANGED <<used, session>>

\* Nothing to merge, a merge that fails because the index was truncated
\* under it, one that is dropped or dies.
MGiveUp ==
    /\ mpc # "idle"
    /\ EndMerge
    /\ UNCHANGED <<store, used, session>>

MergerNext ==
    \/ MBegin
    \/ \E order \in SetToAllKPermutations(mview) : MMerge(order)
    \/ MCommitAlone
    \/ MCommitUpdated
    \/ MGiveUp

Next == IndexerNext \/ MergerNext

Spec == Init /\ [][Next]_vars

-----------------------------------------------------------------------------
(* Properties.                                                             *)

\* A document is in the index once: no merge copies one that it leaves, or
\* takes in one that another segment holds as well.
NoDocTwice ==
    \A n, m \in latest :
        \A i \in (1..DocMax(n)) \ Deletions(latest, n),
           j \in (1..DocMax(m)) \ Deletions(latest, m) :
               docs[n][i] = docs[m][j] => n = m /\ i = j

\* A merger's doc maps lead to the same documents in its segment, which is
\* what carrying deletions over relies on.
DocMapsAgree ==
    \A n \in Merged : \A i \in DOMAIN docMaps[n] :
        docMaps[n][i] # 0 => /\ docMaps[n][i] \in DOMAIN docs[cutoff]
                             /\ docs[cutoff][docMaps[n][i]] = docs[n][i]

\* Every document that can be found has its field in the schema: "any
\* existing fields which may have been dynamically added during past
\* indexing sessions get added" (Indexer.c).
FieldsKnown == \A d \in Live(latest) : Field(d) \in schema

\* Sessions do what DocStore.tla says, and background merges do nothing that
\* a user can see.
Draft == IF open
         THEN ToSet(added) \cup
              UNION {{docs[n][i] : i \in (1..DocMax(n)) \ bits[n]} : n \in view}
         ELSE {}

Store == INSTANCE DocStore WITH committed <- Live(latest), draft <- Draft,
                                inSession <- open
ImplementsDocStore == Store!Spec
=============================================================================
