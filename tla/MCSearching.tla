----------------------------- MODULE MCSearching -----------------------------
(***************************************************************************)
(* What a search goes through, in one run: the matchers that queries       *)
(* compile to, the collection of undeleted documents, phrases and          *)
(* proximity, the collection and merging of the best hits, and the parsing *)
(* of the query string.  They share nothing here, so a behaviour exercises *)
(* one of them, its part.                                                  *)
(***************************************************************************)
EXTENDS Integers

VARIABLES part,
          kind, m, asked, cur,
          prox, phrase, phrase_asked, phrase_cur,
          hits, rules, num_wanted, at, doc_id, hit_q, bubble, auto,
          total_hits, merged,
          text, default_occur

matcherVars == <<kind, m, asked, cur>>
phraseVars == <<prox, phrase, phrase_asked, phrase_cur>>
topVars == <<hits, rules, num_wanted, at, doc_id, hit_q, bubble, auto,
             total_hits, merged>>
parserVars == <<text, default_occur>>
allVars == <<part, matcherVars, phraseVars, topVars, parserVars>>

Tree == INSTANCE Matchers WITH
    DocMax <- 4, Offset <- 3, MaxKids <- 3,
    Kinds <- {"and", "or", "scorer", "not", "reqopt", "bits", "range",
              "filter"},
    Again <- {"and", "or", "scorer", "not", "reqopt", "range", "filter"}
Collection == INSTANCE Matchers WITH
    DocMax <- 6, Offset <- 3, MaxKids <- 3, Kinds <- {"collect"}, Again <- {}

\* Phrases of two words in two documents, and of three in one; and words that
\* may be two positions apart.
Phrase == INSTANCE PhraseMatcher WITH
    m <- phrase, asked <- phrase_asked, cur <- phrase_cur,
    DocMax <- 2, Offset <- 1, Words <- {1, 2}, Positions <- 0..2, Within <- 1
Longer == INSTANCE PhraseMatcher WITH
    m <- phrase, asked <- phrase_asked, cur <- phrase_cur,
    DocMax <- 1, Offset <- 1, Words <- {3}, Positions <- 0..3, Within <- 1
Proximity == INSTANCE PhraseMatcher WITH
    m <- phrase, asked <- phrase_asked, cur <- phrase_cur,
    DocMax <- 1, Offset <- 1, Words <- {2, 3}, Positions <- 0..3, Within <- 2

Rule(by, reverse) == [by |-> by, reverse |-> reverse]
ByScore == Rule("score", FALSE)
ByDocId(reverse) == Rule("doc", reverse)
ByValue(reverse) == Rule("value", reverse)

\* The default, others that end in a rule by document either way, and two
\* under which hits can tie.
SortSpecs == {<<ByScore, ByDocId(FALSE)>>, <<ByDocId(FALSE)>>,
              <<ByDocId(TRUE)>>, <<ByValue(FALSE), ByDocId(TRUE)>>,
              <<ByValue(TRUE), ByScore, ByDocId(FALSE)>>,
              <<ByScore>>, <<ByValue(FALSE), ByScore>>}

\* Two searchers; and one of two segments.
Merging == INSTANCE TopDocs WITH
    Searchers <- <<<<3>>, <<2>>>>, Scores <- {1, 2}, Values <- {1},
    Specs <- SortSpecs, Wanteds <- 0..2
Segmented == INSTANCE TopDocs WITH
    Searchers <- <<<<1, 3>>>>, Scores <- {1, 2}, Values <- {1, 2},
    Specs <- SortSpecs, Wanteds <- 0..2

\* Signs and operators without fields; and fields.
Parser == INSTANCE QueryParser WITH
    Tokens <- {"open", "close", "string", "plus", "not", "and", "or"},
    MaxTokens <- 5
Fields == INSTANCE QueryParser WITH
    Tokens <- {"open", "close", "string", "field", "not"}, MaxTokens <- 6

-----------------------------------------------------------------------------

\* The variables of the parts that are not exercised are not used.
Unused == 0

InitMatchers ==
    CASE part = "tree" -> Tree!Init
      [] part = "collection" -> Collection!Init
      [] OTHER -> /\ kind = Unused /\ m = Unused
                  /\ asked = Unused /\ cur = Unused

InitPhrase ==
    CASE part = "phrase" -> Phrase!Init
      [] part = "longer" -> Longer!Init
      [] part = "proximity" -> Proximity!Init
      [] OTHER -> /\ prox = Unused /\ phrase = Unused
                  /\ phrase_asked = Unused /\ phrase_cur = Unused

InitTop ==
    CASE part = "merging" -> Merging!Init
      [] part = "segmented" -> Segmented!Init
      [] OTHER -> /\ hits = Unused /\ rules = Unused /\ num_wanted = Unused
                  /\ at = Unused /\ doc_id = Unused /\ hit_q = Unused
                  /\ bubble = Unused /\ auto = Unused
                  /\ total_hits = Unused /\ merged = Unused

InitParser ==
    CASE part = "parser" -> Parser!Init
      [] part = "fields" -> Fields!Init
      [] OTHER -> text = Unused /\ default_occur = Unused

MCInit ==
    /\ part \in {"tree", "collection", "phrase", "longer", "proximity",
                 "merging", "segmented", "parser", "fields"}
    /\ InitMatchers /\ InitPhrase /\ InitTop /\ InitParser

MatcherStep == /\ \/ part = "tree" /\ Tree!Next
                  \/ part = "collection" /\ Collection!Next
               /\ UNCHANGED <<part, phraseVars, topVars, parserVars>>

PhraseStep == /\ \/ part = "phrase" /\ Phrase!Next
                 \/ part = "longer" /\ Longer!Next
                 \/ part = "proximity" /\ Proximity!Next
              /\ UNCHANGED <<part, matcherVars, topVars, parserVars>>

TopStep == /\ \/ part = "merging" /\ Merging!Next
              \/ part = "segmented" /\ Segmented!Next
           /\ UNCHANGED <<part, matcherVars, phraseVars, parserVars>>

ParserStep == /\ \/ part = "parser" /\ Parser!Next
                 \/ part = "fields" /\ Fields!Next
              /\ UNCHANGED <<part, matcherVars, phraseVars, topVars>>

MCNext == MatcherStep \/ PhraseStep \/ TopStep \/ ParserStep

MCSpec == MCInit /\ [][MCNext]_allVars

-----------------------------------------------------------------------------
(* The properties of the parts, each explained in its module.              *)

\* A matcher visits the documents that its query matches, all and in order,
\* whatever its children have been moved to; so does one of a phrase; and
\* Matcher_Collect collects those that are not deleted.
VisitsTheMatches ==
    /\ part = "tree" => Tree!Iterator!Init
    /\ [][/\ part = "tree" => Tree!Iterator!MatcherStep
          /\ part = "phrase" => Phrase!Iterator!MatcherStep
          /\ part = "longer" => Longer!Iterator!MatcherStep]_allVars
    /\ [](part = "collection" => Collection!CollectsTheLiving)

\* It calls its children only as Matcher.cfh allows, and scores those that
\* match.
CallsChildrenRightly ==
    part = "tree" => Tree!CallsChildrenRightly /\ Tree!ScoresTheMatching

\* A phrase is counted as often as it begins in the document, and words near
\* each other are found only where they are.
CountsThePhrase == /\ part = "phrase" => Phrase!CountsThePhrase
                   /\ part = "longer" => Longer!CountsThePhrase
                   /\ part = "proximity" => Proximity!FindsOnlyPhrases

\* A query string becomes a tree of queries that matches what it says, and
\* what the parser hands out of it matches no document that has none of its
\* words.
QueriesMeanTheString ==
    /\ part = "parser" => Parser!TreeMeansTheString /\ Parser!PrunedIsTame
    /\ part = "fields" => Fields!TreeMeansTheString /\ Fields!PrunedIsTame

\* A collector turns away unseen only hits that are no better than all it has;
\* and the best are found, although several queues collect them and merging
\* stops early.
BestHits ==
    /\ part = "segmented" => Segmented!Queue!Init
    /\ [][part = "segmented" => Segmented!Queue!Step]_allVars
    /\ [](/\ part = "segmented" => Segmented!BestHits
         /\ part = "merging" => Merging!BestHits)
=============================================================================
