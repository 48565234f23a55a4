----------------------------- MODULE Suggestions -----------------------------
(***************************************************************************)
(* The suggestions of the search box: the dictionary of drivers' phrases   *)
(* with its import (import_search_dictionary.py, ensure_search_phrases.py, *)
(* stations/models.py), how a query is scored against it (smart_search.py, *)
(* search_text.py), and the answers the cache keeps for an hour (api.py).  *)
(*                                                                         *)
(* A text is the set of its words; it contains another that has no other   *)
(* words.  A service is its name, which is unique.  Points are hundredths. *)
(***************************************************************************)
EXTENDS Naturals, Sequences, FiniteSetsExt

CONSTANTS Words,
          NoiseWords,     \* _STOP_WORDS
          Forms,          \* the words a word of a query is looked for by
          Likeness,       \* of two words, in fiftieths
          ServiceNames,
          Aliases,        \* the name the catalogue has for each name in a file
          PhraseFiles,    \* dictionaries: sequences of a phrase and its targets
          PhraseTexts, PhraseWeights,  \* those administrators give
          Shops,          \* stations, in the order of their names
          ShopText,       \* name and address
          ShopServices,
          Asks,           \* requests: the query, and whether services alone are asked for
          NoAnswer,
          ServiceLimit, ShopLimit,
          CandidateLimit, \* rows that are looked at besides those of the same phrase
          MaxEdits        \* bound on the changes of the dictionary

Whole == 50  \* the likeness of a word and itself

ASSUME SuggestionsAssumption ==
    /\ IsFiniteSet(Words) /\ NoiseWords \subseteq Words /\ ServiceNames \subseteq SUBSET Words
    /\ Likeness \in [Words -> [Words -> 0..Whole]] /\ \A w \in Words : Likeness[w][w] = Whole
    /\ Shops \subseteq Nat
    /\ PhraseTexts \subseteq (SUBSET Words) \ {{}} /\ PhraseWeights \subseteq 1..10
    /\ \A dictionary \in PhraseFiles : \A i \in DOMAIN dictionary :
          /\ i \in Nat /\ dictionary[i].phrase \in (SUBSET Words) \ {{}}
          /\ \A j \in DOMAIN dictionary[i].targets :
                j \in Nat \ {0} /\ Aliases[dictionary[i].targets[j]] \in ServiceNames
    /\ ServiceLimit \in Nat \ {0} /\ ShopLimit \in Nat /\ CandidateLimit \in Nat
    /\ MaxEdits \in Nat

VARIABLES phrases,  \* ServiceSearchPhrase rows
          service,  \* for each of the services and stations, 0 on the site, or how
          station,  \* long it has been off
          answers,  \* the cache
          asking,   \* the request in flight, with what it has computed
          ensuring, \* a container has found the dictionary empty
          edits

suggestVars == <<phrases, service, station, answers, asking, ensuring, edits>>

\* normalize_search_text: what is left without the noise, or else all of it.
Normalized(text) == IF text \subseteq NoiseWords THEN text ELSE text \ NoiseWords

Text == (SUBSET Words) \ {{}}
Row == [norm : Text, of : ServiceNames, text : Text, weight : 1..10]
Key(r) == <<r.norm, r.of>>
ListedServices == {s \in ServiceNames : service[s] = 0}
ListedShops == {s \in Shops : station[s] = 0}

Answer == [services : Seq(ServiceNames), stations : SUBSET Shops, age : 0..1]
Request == [ask : Asks, services : Seq(ServiceNames), stations : SUBSET Shops]

SuggestionsInit ==
    /\ phrases = {}
    /\ \E off \in {0, 3} : service = [s \in ServiceNames |-> off]
    /\ station = [s \in Shops |-> 0]
    /\ answers = [a \in Asks |-> NoAnswer]
    /\ asking = NoAnswer
    /\ ensuring = FALSE
    /\ edits = 0

-----------------------------------------------------------------------------
\* The links of a dictionary; the targets of a phrase weigh less and less.
Links(dictionary) ==
    UNION {{<<i, j>> : j \in DOMAIN dictionary[i].targets} : i \in DOMAIN dictionary}
TargetWeight(j) == IF j <= 5 THEN 11 - j ELSE 5
RowOf(dictionary, l) ==
    [norm |-> Normalized(dictionary[l[1]].phrase), of |-> Aliases[dictionary[l[1]].targets[l[2]]],
     text |-> dictionary[l[1]].phrase, weight |-> TargetWeight(l[2])]
Later(l, m) == l[1] > m[1] \/ (l[1] = m[1] /\ l[2] > m[2])

\* get_or_create by phrase and service, and the text and weight of the last link.
Imported(dictionary) ==
    {RowOf(dictionary, l) : l \in {m \in Links(dictionary) :
        \A o \in Links(dictionary) : Later(o, m) => Key(RowOf(dictionary, o)) # Key(RowOf(dictionary, m))}}
Updated(new, old) == new \cup {r \in old : \A n \in new : Key(n) # Key(r)}

\* The command runs in one transaction; it adds the services it does not find.
Import(dictionary, kept) ==
    LET new == Imported(dictionary)
    IN  /\ phrases' = Updated(new, kept)
        /\ service' = [s \in ServiceNames |-> IF \E r \in new : r.of = s THEN 0 ELSE service[s]]

Edited == edits < MaxEdits /\ edits' = edits + 1

DictionaryImported ==
    /\ Edited
    /\ \E dictionary \in PhraseFiles, kept \in {phrases, {}} : Import(dictionary, kept)
    /\ UNCHANGED <<station, answers, asking, ensuring>>

\* ensure_search_phrases, of the containers' entrypoint.
DictionaryMissed ==
    /\ phrases = {} /\ ~ensuring
    /\ ensuring' = TRUE
    /\ UNCHANGED <<phrases, service, station, answers, asking, edits>>
DictionaryEnsured ==
    /\ ensuring /\ ensuring' = FALSE
    /\ \E dictionary \in PhraseFiles : Import(dictionary, phrases)
    /\ UNCHANGED <<station, answers, asking, edits>>

\* Administrators add a phrase or take one away, and delete a service with its own.
PhraseAdded ==
    /\ Edited
    /\ \E text \in PhraseTexts, s \in ListedServices, w \in PhraseWeights :
          LET new == [norm |-> Normalized(text), of |-> s, text |-> text, weight |-> w]
          IN  /\ \A r \in phrases : Key(r) # Key(new)
              /\ phrases' = phrases \cup {new}
    /\ UNCHANGED <<service, station, answers, asking, ensuring>>
PhraseDeleted ==
    /\ Edited
    /\ \E r \in phrases : phrases' = phrases \ {r}
    /\ UNCHANGED <<service, station, answers, asking, ensuring>>
ServiceDeleted ==
    /\ Edited
    /\ \E s \in ListedServices :
          /\ phrases' = {r \in phrases : r.of # s}
          /\ service' = [service EXCEPT ![s] = 1]
    /\ UNCHANGED <<station, answers, asking, ensuring>>

-----------------------------------------------------------------------------
\* The words of a query against those of a row, each by the word it is most like:
\* the fiftieths of all of them (_token_pair_score, _phrase_bag).
Coverage(q, r) ==
    Cardinality({p \in Normalized(q) \X (1..Whole) : \E b \in r.text : p[2] <= Likeness[p[1]][b]})

\* Mutant: a phrase within another counts as much as the phrase itself.
ScoreOfParts(q, r) ==
    LET norm == Normalized(q)
    IN  (9500 * Coverage(q, r)) \div (Whole * Cardinality(norm))
          + (IF q \subseteq r.text THEN 5500 ELSE 0)
          + (IF norm \subseteq r.norm THEN 7000 ELSE IF r.norm \subseteq norm THEN 3500 ELSE 0)
          + 200 * r.weight

\* _score_phrase_against_query.
Score(q, r) ==
    LET norm == Normalized(q)
    IN  (9500 * Coverage(q, r)) \div (Whole * Cardinality(norm))
          + (IF q \subseteq r.text THEN 5500 ELSE 0)
          + (CASE norm = r.norm -> 7000
               [] norm # r.norm /\ norm \subseteq r.norm -> 4000
               [] norm # r.norm /\ r.norm \subseteq norm -> 3500
               [] OTHER -> 0)
          + 200 * r.weight

\* _category_name_hits.
NamePoints(q, s) ==
    CASE q = s -> 7200
      [] q # s /\ q \subseteq s -> 5200
      [] ~(q \subseteq s) /\ Normalized(q) \subseteq Normalized(s) -> 4400
      [] OTHER -> 0

\* The rows that are scored: those of the phrase are the most similar and come first,
\* and of the others that have a form of a word as many as the limit lets through.
Same(q) == {r \in phrases : r.norm = Normalized(q)}
LookedFor(q) == UNION {Forms[w] : w \in Normalized(q)}
Found(q) == {r \in phrases : r.text \cap LookedFor(q) # {}}
CandidateSets(q) ==
    LET others == Found(q) \ Same(q)
        number == IF Cardinality(others) < CandidateLimit THEN Cardinality(others) ELSE CandidateLimit
    IN  {Same(q) \cup more : more \in kSubset(number, others)}

Points(q, rows, s) ==
    Max({NamePoints(q, s)} \cup {p \in {Score(q, r) : r \in {c \in rows : c.of = s}} : p >= 2200})

Orders(set) == {list \in [1..Cardinality(set) -> set] : IsInjective(list)}

\* Services by points, any order among equals.
ServiceLists(q, rows) ==
    LET points == [s \in ListedServices |-> Points(q, rows, s)]
        found == {s \in ListedServices : points[s] > 0}
        best == {list \in Orders(found) : \A i, j \in DOMAIN list :
                    i < j => points[list[i]] >= points[list[j]]}
    IN  {SubSeq(list, 1, IF Len(list) < ServiceLimit THEN Len(list) ELSE ServiceLimit) : list \in best}

\* Stations with the words in their name or address, and then those with a service
\* of such a name, which take a place of the list for each of the services.
\* (Sections and masters are looked up by their names alike.)
StationsOf(q) ==
    LET named == {s \in ListedShops : q \subseteq ShopText[s]}
        places == {p \in (ListedShops \ named) \X ListedServices :
                      p[2] \in ShopServices[p[1]] /\ q \subseteq p[2]}
        Before(s) == IF s \in named THEN Cardinality({t \in named : t < s})
                     ELSE Cardinality(named) + Cardinality({p \in places : p[1] < s})
    IN  {s \in named \cup {p[1] : p \in places} : Before(s) < ShopLimit}

-----------------------------------------------------------------------------
\* SearchSuggestAPIView, when the cache has no answer.  Bound: one at a time.
Suggest(a) ==
    /\ asking = NoAnswer /\ answers[a] = NoAnswer
    /\ \E rows \in CandidateSets(a.text) : \E list \in ServiceLists(a.text, rows) :
          asking' = [ask |-> a, services |-> list,
                     stations |-> IF a.only THEN {} ELSE StationsOf(a.text)]
    /\ UNCHANGED <<phrases, service, station, answers, ensuring, edits>>

SuggestKept ==
    /\ asking # NoAnswer
    /\ answers' = [answers EXCEPT ![asking.ask] =
                      [services |-> asking.services, stations |-> asking.stations, age |-> 0]]
    /\ asking' = NoAnswer
    /\ UNCHANGED <<phrases, service, station, ensuring, edits>>

\* Mutant: each use keeps it for another hour.
AnswerUsed ==
    /\ \E a \in Asks : /\ answers[a] # NoAnswer /\ answers[a].age = 1
                       /\ answers' = [answers EXCEPT ![a].age = 0]
    /\ UNCHANGED <<phrases, service, station, asking, ensuring, edits>>

\* An answer is kept for an hour, however often it is read.
AnswerExpires ==
    /\ \E a \in Asks : /\ answers[a] # NoAnswer /\ answers[a].age = 1
                       /\ answers' = [answers EXCEPT ![a] = NoAnswer]
    /\ UNCHANGED <<phrases, service, station, asking, ensuring, edits>>
Longer(off) == IF off \in 1..2 THEN off + 1 ELSE off

\* An hour passes; a request takes less.
HourPasses ==
    /\ asking = NoAnswer
    /\ \A a \in Asks : answers[a] # NoAnswer => answers[a].age = 0
    /\ answers' = [a \in Asks |-> IF answers[a] = NoAnswer THEN NoAnswer
                                  ELSE [answers[a] EXCEPT !.age = 1]]
    /\ service' = [s \in ServiceNames |-> Longer(service[s])]
    /\ station' = [s \in Shops |-> Longer(station[s])]
    /\ UNCHANGED <<phrases, asking, ensuring, edits>>

\* A station is taken off the site, or comes on it; subscriptions end at midnight,
\* and the key of an answer has the day.
StationHidden ==
    /\ \E s \in ListedShops : station' = [station EXCEPT ![s] = 1]
    /\ UNCHANGED <<phrases, service, answers, asking, ensuring, edits>>
StationShown ==
    /\ \E s \in Shops \ ListedShops : station' = [station EXCEPT ![s] = 0]
    /\ UNCHANGED <<phrases, service, answers, asking, ensuring, edits>>
\* Mutant: the key has no day.
OfAnyDay(cache) == cache
OfToday(cache) == [a \in Asks |-> NoAnswer]
MidnightPasses ==
    /\ \E over \in SUBSET ListedShops :
          station' = [s \in Shops |-> IF s \in over THEN 3 ELSE station[s]]
    /\ answers' = OfToday(answers)
    /\ asking' = NoAnswer
    /\ UNCHANGED <<phrases, service, ensuring, edits>>

SuggestionsNext ==
    \/ DictionaryImported \/ DictionaryMissed \/ DictionaryEnsured
    \/ PhraseAdded \/ PhraseDeleted \/ ServiceDeleted
    \/ \E a \in Asks : Suggest(a)
    \/ SuggestKept \/ AnswerExpires \/ HourPasses \/ StationHidden \/ StationShown \/ MidnightPasses

-----------------------------------------------------------------------------
SuggestionsTypeOK ==
    /\ phrases \subseteq Row
    /\ \A r \in phrases : service[r.of] = 0
    /\ \A r, s \in phrases : Key(r) = Key(s) => r = s
    /\ service \in [ServiceNames -> 0..3] /\ station \in [Shops -> 0..3]
    /\ answers \in [Asks -> Answer \cup {NoAnswer}]
    /\ asking \in Request \cup {NoAnswer}
    /\ ensuring \in BOOLEAN
    /\ edits \in 0..MaxEdits

\* A driver who types a phrase of the dictionary gets first a service it leads to,
\* whatever longer phrases contain it, however they weigh, and whatever the rows that
\* the limits leave out.
PhraseIsAnswered ==
    \A r \in phrases : \A rows \in CandidateSets(r.text) : \A list \in ServiceLists(r.text, rows) :
        \E s \in phrases : s.norm = r.norm /\ s.of = list[1]

\* What is suggested is on the site or was so within the life of an answer: nothing
\* that has been off for two hours, and no station whose days were over at midnight.
SuggestedWasOnSite ==
    \A a \in Asks : answers[a] # NoAnswer =>
        /\ \A i \in DOMAIN answers[a].services : service[answers[a].services[i]] < 3
        /\ \A s \in answers[a].stations : station[s] < 3
=============================================================================
