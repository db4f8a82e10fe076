-------------------------- MODULE ConfluencePublish --------------------------
(***************************************************************************)
(* Publishing to Confluence (confluence-publisher.ts over                  *)
(* confluence.service.ts): the page of one root cause analysis, found by   *)
(* its title and then updated or created, and the page of one day's test   *)
(* reports, always created; then labels, then a row that maps the page.    *)
(* Column pageId of the row is unique, and the row is always inserted.     *)
(*                                                                         *)
(* Confluence refuses a second page of one title in a space, and an update *)
(* whose version is not the next one.  So a call that is repeated after    *)
(* its answer was lost is refused.  Abstracted: texts, labels, spaces.     *)
(***************************************************************************)
EXTENDS Naturals

CONSTANTS
  Publisher,  \* requests to publish
  EditsElsewhere, \* bound: edits of a page in Confluence itself
  MishapBound \* bound: failed calls, lost answers, failed writes

ASSUME PublishAssumption == EditsElsewhere \in Nat /\ MishapBound \in Nat

Document == {"rca", "report"}

VARIABLES
  page,       \* per document: version of its page, 0 when there is none
  mapped,     \* documents whose page has a row
  publishing, \* per publisher: where it is, or how it ended
  document,   \* per publisher: what it publishes
  found,      \* per publisher: the version the search returned, 0 for none
  changes,    \* edits made elsewhere
  mishaps,
  crowded     \* history: two publishers of a document were at work at once

publishVars == <<page, mapped, publishing, document, found, changes, mishaps, crowded>>

Ended == {"published", "failed"}
AtWork(p) == publishing[p] \notin {"new"} \union Ended

PublishTypeOK ==
  /\ page \in [Document -> Nat]
  /\ mapped \subseteq Document
  /\ publishing \in [Publisher -> {"new", "finding", "writing", "labelling", "mapping"} \union Ended]
  /\ document \in [Publisher -> Document]
  /\ found \in [Publisher -> Nat]
  /\ changes \in 0..EditsElsewhere /\ mishaps \in 0..MishapBound
  /\ crowded \subseteq Document

PublishInit ==
  /\ page = [d \in Document |-> 0]
  /\ mapped = {}
  /\ publishing = [p \in Publisher |-> "new"]
  /\ document \in [Publisher -> Document]
  /\ found = [p \in Publisher |-> 0]
  /\ changes = 0 /\ mishaps = 0
  /\ crowded = {}

Turns(p, from, to) == publishing[p] = from /\ publishing' = [publishing EXCEPT ![p] = to]
Mishap == mishaps < MishapBound /\ mishaps' = mishaps + 1

\* The analysis, or the run, is read; it is there
BeginPublish(p) ==
  /\ Turns(p, "new", IF document[p] = "rca" THEN "finding" ELSE "writing")
  /\ crowded' = IF \E q \in Publisher : document[q] = document[p] /\ AtWork(q)
                THEN crowded \union {document[p]} ELSE crowded
  /\ UNCHANGED <<page, mapped, document, found, changes, mishaps>>

findPageByTitle(p) ==
  /\ Turns(p, "finding", "writing")
  /\ found' = [found EXCEPT ![p] = page[document[p]]]
  /\ UNCHANGED <<page, mapped, document, changes, mishaps, crowded>>

\* An error is answered as no page
FindFails(p) ==
  /\ Turns(p, "finding", "writing")
  /\ Mishap
  /\ UNCHANGED <<page, mapped, document, found, changes, crowded>>

WriteIt(p) == page' = [page EXCEPT ![document[p]] = @ + 1]

\* createPage or updatePage is accepted: the page is as it was found
WritePage(p) ==
  /\ Turns(p, "writing", "labelling")
  /\ found[p] = page[document[p]]
  /\ WriteIt(p)
  /\ UNCHANGED <<mapped, document, found, changes, mishaps, crowded>>

\* It exists by now, or somebody has changed it
WriteRefused(p) ==
  /\ Turns(p, "writing", "failed")
  /\ found[p] # page[document[p]]
  /\ UNCHANGED <<page, mapped, document, found, changes, mishaps, crowded>>

\* The call fails; or it was accepted, its answer is lost, and a repetition
\* of it is refused
PageWriteFails(p) ==
  /\ Turns(p, "writing", "failed")
  /\ Mishap
  /\ UNCHANGED page \/ (found[p] = page[document[p]] /\ WriteIt(p))
  /\ UNCHANGED <<mapped, document, found, changes, crowded>>

\* Labels are optional: their failure changes nothing
addLabels(p) ==
  /\ Turns(p, "labelling", "mapping")
  /\ UNCHANGED <<page, mapped, document, found, changes, mishaps, crowded>>

\* The row is inserted; a second one for the page is refused, and so the
\* publication fails although the page was written
MapPage(p) ==
  /\ IF document[p] \in mapped THEN Turns(p, "mapping", "failed")
                               ELSE Turns(p, "mapping", "published")
  /\ mapped' = mapped \union {document[p]}
  /\ UNCHANGED <<page, document, found, changes, mishaps, crowded>>

MapFails(p) ==
  /\ Turns(p, "mapping", "failed")
  /\ Mishap
  /\ UNCHANGED <<page, mapped, document, found, changes, crowded>>

EditElsewhere(d) ==
  /\ page[d] > 0 /\ changes < EditsElsewhere
  /\ changes' = changes + 1
  /\ page' = [page EXCEPT ![d] = @ + 1]
  /\ UNCHANGED <<mapped, publishing, document, found, mishaps, crowded>>

Publish(p) ==
  \/ BeginPublish(p) \/ findPageByTitle(p) \/ FindFails(p)
  \/ WritePage(p) \/ WriteRefused(p) \/ PageWriteFails(p)
  \/ addLabels(p) \/ MapPage(p) \/ MapFails(p)

PublishNext == (\E p \in Publisher : Publish(p)) \/ (\E d \in Document : EditElsewhere(d))

PublishSpec == PublishInit /\ [][PublishNext]_publishVars
-----------------------------------------------------------------------------
\* What a publisher reports is true: a published page exists and is mapped; a
\* page without a row was left by a publisher that failed or is still at work.
PagesAreMapped ==
  /\ \A p \in Publisher : publishing[p] = "published" => document[p] \in mapped
  /\ \A d \in mapped : page[d] > 0
  /\ \A d \in Document \ mapped : page[d] > 0 =>
       \E p \in Publisher :
         document[p] = d /\ publishing[p] \in {"labelling", "mapping", "failed"}

PublishInv == PublishTypeOK /\ PagesAreMapped

\* A publication replaces the version its publisher has looked at, and never an
\* edit that somebody made in Confluence meanwhile.
NoEditIsOverwritten ==
  [][\A p \in Publisher :
       (publishing[p] = "writing" /\ publishing'[p] # "writing" /\ page' # page)
         => page[document[p]] = found[p]]_publishVars

\* confluence-publisher.ts:19-20, "creates or updates a Confluence page and
\* stores the mapping": without mishaps and without overlap an analysis can be
\* published, and published again.
AnalysesArePublished ==
  \A p \in Publisher :
    publishing[p] = "failed" => document[p] = "report" \/ mishaps > 0 \/ changes > 0 \/ "rca" \in crowded
=============================================================================
