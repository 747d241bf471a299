---------------------------- MODULE Certification ----------------------------
(***************************************************************************)
(* certification_passed: the survey module's completion fact finds a badge *)
(* by its name, stamps the badge with the fact's survey if it carries none *)
(* and then grants it with grant_system under the fact's key.  The lookup, *)
(* the stamp and the grant are three transactions; BadgeGrants models the  *)
(* third, beside every other grant.                                        *)
(*                                                                         *)
(* A fact is the record of its payload (a redelivery is another fact with  *)
(* the same key), and the grant it asks for is one of the system calls.    *)
(***************************************************************************)
EXTENDS BadgeGrants

CONSTANTS
  Names,    (* badge names, the badge_key of a fact                          *)
  NameOf,   (* per badge id, its name                                        *)
  Surveys,
  Facts     (* [id, name, recipient, key, survey]                            *)

(* The call of grant_system a fact makes once it found badge b.             *)
GrantOf(f, b) == [id |-> f, badge |-> b, recipient |-> f.recipient, key |-> f.key]

Named(f) == {b \in Badges : NameOf[b] = f.name}

ASSUME CertificationAssumption ==
  /\ NameOf \in [Badges -> Names]
  /\ \A f \in Facts : f.survey \in Surveys \cup {None}
  /\ \A f \in Facts : \A b \in Named(f) : GrantOf(f, b) \in SystemCalls
  /\ None \notin Badges \cup Surveys

VARIABLES
  survey,   (* per badge, its survey_id                                      *)
  moved,    (* the badges whose survey_id a generic edit changed             *)
  step,     (* per fact, the last step it completed                          *)
  found,    (* per fact, the badge it found                                  *)
  carried,  (* per fact, the survey that badge carried then                  *)
  stamped,  (* the facts that stamped their badge                            *)
  lineage   (* per fact, the survey_lineage of its view                      *)

certVars == <<survey, moved, step, found, carried, stamped, lineage>>
allVars == <<vars, certVars>>

Delivered == {"unknown", "failed", "answered"}

CertSteps == {"idle", "resolved", "settled", "granting"} \cup Delivered

CertGrants == UNION {{GrantOf(f, b) : b \in Named(f)} : f \in Facts}

Advance(f, s) == step' = [step EXCEPT ![f] = s]

(* The live badges that share b's name, and in that name the unique indexes *)
(* keep one badge without a survey and one per survey.                      *)
Namesakes(b) == {d \in Badges \ {b} : NameOf[d] = NameOf[b] /\ badge[d] # Deleted}

Room(b, s) == \A d \in Namesakes(b) : survey[d] # s

CertInit ==
  /\ Init
  /\ survey \in [Badges -> Surveys \cup {None}]
  /\ \A b \in Badges : Room(b, survey[b])
  /\ moved = {}
  /\ step = [f \in Facts |-> "idle"]
  /\ found = [f \in Facts |-> None]
  /\ carried = [f \in Facts |-> None]
  /\ stamped = {}
  /\ lineage = [f \in Facts |-> None]

(* find_badge_by_name: any live badge of the name, although the indexes     *)
(* allow several.                                                           *)
Resolve(f) ==
  /\ step[f] = "idle"
  /\ \/ \E b \in Named(f) :
          /\ badge[b] # Deleted
          /\ found' = [found EXCEPT ![f] = b]
          /\ carried' = [carried EXCEPT ![f] = survey[b]]
          /\ Advance(f, "resolved")
     \/ /\ \A b \in Named(f) : badge[b] = Deleted
        /\ Advance(f, "unknown")
        /\ UNCHANGED <<found, carried>>
  /\ UNCHANGED <<vars, survey, moved, stamped, lineage>>

MayStamp(f) == f.survey # None /\ carried[f] = None

(* Mutant of Stampable: the UPDATE does not ask for survey_id IS NULL.      *)
StampableAgain(f) == TRUE

(* WHERE id = $1 AND survey_id IS NULL.                                     *)
Stampable(f) == survey[found[f]] = None

(* stamp_badge_survey_lineage, committed on its own.                        *)
Stamp(f) ==
  /\ step[f] = "resolved"
  /\ MayStamp(f)
  /\ Stampable(f)
  /\ badge[found[f]] = Deleted \/ Room(found[f], f.survey)
  /\ survey' = [survey EXCEPT ![found[f]] = f.survey]
  /\ stamped' = stamped \cup {f}
  /\ lineage' = [lineage EXCEPT ![f] = f.survey]
  /\ Advance(f, "settled")
  /\ UNCHANGED <<vars, moved, found, carried>>

(* ... refused by the index: a namesake already carries the fact's survey.  *)
StampRefused(f) ==
  /\ step[f] = "resolved"
  /\ MayStamp(f)
  /\ Stampable(f)
  /\ badge[found[f]] # Deleted
  /\ ~Room(found[f], f.survey)
  /\ Advance(f, "failed")
  /\ UNCHANGED <<vars, survey, moved, found, carried, stamped, lineage>>

(* Mutant of Effective: the lineage is the fact's own survey.               *)
EffectiveOwn(f) == f.survey

(* The lineage of a fact that stamped nothing: what its badge carried when  *)
(* it was found, although another fact may have stamped it since.           *)
Effective(f) == carried[f]

Keep(f) ==
  /\ step[f] = "resolved"
  /\ ~MayStamp(f) \/ ~Stampable(f)
  /\ lineage' = [lineage EXCEPT ![f] = Effective(f)]
  /\ Advance(f, "settled")
  /\ UNCHANGED <<vars, survey, moved, found, carried, stamped>>

(* grant_system(badge.id, ...) begins.                                      *)
Grant(f) ==
  /\ step[f] = "settled"
  /\ Begin(GrantOf(f, found[f]))
  /\ Advance(f, "granting")
  /\ UNCHANGED <<survey, moved, found, carried, stamped, lineage>>

Answered(f) ==
  /\ step[f] = "granting"
  /\ pc[GrantOf(f, found[f])] = "answered"
  /\ Advance(f, "answered")
  /\ UNCHANGED <<vars, survey, moved, found, carried, stamped, lineage>>

(* Mutant of Lost: a grant that failed is tried again from the lookup.      *)
LostRetried(f) ==
  /\ step[f] = "granting"
  /\ pc[GrantOf(f, found[f])] \in {"refused", "aborted"}
  /\ Advance(f, "idle")
  /\ UNCHANGED <<vars, survey, moved, found, carried, stamped, lineage>>

(* The grant's error is the fact's.                                         *)
Lost(f) ==
  /\ step[f] = "granting"
  /\ pc[GrantOf(f, found[f])] \in {"refused", "aborted"}
  /\ Advance(f, "failed")
  /\ UNCHANGED <<vars, survey, moved, found, carried, stamped, lineage>>

(* The delivery dies between the lookup, the stamp and the grant.           *)
Die(f) ==
  /\ step[f] \in {"resolved", "settled"}
  /\ Advance(f, "failed")
  /\ UNCHANGED <<vars, survey, moved, found, carried, stamped, lineage>>

certification_passed(f) ==
  \/ Resolve(f) \/ Stamp(f) \/ StampRefused(f) \/ Keep(f) \/ Grant(f)
  \/ Answered(f) \/ Lost(f) \/ Die(f)

(* The generic badge routes write survey_id too.                            *)
EditSurvey(b) ==
  /\ \E s \in (Surveys \cup {None}) \ {survey[b]} :
       /\ badge[b] = Deleted \/ Room(b, s)
       /\ survey' = [survey EXCEPT ![b] = s]
  /\ moved' = moved \cup {b}
  /\ UNCHANGED <<vars, step, found, carried, stamped, lineage>>

(* A restored badge must find its name free.                                *)
EditNamed(b) ==
  /\ EditBadge(b)
  /\ badge[b] = Deleted => Room(b, survey[b])

(* The other grants, and the grants of facts once they began.               *)
Grants ==
  \/ NextMonth
  \/ \E b \in Badges : EditNamed(b)
  \/ \E c \in PeerCalls : grant_peer(c)
  \/ \E c \in SystemCalls : (c \in CertGrants => pc[c] # "idle") /\ grant_system(c)

CertNext ==
  \/ Grants /\ UNCHANGED certVars
  \/ \E b \in Badges : EditSurvey(b)
  \/ \E f \in Facts : certification_passed(f)

CertSpec == CertInit /\ [][CertNext]_allVars

CertFairness ==
  WF_allVars(\/ Statement /\ UNCHANGED certVars
             \/ \E f \in Facts : Stamp(f) \/ StampRefused(f) \/ Keep(f) \/ Grant(f)
                                   \/ Answered(f) \/ Lost(f))

-----------------------------------------------------------------------------
(* The variables keep their types; the grant of a fact runs only after its  *)
(* lineage is settled, and on the badge it found.                           *)
CertTypeOK ==
  /\ survey \in [Badges -> Surveys \cup {None}]
  /\ moved \subseteq Badges
  /\ step \in [Facts -> CertSteps]
  /\ found \in [Facts -> Badges \cup {None}]
  /\ carried \in [Facts -> Surveys \cup {None}]
  /\ stamped \subseteq Facts
  /\ lineage \in [Facts -> Surveys \cup {None}]
  /\ \A f \in Facts : step[f] \in {"resolved", "settled", "granting", "answered"}
                        => found[f] \in Named(f)
  /\ \A f \in Facts : \A b \in Named(f) :
       pc[GrantOf(f, b)] # "idle"
         => found[f] = b /\ step[f] \in {"granting", "failed", "answered"}

(* "First-certification-wins": no certification takes a badge over from the *)
(* survey it carries, however late it reads or writes it.                   *)
FirstCertificationWins ==
  [][\A b \in Badges : survey[b] # None /\ b \notin moved' => survey'[b] = survey[b]]_allVars

(* "The EFFECTIVE lineage": a survey that a view names is the survey its    *)
(* badge carries, now and later, and not the fact's own one.                *)
LineageIsTheBadges ==
  \A f \in Facts :
    step[f] \in {"settled", "granting", "answered"} /\ lineage[f] # None
      => found[f] \in moved \/ survey[found[f]] = lineage[f]
=============================================================================
