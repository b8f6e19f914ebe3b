-------------------------- MODULE AssessmentCriteria --------------------------
(***************************************************************************)
(* The criteria a PC is assessed against: the official values, an          *)
(* organization's default and a user's profiles                            *)
(*   application/assessment_criteria.py,                                   *)
(*   persistence/database/assessment_criteria_repository.py                *)
(*                                                                         *)
(* A value that arrives is [type, value]; a list is a sequence of items    *)
(* [kind, name], the kind "name" for one that can be kept. A name is       *)
(* [fold, text], fold the name without case. The digest of criteria is the *)
(* function from keys to values that is hashed.                            *)
(***************************************************************************)
EXTENDS Checks

CONSTANT DefaultServices      \* DEFAULT_UNNECESSARY_SERVICE_IDS, a set of names

Number(official, comparison, low, high) ==
  [type |-> "INTEGER", official |-> official, comparison |-> comparison, range |-> low..high]
Required == [type |-> "BOOLEAN", official |-> TRUE, comparison |-> "REQUIRED"]
Names(official) == [type |-> "STRING_LIST", official |-> official, comparison |-> "CATALOG"]

CriteriaCatalog ==
  [password_maximum_age_days |-> Number(90, "MAXIMUM", 1, 365),
   password_minimum_length |-> Number(10, "MINIMUM", 8, 64),
   password_complexity_required |-> Required,
   password_required |-> Required,
   approved_share_ids |-> Names({}),
   unnecessary_service_ids |-> Names(DefaultServices),
   approved_messenger_products |-> Names({}),
   security_update_maximum_age_days |-> Number(30, "MAXIMUM", 1, 180),
   antivirus_signature_maximum_age_hours |-> Number(24, "MAXIMUM", 1, 168),
   screensaver_timeout_maximum_minutes |-> Number(10, "MAXIMUM", 1, 60),
   wininet_current_user_scope_accepted |-> Required,
   screensaver_current_user_scope_accepted |-> Required,
   autoplay_disabled_required |-> Required,
   remote_assistance_disabled_required |-> Required]

CriteriaKeys == DOMAIN CriteriaCatalog

(* ------------------------------- values ------------------------------- *)
\* Blank items are dropped, and of names that differ in case the first is kept.
NormalizeList(items) ==
  {items[i].name : i \in {j \in DOMAIN items :
     /\ items[j].kind = "name"
     /\ \A k \in 1..(j - 1) : items[k].kind = "name" => items[k].name.fold # items[j].name.fold}}

ListAccepted(key, items) ==
  /\ \A i \in DOMAIN items : items[i].kind \in {"name", "blank"}
  /\ Cardinality(NormalizeList(items)) <= 50
  /\ key = "unnecessary_service_ids" => NormalizeList(items) # {}

ValuesAccepted(values) ==
  \A key \in DOMAIN values :
    /\ key \in CriteriaKeys
    /\ values[key].type = CriteriaCatalog[key].type
    /\ values[key].type = "INTEGER" => values[key].value \in CriteriaCatalog[key].range
    /\ values[key].type = "STRING_LIST" => ListAccepted(key, values[key].value)

NormalizedValues(values) ==
  [key \in DOMAIN values |->
     IF values[key].type = "STRING_LIST" THEN NormalizeList(values[key].value)
     ELSE values[key].value]

(* --------------------------- effective criteria ----------------------- *)
Strength(key, value) ==
  LET official == CriteriaCatalog[key].official
      comparison == CriteriaCatalog[key].comparison
  IN IF value = official THEN "SAME"
     ELSE CASE comparison = "MINIMUM" -> IF value > official THEN "STRONGER" ELSE "WEAKER"
            [] comparison = "MAXIMUM" -> IF value < official THEN "STRONGER" ELSE "WEAKER"
            [] comparison = "REQUIRED" -> "WEAKER"
            [] comparison = "CATALOG" -> "CUSTOM"

BuildEffective(organization, personal) ==
  [key \in CriteriaKeys |->
     LET source == IF key \in DOMAIN personal THEN "PERSONAL"
                   ELSE IF key \in DOMAIN organization THEN "ORGANIZATION" ELSE "KISA_DEFAULT"
         value == CASE source = "PERSONAL" -> personal[key]
                    [] source = "ORGANIZATION" -> organization[key]
                    [] source = "KISA_DEFAULT" -> CriteriaCatalog[key].official
     IN [value |-> value, source |-> source, strength |-> Strength(key, value)]]

CriteriaDigest(effective) == [key \in DOMAIN effective |-> effective[key].value]

(* --------------------------- what a scan is given --------------------- *)
\* validate_criteria_execution_context: the snapshot the browser hands to the
\* local launcher; a profile context is <<>> or one record.
ProfileContextAccepted(profile) ==
  \A i \in DOMAIN profile :
    profile[i].fields /\ profile[i].uuid /\ profile[i].named /\ profile[i].version >= 1 /\ profile[i].digested

Sources == {"KISA_DEFAULT", "ORGANIZATION", "PERSONAL"}

ExecutionContextChecks(x) ==
  <<Check(~x.fields \/ ~ValuesAccepted(x.values), "CRITERIA_SNAPSHOT_INVALID"),
    Check(DOMAIN x.values # CriteriaKeys, "CRITERIA_INCOMPLETE"),
    Check(x.digest # NormalizedValues(x.values), "CRITERIA_DIGEST_MISMATCH"),
    Check(DOMAIN x.sources # CriteriaKeys \/ \E key \in DOMAIN x.sources : x.sources[key] \notin Sources,
          "CRITERIA_SOURCES_INVALID"),
    Check(~ProfileContextAccepted(x.organization) \/ ~ProfileContextAccepted(x.personal),
          "CRITERIA_PROFILE_INVALID")>>

\* decode_criteria_execution_context; length is that of the encoded context.
DecodeContext(x) ==
  FirstRejection(<<Check(x.length = 0 \/ x.length > 16384, "CRITERIA_LENGTH_INVALID"),
                   Check(~x.readable, "CRITERIA_UNREADABLE")>> \o ExecutionContextChecks(x))

(* ------------------------- profiles and selections -------------------- *)
\* A profile row is [id, owner, name, version, values], owner Nobody for the
\* organization; a selection is [kind, profile, digest, source]. The tables hold
\* the rows of one organization.
Nobody == "nobody"
NoProfile == <<>>
NoValues == [key \in {} |-> 0]

RowsOf(profiles, owner, name) == {p \in profiles : p.owner = owner /\ p.name = name}
LatestOf(rows) == {p \in rows : \A q \in rows : q.version <= p.version}

LatestOrganization(profiles) == LatestOf({p \in profiles : p.owner = Nobody})
LatestPersonal(profiles, user) ==
  UNION {LatestOf(RowsOf(profiles, user, name)) : name \in {p.name : p \in {q \in profiles : q.owner = user}}}
GetPersonal(profiles, user, id) == {p \in profiles : p.owner = user /\ p.id = id}

ValuesIn(rows) == IF rows = {} THEN NoValues ELSE (CHOOSE p \in rows : TRUE).values

\* The criteria of a kind: KISA_DEFAULT leaves the organization out.
CriteriaOf(profiles, kind, personal) ==
  BuildEffective(IF kind = "KISA_DEFAULT" THEN NoValues ELSE ValuesIn(LatestOrganization(profiles)),
                 ValuesIn(personal))

\* AssessmentCriteriaService.options: what the start page shows. The latest
\* selection decides where the request names neither a kind nor a profile.
OptionsChecks(profiles, user, kind, profile, latest) ==
  <<Check(profile # NoProfile /\ kind \notin {"", "PERSONAL"}, "KIND_TAKES_NO_PROFILE"),
    Check(profile # NoProfile /\ GetPersonal(profiles, user, profile) = {}, "PROFILE_NOT_FOUND"),
    Check(profile = NoProfile /\ kind = "PERSONAL", "PROFILE_REQUIRED"),
    Check(/\ profile = NoProfile /\ kind = "" /\ latest.kind = "PERSONAL"
          /\ GetPersonal(profiles, user, latest.profile) = {}, "SELECTED_PROFILE_NOT_FOUND")>>

Options(profiles, user, kind, profile, latest) ==
  LET restored == profile = NoProfile /\ kind = "" /\ latest.kind = "PERSONAL"
      selected == IF profile # NoProfile THEN GetPersonal(profiles, user, profile)
                  ELSE IF restored THEN GetPersonal(profiles, user, latest.profile) ELSE {}
      resolved == CASE profile # NoProfile -> "PERSONAL"
                    [] profile = NoProfile /\ kind # "" -> kind
                    [] profile = NoProfile /\ kind = "" -> latest.kind
      effective == CriteriaOf(profiles, resolved, selected)
  IN [kind |-> resolved, selected |-> {p.id : p \in selected}, effective |-> effective,
      listed |-> {p.id : p \in LatestPersonal(profiles, user)},
      organization |-> LatestOrganization(profiles) # {}, digest |-> CriteriaDigest(effective)]

\* What stands for a selection where there is none.
DefaultSelection(profiles) ==
  [kind |-> IF LatestOrganization(profiles) = {} THEN "KISA_DEFAULT" ELSE "ORGANIZATION",
   profile |-> NoProfile]

\* A start that does not compare with what its page showed.
SelectWithoutComparing(profiles, user, kind, profile, expected) ==
  <<Check(kind = "PERSONAL" /\ GetPersonal(profiles, user, profile) = {}, "PROFILE_NOT_FOUND"),
    Check(kind # "PERSONAL" /\ profile # NoProfile, "KIND_TAKES_NO_PROFILE")>>

\* AssessmentCriteriaService.select; expected is <<>> or <<digest>>.
SelectChecks(profiles, user, kind, profile, expected) ==
  LET personal == GetPersonal(profiles, user, profile)
  IN <<Check(kind = "PERSONAL" /\ profile = NoProfile, "PROFILE_REQUIRED"),
       Check(kind = "PERSONAL" /\ personal = {}, "PROFILE_NOT_FOUND"),
       Check(kind # "PERSONAL" /\ profile # NoProfile, "KIND_TAKES_NO_PROFILE"),
       Check(\E i \in DOMAIN expected : expected[i] # CriteriaDigest(CriteriaOf(profiles, kind, personal)),
             "CRITERIA_CHANGED")>>
=============================================================================
