--------------------------- MODULE RedirectTarget ---------------------------
(***************************************************************************)
(* inject_utm_params: the address resolve_redirect sends a visitor on to,  *)
(* from the tracker's target and the names of its masters.  A target may   *)
(* itself have come out of a tracker.  Addresses and names are sequences   *)
(* of tokens: the marks of a URL's syntax, the utm keys in two spellings,  *)
(* and words.                                                              *)
(***************************************************************************)
EXTENDS Integers, Sequences, SequencesExt

CONSTANTS
  Words,        (* tokens that are neither marks nor utm keys                *)
  MaxTokens,    (* bound on the tokens of a target after its page            *)
  MasterNames,  (* names of masters                                          *)
  NoName        (* no master                                                 *)

VARIABLES
  link,      (* the target the visitor is to arrive at                       *)
  location,  (* where the trackers passed so far send the visitor            *)
  names      (* the names of the masters of the last of them, or NoName      *)

UtmKeys == <<"utm_campaign", "utm_source", "utm_medium">>

IsUtm(key) ==
  key \in {<<k>> : k \in Range(UtmKeys)} \cup {<<"UTM_CAMPAIGN">>, <<"UTM_SOURCE">>, <<"UTM_MEDIUM">>}

Percent == [x \in {"#", "?", "&", "="} |->
  CASE x = "#" -> "%23" [] x = "?" -> "%3F" [] x = "&" -> "%26" [] x = "=" -> "%3D"]

(* percent_encode_query_value encodes the percent sign too: no word that    *)
(* goes into a name reads as a code.                                        *)
ASSUME RedirectAssumption ==
  /\ MaxTokens \in Nat
  /\ Words \cap Range(Percent) = {}
  /\ MasterNames \subseteq Seq(Words \cup DOMAIN Percent)
  /\ NoName \notin MasterNames

(* Mutant of Encoded: the names of masters are taken for plain words.          *)
EncodedAsIs(name) == name

(* percent_encode_query_value.                                              *)
Encoded(name) ==
  [i \in DOMAIN name |-> IF name[i] \in DOMAIN Percent THEN Percent[name[i]] ELSE name[i]]

(* split_once.                                                              *)
Before(s, mark) ==
  IF Contains(s, mark) THEN SubSeq(s, 1, SelectInSeq(s, LAMBDA x : x = mark) - 1) ELSE s
After(s, mark) == SubSeq(s, Len(Before(s, mark)) + 2, Len(s))

Base(url) == Before(Before(url, "#"), "?")

(* The mark and what follows it.                                            *)
Fragment(url) == SubSeq(url, Len(Before(url, "#")) + 1, Len(url))

(* split_once of a parameter.                                               *)
Pair(p) == [key |-> Before(p, "="), value |-> After(p, "=")]

(* split('&'): a parameter begins where the query does and after every &,   *)
(* and goes on to the next one; empty parameters do not count.              *)
Split(query) ==
  FlattenSeq([i \in DOMAIN query |->
    IF (i = 1 \/ query[i - 1] = "&") /\ query[i] # "&"
    THEN <<Pair(Before(SubSeq(query, i, Len(query)), "&"))>> ELSE <<>>])

Params(url) == Split(After(Before(url, "#"), "?"))

Others(params) ==
  FlattenSeq([i \in DOMAIN params |-> IF IsUtm(params[i].key) THEN <<>> ELSE <<params[i]>>])

Kept(url) == Others(Params(url))

(* One parameter per master the tracker has.                                *)
Added(masters) ==
  FlattenSeq([i \in DOMAIN UtmKeys |->
    IF masters[UtmKeys[i]] = NoName THEN <<>>
    ELSE <<[key |-> <<UtmKeys[i]>>, value |-> masters[UtmKeys[i]]]>>])

Text(p) == p.key \o <<"=">> \o p.value

Query(params) ==
  FlattenSeq([i \in DOMAIN params |-> <<IF i = 1 THEN "?" ELSE "&">> \o Text(params[i])])

inject_utm_params(url, masters) ==
  LET added == Added(masters)
      coded == [i \in DOMAIN added |-> [added[i] EXCEPT !.value = Encoded(@)]]
  IN Base(url) \o Query(Kept(url) \o coded) \o Fragment(url)

-----------------------------------------------------------------------------
Urls ==
  {page \o tail :
     page \in {<<"https://host">>, <<"https://host", "?">>},
     tail \in BoundedSeq(Words \cup DOMAIN Percent \cup {"utm_source", "UTM_SOURCE"}, MaxTokens)}

Attributions == [Range(UtmKeys) -> MasterNames \cup {NoName}]

AtTarget(url) ==
  /\ link = url
  /\ location = url
  /\ names = NoName

(* The visitor passes a tracker of the address he has.                      *)
Redirect ==
  /\ names' \in Attributions
  /\ location' = inject_utm_params(location, names')
  /\ UNCHANGED link

redirectVars == <<link, location, names>>

RedirectInit == \E url \in Urls : AtTarget(url)

RedirectSpec == RedirectInit /\ [][Redirect]_redirectVars

-----------------------------------------------------------------------------
(* What a percent-encoded value says.                                       *)
Decoded(value) ==
  [i \in DOMAIN value |->
     IF value[i] \in Range(Percent)
     THEN CHOOSE x \in DOMAIN Percent : Percent[x] = value[i] ELSE value[i]]

Plain(params) == [i \in DOMAIN params |-> [params[i] EXCEPT !.value = Decoded(@)]]

(* "Existing utm_* params on the target are REPLACED; everything else is    *)
(* preserved": whoever reads the address finds the target's page, its       *)
(* fragment and its other parameters in their order, then the names of the  *)
(* masters of the last tracker and of no other, whatever marks are in them. *)
TargetsAreKept ==
  names # NoName =>
    /\ Base(location) = Base(link) /\ Fragment(location) = Fragment(link)
    /\ Plain(Params(location)) = Plain(Kept(link)) \o Added(names)
=============================================================================
