------------------------------- MODULE Scope -------------------------------
(***************************************************************************)
(* What a sweep of one mode is about: the networks, the providers that work  *)
(* at this hour, the tokens and the amounts (services/level1/scope.py with   *)
(* the registries behind it).  The modes are tasks of their own; the scopes  *)
(* of a sweep are built when it begins and stay while the hours pass.        *)
(*                                                                         *)
(* Hours are counted from midnight in the time zone of the windows.  Whether *)
(* the operator allows scanning is in Application.                           *)
(***************************************************************************)
EXTENDS Integers, Sequences, FiniteSets, SequencesExt

CONSTANTS
  Day,             \* hours of a day
  Configurations   \* configurations that the loader is given

VARIABLES
  config,
  now,      \* the hour of the day
  scopes,   \* mode -> scopes of the sweep under way
  begun     \* history: mode -> hour its sweep began, or was found needless

vars == <<config, now, scopes, begun>>

Modes == {"ur", "fest", "ann"}
Absent == -1

(***************************************************************************)
(* The configuration                                                        *)
(***************************************************************************)
(* ProviderConfig: who is enabled takes part in something, and its hours are *)
(* not empty.                                                                *)
Always == [from |-> Absent, to |-> Absent]
ValidProvider(p) ==
  /\ p.enabled => p.modes # {} /\ p.networks # {}
  /\ p.window = Always \/ p.window.from # p.window.to

(* ScanModesConfig, ScannerConfig *)
ValidModes(c) == c.amounts # {} /\ \E m \in Modes : c.modes[m].enabled
ModeEnabled(m) == config.modes[m].enabled

(* RoutePolicyConfig: a pair of one provider needs the consent to it. *)
ValidRoutes(c) == c.routes.same \/ \A pair \in c.routes.pairs : pair[1] # pair[2]
IsAllowed(buy, sell) ==
  /\ buy # sell \/ config.routes.same
  /\ config.routes.pairs = {} \/ <<buy, sell>> \in config.routes.pairs

Valid(c) ==
  /\ \A p \in DOMAIN c.providers : ValidProvider(c.providers[p])
  /\ ValidModes(c) /\ ValidRoutes(c)

(***************************************************************************)
(* Registries                                                               *)
(***************************************************************************)
(* DailyWindow.contains; before it, a defect: midnight is forgotten.         *)
CoversToday(w, hour) == w.from <= hour /\ hour < w.to
Covers(w, hour) ==
  IF w.from > w.to THEN hour >= w.from \/ hour < w.to ELSE w.from <= hour /\ hour < w.to

IsActive(p) ==
  LET provider == config.providers[p]
  IN provider.enabled /\ (provider.window = Always \/ Covers(provider.window, now))

ParticipatesIn(p, m) == m \in config.providers[p].modes
DeclaresNetwork(p, n) == n \in config.providers[p].networks

(* The key of TokenRegistry.scan_tokens: those with a rank, by their rank,   *)
(* then by symbol; a token is its symbol.  The registry is what c says.      *)
Ahead(c, t, u) ==
  LET rt == c.tokens[t].rank
      ru == c.tokens[u].rank
  IN \/ rt # Absent /\ ru = Absent
     \/ rt # Absent /\ ru # Absent /\ rt < ru
     \/ rt = ru /\ t < u

ScanTokens(c, n) ==
  LET listed == {t \in DOMAIN c.tokens :
                   c.tokens[t].enabled /\ c.tokens[t].network = n /\ t # c.base[n]}
      sorted == SetToSortSeq(listed, LAMBDA t, u : Ahead(c, t, u))
  IN SubSeq(sorted, 1, IF Len(sorted) < c.top THEN Len(sorted) ELSE c.top)

(***************************************************************************)
(* ScopeBuilder                                                             *)
(***************************************************************************)
ActiveProviders(n) ==
  {p \in DOMAIN config.providers : IsActive(p) /\ DeclaresNetwork(p, n)}

(* Without a declaration of its own a mode takes all enabled networks. *)
ScanNetworks(m) ==
  IF config.modes[m].everywhere THEN config.networks
  ELSE config.networks \cap config.modes[m].networks

ModeTokens(c, n, m) ==
  IF m \in {"fest", "ann"}
  THEN SelectSeq(ScanTokens(c, n), LAMBDA t : c.tokens[t].stable)
  ELSE ScanTokens(c, n)

(* The amounts of a mode, by default the common ones. *)
AmountsFor(m) == IF config.modes[m].amounts = {} THEN config.amounts ELSE config.modes[m].amounts
Level1Amount == CHOOSE a \in config.amounts : \A b \in config.amounts : a <= b

(* The search is for one amount; the mode that trades searches for each.     *)
RawAmounts(m) == IF m = "ann" THEN AmountsFor(m) ELSE {Level1Amount}

(* _allowed_pairs and provider_pairs *)
Pairs(providers) == {pair \in providers \X providers : IsAllowed(pair[1], pair[2])}

Build(n, m) ==
  LET providers == {p \in ActiveProviders(n) : ParticipatesIn(p, m)}
  IN [network |-> n, providers |-> providers, pairs |-> Pairs(providers),
      tokens |-> ModeTokens(config, n, m), amounts |-> RawAmounts(m)]

Scopes(m) ==
  {s \in {Build(n, m) : n \in ScanNetworks(m)} : s.providers # {} /\ s.tokens # <<>>}

(* Somebody works on one of the networks, for whichever mode.                *)
HasActiveProviders == \E n \in config.networks : ActiveProviders(n) # {}

(***************************************************************************)
(* The tasks of the modes                                                   *)
(***************************************************************************)
Init ==
  /\ config \in {c \in Configurations : Valid(c)}
  /\ now \in 0..(Day - 1)
  /\ scopes = [m \in Modes |-> {}]
  /\ begun = [m \in Modes |-> Absent]

(* _scan_task up to the scans.  Without scopes the run is over at once. *)
Begin(m) ==
  /\ ModeEnabled(m) /\ scopes[m] = {}
  /\ scopes' = [scopes EXCEPT ![m] = IF HasActiveProviders THEN Scopes(m) ELSE {}]
  /\ begun' = [begun EXCEPT ![m] = now]
  /\ UNCHANGED <<config, now>>

(* The scans of all networks have ended. *)
End(m) ==
  /\ scopes[m] # {}
  /\ scopes' = [scopes EXCEPT ![m] = {}]
  /\ begun' = [begun EXCEPT ![m] = Absent]
  /\ UNCHANGED <<config, now>>

Tick ==
  /\ now' = (now + 1) % Day
  /\ begun' = [m \in Modes |-> IF scopes[m] = {} THEN Absent ELSE begun[m]]
  /\ UNCHANGED <<config, scopes>>

Next == (\E m \in Modes : Begin(m) \/ End(m)) \/ Tick

Spec == Init /\ [][Next]_vars

(***************************************************************************)
(* Properties                                                               *)
(***************************************************************************)
(* The hours of a provider last from one hour of the clock to the other, on  *)
(* whichever side of midnight that is.                                       *)
InHours(p, hour) ==
  LET w == config.providers[p].window
  IN w = Always \/ (hour - w.from) % Day < (w.to - w.from) % Day

(* A sweep asks exactly those enabled providers of a network and mode that   *)
(* are inside their hours when it begins, for each network of the mode that  *)
(* has tokens for it: none is asked too much and none is forgotten when the  *)
(* hours pass midnight, whatever the other networks and modes have           *)
(* (DailyWindow.contains, ScopeBuilder.build, has_active_providers).         *)
HoursAreKept ==
  \A m \in Modes : begun[m] # Absent =>
    \A n \in ScanNetworks(m) :
      LET working == {p \in DOMAIN config.providers :
                        /\ config.providers[p].enabled /\ InHours(p, begun[m])
                        /\ DeclaresNetwork(p, n) /\ ParticipatesIn(p, m)}
      IN IF working = {} \/ ModeTokens(config, n, m) = <<>>
         THEN \A s \in scopes[m] : s.network # n
         ELSE \E s \in scopes[m] : s.network = n /\ s.providers = working

(***************************************************************************)
(* What comments say and the code does not do                               *)
(***************************************************************************)
(* "Outside its window a provider is not asked at all" (active_providers): a *)
(* sweep that began inside it goes on asking when it is over.                *)
NobodyOutsideHours ==
  \A m \in Modes : \A s \in scopes[m] : \A p \in s.providers : InHours(p, now)

(* "A new stable token gets into the frequent sweep as soon as it is marked" *)
(* (mode_tokens): the list was cut to the best ranks before the mark counts. *)
MarkedIsScanned ==
  \A s \in scopes["fest"] : \A t \in DOMAIN config.tokens :
    config.tokens[t].enabled /\ config.tokens[t].network = s.network
    /\ config.tokens[t].stable /\ t # config.base[s.network]
      => \E i \in DOMAIN s.tokens : s.tokens[i] = t
=============================================================================
