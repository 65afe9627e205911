--------------------------- MODULE PipelineProofs ---------------------------
(***************************************************************************)
(* What no rule can get wrong, whatever the events and the eligibility:    *)
(* the severity of a finding never outruns its proof, and what the rules   *)
(* find in a function is a list of such findings.  What holds of every     *)
(* answer of the helper: that the steps from it to the report pass on      *)
(* lists of what the next one needs, that no finding claims more than its  *)
(* proof, and that the report has all findings in order and is the same    *)
(* when it is read back.                                                   *)
(***************************************************************************)
EXTENDS Pipeline, ListingProofs

----------------------------------------------------------------------------
(* What the rules find.                                                    *)

\* Every finding any rule emits is earned: high severity comes with reproduction steps
\* and a fully modelled function, and only then (rules/emit.py, rules/force_unwrap.py).
THEOREM EmitIsEarned ==
  ASSUME NEW rule \in {"unwrap", "try", "cast", "bounds", "taint", "dead"},
         NEW sym, NEW e
  PROVE  Earned(Emit(rule, sym, e))
<1> DEFINE high == High(rule, sym, e)
           f == [rule |-> rule, place |-> e.place, symbol |-> sym.id,
                 state |-> sym.state, unsupported |-> sym.unsupported, proof |-> Proof(high),
                 severity |-> IF high THEN "high" ELSE "medium",
                 confidence |-> Confidence(rule, high)]
<1>1. high => sym.state = "cfg-ready" /\ sym.unsupported = 0
  BY DEF High, AllowHigh
<1>2. CASE high
  <2> DEFINE g == [f EXCEPT !.confidence = Lowered(@)]
  <2>0. /\ f.severity = "high" /\ f.proof = [tier |-> 2, supported |-> TRUE]
        /\ f.state = "cfg-ready" /\ f.unsupported = 0
        /\ g.severity = "high" /\ g.proof = f.proof /\ g.state = f.state
        /\ g.unsupported = f.unsupported
    BY <1>1, <1>2 DEF Proof
  <2>2. Covered(rule, f, sym) \in {f, g}
    BY <1>1, <1>2 DEF Covered, ApplyCoverage
  <2>3. Emit(rule, sym, e) = EnforceProofTier(Covered(rule, f, sym))
    BY DEF Emit
  <2> HIDE DEF f, g
  <2>1. /\ Covered(rule, f, sym).severity = "high"
        /\ Covered(rule, f, sym).proof = [tier |-> 2, supported |-> TRUE]
        /\ Covered(rule, f, sym).state = "cfg-ready"
        /\ Covered(rule, f, sym).unsupported = 0
    BY <2>0, <2>2
  <2>4. EnforceProofTier(Covered(rule, f, sym)) = Covered(rule, f, sym)
    BY <2>1 DEF EnforceProofTier
  <2> QED BY <2>1, <2>3, <2>4 DEF Earned
<1>3. CASE ~high
  <2>1. /\ Covered(rule, f, sym).severity = "medium"
        /\ Covered(rule, f, sym).proof = [tier |-> 3, supported |-> TRUE]
        /\ Covered(rule, f, sym).state = sym.state
        /\ Covered(rule, f, sym).confidence # "high"
        /\ sym.state = "partially-analyzed" => Covered(rule, f, sym).confidence = "low"
    BY <1>3 DEF Covered, ApplyCoverage, Proof, Lowered, Confidence
  <2> QED BY <2>1 DEF Emit, EnforceProofTier, Earned
<1> QED BY <1>2, <1>3

RuleNames == {"unwrap", "try", "cast", "bounds", "taint", "dead"}

\* The six rules, by name.
LEMMA RulesAreNamed ==
  /\ IsList(Rules) /\ DOMAIN Rules = 1 .. 6
  /\ \A i \in 1 .. 6 : Rules[i] \in RuleNames
<1>1. Rules = [i \in 1 .. 6 |-> Rules[i]]
  BY DEF Rules
<1>2. IsList(Rules) /\ DOMAIN Rules = 1 .. 6
  BY <1>1, ListIntro
<1> QED BY <1>2 DEF Rules, RuleNames

\* Every rule has a place in the alphabetical order of the rules.
LEMMA RankType ==
  ASSUME NEW rule \in RuleNames
  PROVE  Rank(rule) \in 1 .. 6
<1>1. \E i \in 1 .. 6 : <<"bounds", "dead", "unwrap", "cast", "taint", "try">>[i] = rule
  <2> DEFINE names == <<"bounds", "dead", "unwrap", "cast", "taint", "try">>
  <2>1. /\ names[1] = "bounds" /\ names[2] = "dead" /\ names[3] = "unwrap"
        /\ names[4] = "cast" /\ names[5] = "taint" /\ names[6] = "try"
    OBVIOUS
  <2> HIDE DEF names
  <2>2. \E i \in 1 .. 6 : names[i] = rule
    BY <2>1 DEF RuleNames
  <2> QED BY <2>2 DEF names
<1> QED BY <1>1 DEF Rank

\* What the rules need of what a walk saw: places, one for each site, and no path on which
\* another callee may throw or another sink is dangerous.
IsSeen(rule, evs) ==
  /\ IsList(evs)
  /\ \A i \in DOMAIN evs : evs[i].place \in Int
  /\ \A i, j \in DOMAIN evs :
       evs[i].site = evs[j].site => /\ evs[i].place = evs[j].place
                                    /\ rule \in {"try", "taint"} => evs[i].what = evs[j].what

IsFunction(s) ==
  /\ s = [id |-> s.id, state |-> s.state, unsupported |-> s.unsupported,
          warnings |-> s.warnings, body |-> s.body, events |-> s.events]
  /\ DOMAIN s.events = RuleNames
  /\ \A rule \in RuleNames : IsSeen(rule, s.events[rule])

IsFinding(f) ==
  /\ Earned(f)
  /\ f.rule \in RuleNames
  /\ f.place \in Int
  /\ f.severity \in {"high", "medium", "low"}
  /\ f.confidence \in {"high", "medium", "low"}

\* What a rule emits for an event with a place is a finding, named by the rule, the place
\* and the function.
LEMMA EmitIsFinding ==
  ASSUME NEW rule \in RuleNames, NEW sym, NEW e, e.place \in Int
  PROVE  LET f == Emit(rule, sym, e)
         IN  /\ IsFinding(f) /\ f.rule = rule /\ f.place = e.place
             /\ f.symbol = sym.id /\ f.unsupported = sym.unsupported
<1> DEFINE high == High(rule, sym, e)
           f == [rule |-> rule, place |-> e.place, symbol |-> sym.id,
                 state |-> sym.state, unsupported |-> sym.unsupported, proof |-> Proof(high),
                 severity |-> IF high THEN "high" ELSE "medium",
                 confidence |-> Confidence(rule, high)]
           g == Covered(rule, f, sym)
           Sound(h) == /\ h.rule = rule /\ h.place = e.place
                       /\ h.symbol = sym.id /\ h.unsupported = sym.unsupported
                       /\ h.severity \in {"high", "medium", "low"}
                       /\ h.confidence \in {"high", "medium", "low"}
<1>1. Emit(rule, sym, e) = EnforceProofTier(g)
  BY DEF Emit
<1>2. Sound(f)
  BY DEF Confidence
<1>3. Sound(g)
  BY DEF Covered, ApplyCoverage, Lowered, Confidence
<1>4. Sound(EnforceProofTier(g))
  BY DEF EnforceProofTier, Covered, ApplyCoverage, Lowered, Confidence
<1>5. Earned(Emit(rule, sym, e))
  BY EmitIsEarned DEF RuleNames
<1> HIDE DEF f, g
<1> QED BY <1>1, <1>4, <1>5 DEF IsFinding

----------------------------------------------------------------------------
(* Sites.                                                                  *)

\* A set of indices that has one has a least one.
LEMMA LeastIndex ==
  ASSUME NEW evs, IsList(evs), NEW S \in SUBSET DOMAIN evs, S # {}
  PROVE  \E m \in S : \A x \in S : m <= x
<1>1. DOMAIN evs \subseteq Int /\ IsFiniteSet(DOMAIN evs)
  BY ListDomain, ListFinite
<1>2. IsFiniteSet(S) /\ S \subseteq Int
  BY <1>1, FS_Subset
<1> QED BY <1>2, LeastExists

\* A site at which some path sees a risk has an event that is quoted.
LEMMA RiskIsQuoted ==
  ASSUME NEW rule, NEW evs, IsSeen(rule, evs), NEW i \in DOMAIN evs, Risky(rule, evs[i])
  PROVE  \E j \in Quoted(rule, evs) : evs[j].site = evs[i].site
<1> DEFINE S == {k \in DOMAIN evs : evs[k].site = evs[i].site}
           T == {k \in S : Risky(rule, evs[k])}
<1>1. IsList(evs) /\ DOMAIN evs \subseteq Int
  BY ListDomain DEF IsSeen
<1>2. CASE rule = "try"
  <2>1. PICK j \in S : \A k \in S : j <= k
    BY <1>1, LeastIndex
  <2>2. evs[j].what = evs[i].what
    BY <1>2 DEF IsSeen
  <2>3. Risky(rule, evs[j])
    BY <1>2, <2>2 DEF Risky
  <2>4. \A k \in DOMAIN evs : ~Met(evs, k, j)
    BY <1>1, <2>1 DEF Met
  <2> QED BY <2>3, <2>4 DEF Quoted
<1>3. CASE rule # "try"
  <2>1. PICK j \in T : \A k \in T : j <= k
    BY <1>1, LeastIndex
  <2>2. \A k \in DOMAIN evs : Met(evs, k, j) => ~Risky(rule, evs[k])
    BY <1>1, <2>1 DEF Met
  <2> QED BY <1>3, <2>1, <2>2 DEF Quoted
<1> QED BY <1>2, <1>3

\* Of each risky site one event is quoted.
LEMMA QuotedCounts ==
  ASSUME NEW rule, NEW evs, IsSeen(rule, evs)
  PROVE  Cardinality(Quoted(rule, evs))
           = Cardinality({e.site : e \in {x \in Range(evs) : Risky(rule, x)}})
<1> DEFINE Q == Quoted(rule, evs)
           R == {e.site : e \in {x \in Range(evs) : Risky(rule, x)}}
           f == [j \in Q |-> evs[j].site]
<1>1. IsList(evs) /\ DOMAIN evs \subseteq Int
  BY ListDomain DEF IsSeen
<1>2. Q \in SUBSET DOMAIN evs /\ \A j \in Q : Risky(rule, evs[j])
  BY DEF Quoted
<1>3. IsFiniteSet(Q)
  BY <1>1, <1>2, ListFinite, FS_Subset
<1>4. \A j \in Q : f[j] = evs[j].site /\ evs[j].site \in R
  BY <1>2 DEF Range
<1>5. ASSUME NEW r \in R PROVE \E j \in Q : f[j] = r
  <2>1. PICK i \in DOMAIN evs : Risky(rule, evs[i]) /\ r = evs[i].site
    BY DEF Range
  <2> QED BY <2>1, RiskIsQuoted
<1>6. ASSUME NEW j \in Q, NEW k \in Q, f[j] = f[k] PROVE j = k
  <2>1. evs[j].site = evs[k].site
    BY <1>6
  <2>2. ~(j < k)
    BY <1>2, <2>1 DEF Quoted, Met
  <2>3. ~(k < j)
    BY <1>2, <2>1 DEF Quoted, Met
  <2> QED BY <1>1, <1>2, <2>2, <2>3
<1>7. f \in [Q -> R]
  BY <1>4
<1> HIDE DEF Q, R, f
<1>8. f \in Bijection(Q, R)
  BY <1>5, <1>6, <1>7 DEF Bijection, Injection, Surjection, IsInjective
<1>9. ExistsBijection(Q, R)
  BY <1>8 DEF ExistsBijection
<1>10. Cardinality(Q) = Cardinality(R)
  BY <1>3, <1>9, FS_Bijection
<1> QED BY <1>10 DEF Q, R

----------------------------------------------------------------------------
(* Functions.                                                              *)

\* The events of sym that findings of a rule quote.
QuotedOf(rule, sym) == IF Looks(rule, sym) THEN Quoted(rule, sym.events[rule]) ELSE {}

\* What a rule reports on a function is a list of findings, one for each event it quotes.
LEMMA EvaluateFinds ==
  ASSUME NEW rule \in RuleNames, NEW sym, IsFunction(sym)
  PROVE  LET found == Evaluate(rule, sym)
             evs == sym.events[rule]
         IN  /\ IsList(found) /\ Len(found) = Cardinality(QuotedOf(rule, sym))
             /\ \A n \in DOMAIN found : IsFinding(found[n])
             /\ \A n \in DOMAIN found : \E j \in QuotedOf(rule, sym) : found[n] = Emit(rule, sym, evs[j])
             /\ \A j \in QuotedOf(rule, sym) : \E n \in DOMAIN found : found[n] = Emit(rule, sym, evs[j])
<1> DEFINE evs == sym.events[rule]
           quoted == QuotedOf(rule, sym)
           key == [j \in quoted |-> <<FirstOf(evs, j), j, 0>>]
           L == Listing(quoted, key)
           N == Cardinality(quoted)
<1>1. IsList(evs) /\ \A i \in DOMAIN evs : evs[i].place \in Int
  BY DEF IsFunction, IsSeen
<1>2. DOMAIN evs \subseteq Int /\ IsFiniteSet(DOMAIN evs)
  BY <1>1, ListDomain, ListFinite
<1>3. quoted \in SUBSET DOMAIN evs
  BY DEF QuotedOf, Quoted
<1>4. IsFiniteSet(quoted)
  BY <1>2, <1>3, FS_Subset
<1>5. ASSUME NEW j \in DOMAIN evs PROVE FirstOf(evs, j) \in Int
  <2> DEFINE S == {i \in DOMAIN evs : evs[i].site = evs[j].site}
  <2>1. S \in SUBSET DOMAIN evs /\ j \in S
    OBVIOUS
  <2>2. \E m \in S : \A x \in S : m <= x
    BY <1>1, <2>1, LeastIndex
  <2>3. Min(S) \in S
    BY <2>2 DEF Min
  <2> QED BY <1>2, <2>1, <2>3 DEF FirstOf
<1>6. \A j \in quoted : key[j] = <<FirstOf(evs, j), j, 0>> /\ key[j] \in Key
  BY <1>2, <1>3, <1>5 DEF Key
<1>7. Keyed(quoted, key)
  <2>1. key \in [quoted -> Key]
    BY <1>6
  <2>2. \A p, q \in quoted : key[p] = key[q] => p = q
    BY <1>6
  <2> QED BY <1>4, <2>1, <2>2 DEF Keyed
<1>8. Evaluate(rule, sym) = [n \in 1 .. N |-> Emit(rule, sym, evs[L[n]])]
  BY DEF Evaluate, QuotedOf
<1> HIDE DEF quoted, key
<1>9. /\ N \in Nat /\ L \in [1 .. N -> quoted]
      /\ \A j \in quoted : \E n \in 1 .. N : L[n] = j
  BY <1>7, ListingLists
<1> HIDE DEF L
<1>10. IsList(Evaluate(rule, sym)) /\ Len(Evaluate(rule, sym)) = N /\ DOMAIN Evaluate(rule, sym) = 1 .. N
  BY <1>8, <1>9, ListIntro
<1>11. ASSUME NEW n \in 1 .. N
       PROVE  /\ IsFinding(Evaluate(rule, sym)[n])
              /\ \E j \in quoted : Evaluate(rule, sym)[n] = Emit(rule, sym, evs[j])
  <2>1. L[n] \in DOMAIN evs /\ L[n] \in quoted
    BY <1>3, <1>9
  <2>2. IsFinding(Emit(rule, sym, evs[L[n]]))
    BY <1>1, <2>1, EmitIsFinding
  <2> QED BY <1>8, <2>1, <2>2
<1>12. ASSUME NEW j \in quoted PROVE \E n \in 1 .. N : Evaluate(rule, sym)[n] = Emit(rule, sym, evs[j])
  <2>1. PICK n \in 1 .. N : L[n] = j
    BY <1>9
  <2> QED BY <1>8, <2>1
<1> QED BY <1>10, <1>11, <1>12 DEF quoted

\* What the rules report on a function, rule after rule.
RuleByRule(sym) == [i \in DOMAIN Rules |-> Evaluate(Rules[i], sym)]

LEMMA RuleByRuleFinds ==
  ASSUME NEW sym, IsFunction(sym)
  PROVE  /\ IsList(RuleByRule(sym)) /\ DOMAIN RuleByRule(sym) = 1 .. 6
         /\ AllRules(sym) = Concatenated(RuleByRule(sym))
         /\ \A i \in 1 .. 6 : /\ RuleByRule(sym)[i] = Evaluate(Rules[i], sym)
                              /\ IsList(RuleByRule(sym)[i])
                              /\ \A n \in DOMAIN RuleByRule(sym)[i] :
                                   /\ IsFinding(RuleByRule(sym)[i][n])
                                   /\ RuleByRule(sym)[i][n].rule = Rules[i]
                                   /\ RuleByRule(sym)[i][n].symbol = sym.id
                                   /\ RuleByRule(sym)[i][n].unsupported = sym.unsupported
<1> DEFINE ss == RuleByRule(sym)
<1>1. IsList(ss) /\ DOMAIN ss = 1 .. 6 /\ \A i \in 1 .. 6 : ss[i] = Evaluate(Rules[i], sym)
  BY RulesAreNamed, ListIntro DEF RuleByRule
<1>2. AllRules(sym) = Concatenated(ss)
  BY DEF AllRules, RuleByRule
<1> HIDE DEF ss
<1>3. ASSUME NEW i \in 1 .. 6
      PROVE  /\ IsList(ss[i])
             /\ \A n \in DOMAIN ss[i] : /\ IsFinding(ss[i][n]) /\ ss[i][n].rule = Rules[i]
                                       /\ ss[i][n].symbol = sym.id
                                       /\ ss[i][n].unsupported = sym.unsupported
  <2> DEFINE evs == sym.events[Rules[i]]
  <2>1. Rules[i] \in RuleNames
    BY RulesAreNamed
  <2>2. /\ IsList(Evaluate(Rules[i], sym))
        /\ \A n \in DOMAIN Evaluate(Rules[i], sym) : IsFinding(Evaluate(Rules[i], sym)[n])
        /\ \A n \in DOMAIN Evaluate(Rules[i], sym) :
             \E j \in QuotedOf(Rules[i], sym) : Evaluate(Rules[i], sym)[n] = Emit(Rules[i], sym, evs[j])
    BY <2>1, EvaluateFinds
  <2>3. \A j \in QuotedOf(Rules[i], sym) : evs[j].place \in Int
    BY <2>1 DEF QuotedOf, Quoted, IsFunction, IsSeen
  <2>4. \A j \in QuotedOf(Rules[i], sym) :
          /\ Emit(Rules[i], sym, evs[j]).rule = Rules[i] /\ Emit(Rules[i], sym, evs[j]).symbol = sym.id
          /\ Emit(Rules[i], sym, evs[j]).unsupported = sym.unsupported
    BY <2>1, <2>3, EmitIsFinding
  <2> QED BY <1>1, <2>2, <2>4
<1> QED BY <1>1, <1>2, <1>3 DEF ss

\* Whatever a walk saw of a function, the rules find a list of earned findings in it.
THEOREM AllRulesFind ==
  ASSUME NEW sym, IsFunction(sym)
  PROVE  /\ IsList(AllRules(sym))
         /\ \A n \in DOMAIN AllRules(sym) : /\ IsFinding(AllRules(sym)[n])
                                           /\ AllRules(sym)[n].symbol = sym.id
                                           /\ AllRules(sym)[n].unsupported = sym.unsupported
<1> DEFINE ss == RuleByRule(sym)
<1>1. /\ IsList(ss) /\ DOMAIN ss = 1 .. 6 /\ AllRules(sym) = Concatenated(ss)
      /\ \A i \in 1 .. 6 : /\ IsList(ss[i])
                           /\ \A n \in DOMAIN ss[i] : /\ IsFinding(ss[i][n]) /\ ss[i][n].symbol = sym.id
                                                     /\ ss[i][n].unsupported = sym.unsupported
  BY RuleByRuleFinds
<1> HIDE DEF ss
<1>2. /\ IsList(Concatenated(ss))
      /\ \A n \in DOMAIN Concatenated(ss) :
           \E i \in DOMAIN ss : \E j \in DOMAIN ss[i] : Concatenated(ss)[n] = ss[i][j]
  BY <1>1, ConcatenatedHasAll
<1> QED BY <1>1, <1>2

\* Of a rule that looks at a function there are as many findings in it as risky sites.
THEOREM OnePerSite ==
  ASSUME NEW sym, IsFunction(sym), NEW rule \in RuleNames, Looks(rule, sym), NEW X,
         \A f \in Range(AllRules(sym)) : f \in X <=> f.rule = rule
  PROVE  CountIn(AllRules(sym), X)
           = Cardinality({e.site : e \in {x \in Range(sym.events[rule]) : Risky(rule, x)}})
<1> DEFINE ss == RuleByRule(sym)
<1>1. PICK i \in 1 .. 6 : Rules[i] = rule /\ \A k \in 1 .. 6 \ {i} : Rules[k] # rule
  <2> DEFINE r == Rules
  <2>1. /\ r[1] = "unwrap" /\ r[2] = "try" /\ r[3] = "cast"
        /\ r[4] = "bounds" /\ r[5] = "taint" /\ r[6] = "dead"
    BY DEF Rules
  <2> HIDE DEF r
  <2>2. \E i \in 1 .. 6 : r[i] = rule /\ \A k \in 1 .. 6 \ {i} : r[k] # rule
    BY <2>1 DEF RuleNames
  <2> QED BY <2>2 DEF r
<1>2. /\ IsList(ss) /\ DOMAIN ss = 1 .. 6 /\ AllRules(sym) = Concatenated(ss)
      /\ ss[i] = Evaluate(rule, sym)
      /\ \A k \in 1 .. 6 : IsList(ss[k]) /\ \A n \in DOMAIN ss[k] : ss[k][n].rule = Rules[k]
  BY <1>1, RuleByRuleFinds
<1> HIDE DEF ss
<1>3. ASSUME NEW k \in 1 .. 6, NEW n \in DOMAIN ss[k] PROVE ss[k][n] \in X <=> k = i
  <2>1. ss[k][n] \in Range(Concatenated(ss))
    BY <1>2, ConcatenatedHasAll DEF Range
  <2>2. ss[k][n] \in X <=> Rules[k] = rule
    BY <1>2, <2>1
  <2> QED BY <1>1, <2>2
<1>4. CountIn(Concatenated(ss), X) = CountIn(ss[i], X)
  BY <1>2, <1>3, CountInPart
<1>5. CountIn(ss[i], X) = Len(ss[i])
  <2>1. {n \in DOMAIN ss[i] : ss[i][n] \in X} = DOMAIN ss[i]
    BY <1>3
  <2> QED BY <1>2, <2>1, ListFinite DEF CountIn
<1>6. Len(ss[i]) = Cardinality(Quoted(rule, sym.events[rule]))
  BY <1>2, EvaluateFinds DEF QuotedOf
<1> QED BY <1>2, <1>4, <1>5, <1>6, QuotedCounts DEF IsFunction

----------------------------------------------------------------------------
(* The order of paths.                                                     *)

\* Two events of a place say the same if the rule cares as little which of them it quotes.
LEMMA SaysTheSame ==
  ASSUME NEW rule \in RuleNames, NEW sym, NEW twin, NEW d, NEW e, e.place \in Int,
         twin.id = sym.id, twin.state = sym.state, twin.unsupported = sym.unsupported,
         twin.warnings = sym.warnings,
         d.place = e.place, rule \in {"try", "taint"} => d.what = e.what
  PROVE  Verdict(Emit(rule, twin, d)) = Verdict(Emit(rule, sym, e))
<1>1. CASE rule = "bounds"
  BY <1>1, EmitIsFinding DEF Verdict
<1>2. CASE rule # "bounds"
  <2> DEFINE f == [rule |-> rule, place |-> e.place, symbol |-> sym.id,
                   state |-> sym.state, unsupported |-> sym.unsupported,
                   proof |-> Proof(High(rule, sym, e)),
                   severity |-> IF High(rule, sym, e) THEN "high" ELSE "medium",
                   confidence |-> Confidence(rule, High(rule, sym, e))]
  <2>1. High(rule, twin, d) = High(rule, sym, e)
    BY <1>2 DEF High, AllowHigh, RuleNames
  <2>2. Emit(rule, sym, e) = EnforceProofTier(Covered(rule, f, sym))
    BY DEF Emit
  <2>3. Emit(rule, twin, d) = EnforceProofTier(Covered(rule, f, twin))
    <3> HIDE DEF f
    <3>1. CASE High(rule, sym, e)
      BY <2>1, <3>1, Zenon DEF Emit, f
    <3>2. CASE ~High(rule, sym, e)
      BY <2>1, <3>2, Zenon DEF Emit, f
    <3> QED BY <3>1, <3>2
  <2> HIDE DEF f
  <2>4. Covered(rule, f, twin) = Covered(rule, f, sym)
    BY DEF Covered, ApplyCoverage
  <2> QED BY <2>2, <2>3, <2>4
<1> QED BY <1>1, <1>2

\* What a rule says of the sites at which some path sees a risk.
SaidOf(rule, sym) ==
  {Verdict(Emit(rule, sym, e)) : e \in {x \in Range(sym.events[rule]) : Looks(rule, sym) /\ Risky(rule, x)}}

\* A rule says of a site what it would say on any of the risky events, whichever it quotes.
LEMMA QuotingIsFair ==
  ASSUME NEW sym, IsFunction(sym), NEW rule \in RuleNames
  PROVE  {Verdict(f) : f \in Range(Evaluate(rule, sym))} = SaidOf(rule, sym)
<1> DEFINE evs == sym.events[rule]
           found == Evaluate(rule, sym)
<1>1. IsSeen(rule, evs)
  BY DEF IsFunction
<1>2. /\ \A n \in DOMAIN found : \E j \in QuotedOf(rule, sym) : found[n] = Emit(rule, sym, evs[j])
      /\ \A j \in QuotedOf(rule, sym) : \E n \in DOMAIN found : found[n] = Emit(rule, sym, evs[j])
  BY EvaluateFinds
<1> HIDE DEF found, evs
<1>3. ASSUME NEW n \in DOMAIN found PROVE Verdict(found[n]) \in SaidOf(rule, sym)
  <2>1. PICK j \in QuotedOf(rule, sym) : found[n] = Emit(rule, sym, evs[j])
    BY <1>2
  <2>2. j \in DOMAIN evs /\ Looks(rule, sym) /\ Risky(rule, evs[j])
    BY DEF QuotedOf, Quoted, evs
  <2> QED BY <2>1, <2>2 DEF SaidOf, Range, evs
<1>4. ASSUME NEW i \in DOMAIN evs, Looks(rule, sym), Risky(rule, evs[i])
      PROVE  \E n \in DOMAIN found : Verdict(found[n]) = Verdict(Emit(rule, sym, evs[i]))
  <2>1. PICK j \in Quoted(rule, evs) : evs[j].site = evs[i].site
    BY <1>1, <1>4, RiskIsQuoted
  <2>2. j \in QuotedOf(rule, sym) /\ j \in DOMAIN evs
    BY <1>4 DEF QuotedOf, Quoted, evs
  <2>3. PICK n \in DOMAIN found : found[n] = Emit(rule, sym, evs[j])
    BY <1>2, <2>2
  <2>4. /\ evs[j].place = evs[i].place /\ evs[i].place \in Int
        /\ rule \in {"try", "taint"} => evs[j].what = evs[i].what
    BY <1>1, <2>1, <2>2 DEF IsSeen
  <2>5. Verdict(Emit(rule, sym, evs[j])) = Verdict(Emit(rule, sym, evs[i]))
    BY <2>4, SaysTheSame
  <2> QED BY <2>3, <2>5
<1>5. \A v : v \in {Verdict(f) : f \in Range(found)} <=> v \in SaidOf(rule, sym)
  <2> SUFFICES ASSUME NEW v PROVE v \in {Verdict(f) : f \in Range(found)} <=> v \in SaidOf(rule, sym)
    OBVIOUS
  <2>1. ASSUME v \in {Verdict(f) : f \in Range(found)} PROVE v \in SaidOf(rule, sym)
    BY <1>3, <2>1 DEF Range
  <2>2. ASSUME v \in SaidOf(rule, sym) PROVE v \in {Verdict(f) : f \in Range(found)}
    <3>1. PICK i \in DOMAIN evs : Looks(rule, sym) /\ Risky(rule, evs[i]) /\ v = Verdict(Emit(rule, sym, evs[i]))
      BY <2>2 DEF SaidOf, Range, evs
    <3>2. PICK n \in DOMAIN found : Verdict(found[n]) = v
      BY <1>4, <3>1
    <3> QED BY <3>2 DEF Range
  <2> QED BY <2>1, <2>2
<1> QED BY <1>5 DEF found

\* All rules together say what each says.
LEMMA AllSay ==
  ASSUME NEW sym, IsFunction(sym)
  PROVE  {Verdict(f) : f \in Range(AllRules(sym))} = UNION {SaidOf(rule, sym) : rule \in RuleNames}
<1> DEFINE ss == RuleByRule(sym)
<1>1. /\ IsList(ss) /\ DOMAIN ss = 1 .. 6 /\ AllRules(sym) = Concatenated(ss)
      /\ \A i \in 1 .. 6 : ss[i] = Evaluate(Rules[i], sym) /\ IsList(ss[i])
  BY RuleByRuleFinds
<1>2. \A rule \in RuleNames : \E i \in 1 .. 6 : Rules[i] = rule
  <2> DEFINE r == Rules
  <2>1. /\ r[1] = "unwrap" /\ r[2] = "try" /\ r[3] = "cast"
        /\ r[4] = "bounds" /\ r[5] = "taint" /\ r[6] = "dead"
    BY DEF Rules
  <2> HIDE DEF r
  <2> QED BY <2>1 DEF RuleNames, r
<1> HIDE DEF ss
<1>3. /\ \A n \in DOMAIN Concatenated(ss) :
           \E i \in DOMAIN ss : \E j \in DOMAIN ss[i] : Concatenated(ss)[n] = ss[i][j]
      /\ \A i \in DOMAIN ss : \A j \in DOMAIN ss[i] :
           \E n \in DOMAIN Concatenated(ss) : Concatenated(ss)[n] = ss[i][j]
  BY <1>1, ConcatenatedHasAll
<1>4. \A f : f \in Range(AllRules(sym)) <=> \E rule \in RuleNames : f \in Range(Evaluate(rule, sym))
  BY <1>1, <1>2, <1>3, RulesAreNamed DEF Range
<1>5. \A rule \in RuleNames : {Verdict(f) : f \in Range(Evaluate(rule, sym))} = SaidOf(rule, sym)
  BY QuotingIsFair
<1> QED BY <1>4, <1>5

\* The reverse of a list has the same elements, at the other ends.
LEMMA ReversedList ==
  ASSUME NEW s, IsList(s)
  PROVE  /\ IsList(Reverse(s)) /\ DOMAIN Reverse(s) = DOMAIN s
         /\ \A i \in DOMAIN s : /\ (Len(s) - i) + 1 \in DOMAIN s
                               /\ Reverse(s)[i] = s[(Len(s) - i) + 1]
         /\ Range(Reverse(s)) = Range(s)
<1> DEFINE t == Reverse(s)
           n == Len(s)
<1>1. n \in Nat /\ DOMAIN s = 1 .. n
  BY ListDomain
<1>2. t = [i \in 1 .. n |-> s[(n - i) + 1]]
  BY DEF Reverse
<1> HIDE DEF t, n
<1>3. IsList(t) /\ DOMAIN t = 1 .. n
  BY <1>1, <1>2, ListIntro
<1>4. \A i \in 1 .. n : (n - i) + 1 \in 1 .. n /\ t[i] = s[(n - i) + 1]
  BY <1>1, <1>2
<1>5. \A i \in 1 .. n : t[(n - i) + 1] = s[i] /\ (n - i) + 1 \in 1 .. n
  BY <1>1, <1>4
<1>6. Range(t) = Range(s)
  BY <1>1, <1>3, <1>4, <1>5 DEF Range
<1> QED BY <1>1, <1>3, <1>4, <1>6 DEF t, n

\* Read backwards, a function is one with the same events, in which the rules see the same.
LEMMA BackwardsType ==
  ASSUME NEW sym, IsFunction(sym)
  PROVE  LET back == Backwards(sym)
         IN  /\ IsFunction(back)
             /\ back.id = sym.id /\ back.state = sym.state /\ back.unsupported = sym.unsupported
             /\ back.warnings = sym.warnings
             /\ \A rule \in RuleNames : Range(back.events[rule]) = Range(sym.events[rule])
<1> DEFINE back == Backwards(sym)
           events == [r \in DOMAIN sym.events |-> Reverse(sym.events[r])]
<1>1. back = [id |-> sym.id, state |-> sym.state, unsupported |-> sym.unsupported,
              warnings |-> sym.warnings, body |-> sym.body, events |-> events]
  BY DEF Backwards, IsFunction
<1>2. DOMAIN events = RuleNames /\ \A rule \in RuleNames : events[rule] = Reverse(sym.events[rule])
  BY DEF IsFunction
<1> HIDE DEF back, events
<1>3. ASSUME NEW rule \in RuleNames
      PROVE  IsSeen(rule, events[rule]) /\ Range(events[rule]) = Range(sym.events[rule])
  <2> DEFINE s == sym.events[rule]
             t == events[rule]
  <2>1. IsSeen(rule, s) /\ t = Reverse(s)
    BY <1>2 DEF IsFunction
  <2> HIDE DEF s, t
  <2>2. /\ IsList(t) /\ DOMAIN t = DOMAIN s /\ Range(t) = Range(s)
        /\ \A i \in DOMAIN t : \E j \in DOMAIN s : t[i] = s[j]
    BY <2>1, ReversedList DEF IsSeen
  <2>3. IsSeen(rule, t)
    <3>1. \A i \in DOMAIN t : t[i].place \in Int
      BY <2>1, <2>2 DEF IsSeen
    <3>2. ASSUME NEW i \in DOMAIN t, NEW j \in DOMAIN t, t[i].site = t[j].site
          PROVE  t[i].place = t[j].place /\ (rule \in {"try", "taint"} => t[i].what = t[j].what)
      <4>1. PICK k \in DOMAIN s, l \in DOMAIN s : t[i] = s[k] /\ t[j] = s[l]
        BY <2>2
      <4> QED BY <2>1, <3>2, <4>1 DEF IsSeen
    <3> QED BY <2>2, <3>1, <3>2 DEF IsSeen
  <2> QED BY <2>2, <2>3 DEF s, t
<1>4. IsFunction(back)
  BY <1>1, <1>2, <1>3 DEF IsFunction
<1> QED BY <1>1, <1>3, <1>4 DEF back

\* Had the walk met the events in the opposite order, the rules would say the same.
THEOREM PathOrderIsIdle ==
  ASSUME NEW sym, IsFunction(sym)
  PROVE  {Verdict(f) : f \in Range(AllRules(sym))} = {Verdict(f) : f \in Range(AllRules(Backwards(sym)))}
<1> DEFINE back == Backwards(sym)
<1>1. /\ IsFunction(back)
      /\ back.id = sym.id /\ back.state = sym.state /\ back.unsupported = sym.unsupported
      /\ back.warnings = sym.warnings
      /\ \A rule \in RuleNames : Range(back.events[rule]) = Range(sym.events[rule])
  BY BackwardsType
<1> HIDE DEF back
<1>2. ASSUME NEW rule \in RuleNames PROVE SaidOf(rule, back) = SaidOf(rule, sym)
  <2>1. Looks(rule, back) <=> Looks(rule, sym)
    BY <1>1 DEF Looks, AllowHigh
  <2>2. \A e \in Range(sym.events[rule]) : e.place \in Int
    BY DEF IsFunction, IsSeen, Range
  <2>3. \A e \in Range(sym.events[rule]) : Verdict(Emit(rule, back, e)) = Verdict(Emit(rule, sym, e))
    BY <1>1, <2>2, SaysTheSame
  <2> QED BY <1>1, <2>1, <2>3 DEF SaidOf
<1>3. \A v : (\E rule \in RuleNames : v \in SaidOf(rule, back)) <=> (\E rule \in RuleNames : v \in SaidOf(rule, sym))
  BY <1>2
<1>4. UNION {SaidOf(rule, back) : rule \in RuleNames} = UNION {SaidOf(rule, sym) : rule \in RuleNames}
  BY <1>3
<1> QED BY <1>1, <1>4, AllSay DEF back

----------------------------------------------------------------------------
(* The symbols.                                                            *)

SymbolKinds == TypeKinds \cup Callable \cup {"closure"}

IsSymbol(s) ==
  /\ s = [id |-> s.id, path |-> s.path, kind |-> s.kind, name |-> s.name,
          qname |-> s.qname, loc |-> s.loc, body |-> s.body, code |-> s.code,
          eligibility |-> s.eligibility]
  /\ s.path \in Int
  /\ s.kind \in SymbolKinds
  /\ IsCode(s.code)
  /\ s.eligibility.state \in States

IsSymbolList(ss) == IsList(ss) /\ \A i \in DOMAIN ss : IsSymbol(ss[i])

IsEntry(e) ==
  /\ e = [loc |-> e.loc, symbol |-> e.symbol, children |-> e.children]
  /\ IsLoc(e.loc)
  /\ IsSymbol(e.symbol)
  /\ IsSymbolList(e.children)

IsTop(top) == IsList(top) /\ \A i \in DOMAIN top : IsEntry(top[i])

----------------------------------------------------------------------------
(* The frontend.                                                           *)

\* Sorting by place keeps what is sorted.
LEMMA ByPlaceKeeps ==
  ASSUME NEW s, IsList(s), \A i \in DOMAIN s : IsLoc(s[i].loc)
  PROVE  /\ IsList(ByPlace(s)) /\ DOMAIN ByPlace(s) = DOMAIN s
         /\ \A i \in DOMAIN ByPlace(s) : \E j \in DOMAIN s : ByPlace(s)[i] = s[j]
         /\ Range(ByPlace(s)) = Range(s)
<1> DEFINE major == [i \in DOMAIN s |-> s[i].loc.line]
           minor == [i \in DOMAIN s |-> s[i].loc.col]
<1>1. major \in [DOMAIN s -> Int] /\ minor \in [DOMAIN s -> Int]
  BY DEF IsLoc
<1>2. ByPlace(s) = InOrder(s, major, minor)
  BY DEF ByPlace
<1> HIDE DEF major, minor
<1>3. /\ IsList(InOrder(s, major, minor))
      /\ DOMAIN InOrder(s, major, minor) = DOMAIN s
      /\ Range(InOrder(s, major, minor)) = Range(s)
  BY <1>1, InOrderPermutes
<1>4. \A i \in DOMAIN ByPlace(s) : ByPlace(s)[i] \in Range(s)
  BY <1>2, <1>3 DEF Range
<1> QED BY <1>2, <1>3, <1>4 DEF Range

\* A kind of the helper becomes one of those of a symbol.
LEMMA SymbolKindType ==
  ASSUME NEW raw
  PROVE  SymbolKind(raw) \in SymbolKinds
BY DEF SymbolKind, SymbolKinds, TypeKinds, Callable

\* A list of no elements, and one of a single element.
LEMMA ShortLists ==
  ASSUME NEW x
  PROVE  /\ IsList(<<>>) /\ DOMAIN <<>> = {}
         /\ IsList(<<x>>) /\ DOMAIN <<x>> = 1 .. 1 /\ <<x>>[1] = x
<1>1. <<>> = [i \in 1 .. 0 |-> <<>>[i]] /\ <<x>> = [i \in 1 .. 1 |-> <<x>>[i]]
  OBVIOUS
<1>2. IsList(<<>>) /\ DOMAIN <<>> = 1 .. 0
  BY <1>1, ListIntro
<1>3. IsList(<<x>>) /\ DOMAIN <<x>> = 1 .. 1
  BY <1>1, ListIntro
<1> QED BY <1>2, <1>3

\* What is built of a type is a symbol.
LEMMA TypeSymbolType ==
  ASSUME NEW path \in Int, NEW t
  PROVE  IsSymbol(TypeSymbol(path, t)) /\ TypeSymbol(path, t).loc = t.loc
<1>1. IsCode(NoCode)
  BY ShortLists DEF IsCode, NoCode
<1>2. SymbolKind(t.kind) \in SymbolKinds
  BY SymbolKindType
<1> QED BY <1>1, <1>2 DEF IsSymbol, TypeSymbol, Symbol, NotYet, States

\* What is built of a function is a symbol.
LEMMA FunctionSymbolType ==
  ASSUME NEW path \in Int, NEW f, IsCode(f.code), NEW prefix
  PROVE  IsSymbol(FunctionSymbol(path, f, prefix)) /\ FunctionSymbol(path, f, prefix).loc = f.loc
<1>1. SymbolKind(f.kind) \in SymbolKinds
  BY SymbolKindType
<1> QED BY <1>1 DEF IsSymbol, FunctionSymbol, Symbol, NotYet, States

\* The first of the narrowest locations is one of them, and none is narrower.
LEMMA NarrowestIs ==
  ASSUME NEW locs, NEW among, IsFiniteSet(among), among \subseteq Int, among # {},
         \A i \in among : Height(locs[i]) \in Int
  PROVE  /\ FirstNarrowest(locs, among) \in among
         /\ \A j \in among : Height(locs[FirstNarrowest(locs, among)]) <= Height(locs[j])
<1> DEFINE high == [i \in among |-> Height(locs[i])]
           S == Range(high)
<1>1. S # {} /\ S \subseteq Int /\ \A i \in among : high[i] = Height(locs[i]) /\ high[i] \in S
  BY DEF Range
<1>2. IsFiniteSet(S)
  <2>1. high \in Surjection(among, S)
    BY DEF Surjection, Range
  <2> QED BY <2>1, FS_Surjection
<1>3. PICK h \in S : \A x \in S : h <= x
  BY <1>1, <1>2, LeastExists
<1> DEFINE I == {i \in among : high[i] = h}
<1>4. I # {} /\ I \subseteq Int /\ IsFiniteSet(I)
  BY <1>3, FS_Subset DEF Range
<1>5. PICK m \in I : \A i \in I : m <= i
  BY <1>4, LeastExists
<1> HIDE DEF high, S
<1>6. \A j \in among : \/ Height(locs[m]) < Height(locs[j])
                       \/ Height(locs[m]) = Height(locs[j]) /\ m <= j
  <2> SUFFICES ASSUME NEW j \in among
               PROVE  \/ Height(locs[m]) < Height(locs[j])
                      \/ Height(locs[m]) = Height(locs[j]) /\ m <= j
    OBVIOUS
  <2>1. high[m] = h /\ h <= high[j] /\ high[j] \in Int /\ h \in Int
    BY <1>1, <1>3
  <2>2. high[j] = h => m <= j
    BY <1>5
  <2> QED BY <1>1, <2>1, <2>2
<1>7. \E i \in among :
        \A j \in among :
          \/ Height(locs[i]) < Height(locs[j])
          \/ Height(locs[i]) = Height(locs[j]) /\ i <= j
  BY <1>6
<1> DEFINE F == FirstNarrowest(locs, among)
<1>8. F \in among /\ \A j \in among : \/ Height(locs[F]) < Height(locs[j])
                                      \/ Height(locs[F]) = Height(locs[j]) /\ F <= j
  BY <1>7 DEF FirstNarrowest
<1> HIDE DEF F
<1>9. ASSUME NEW j \in among PROVE Height(locs[F]) <= Height(locs[j])
  <2> DEFINE a == Height(locs[F])
             b == Height(locs[j])
  <2>1. a \in Int /\ b \in Int /\ (a < b \/ a = b)
    BY <1>8
  <2> HIDE DEF a, b
  <2>2. a <= b
    BY <2>1
  <2> QED BY <2>2 DEF a, b
<1> QED BY <1>8, <1>9 DEF F

\* The type a function belongs to is one of the file, if it belongs to any.
LEMMA ParentOfType ==
  ASSUME NEW f, NEW types, IsList(types), \A t \in DOMAIN types : IsLoc(types[t].loc)
  PROVE  ParentOf(f, types) = 0 \/ ParentOf(f, types) \in DOMAIN types
<1> DEFINE locs == [i \in DOMAIN types |-> types[i].loc]
           around == {i \in DOMAIN types : Encloses(types[i].loc, f.loc)}
           named == {i \in DOMAIN types : types[i].name = f.parent}
<1>1. IsFiniteSet(DOMAIN types) /\ DOMAIN types \subseteq Int
  BY ListFinite, ListDomain
<1>2. \A I \in SUBSET DOMAIN types : I # {} => FirstNarrowest(locs, I) \in I
  <2> SUFFICES ASSUME NEW I \in SUBSET DOMAIN types, I # {} PROVE FirstNarrowest(locs, I) \in I
    OBVIOUS
  <2>1. IsFiniteSet(I) /\ I \subseteq Int
    BY <1>1, FS_Subset
  <2>2. \A i \in I : locs[i] = types[i].loc /\ locs[i].line \in Int /\ locs[i].end \in Int
    BY DEF IsLoc
  <2>3. \A i \in I : Height(locs[i]) \in Int
    BY <2>2 DEF Height
  <2> HIDE DEF locs
  <2> QED BY <2>1, <2>3, NarrowestIs
<1>3. \A I \in SUBSET DOMAIN types : I # {} => Min(I) \in I
  <2> SUFFICES ASSUME NEW I \in SUBSET DOMAIN types, I # {} PROVE Min(I) \in I
    OBVIOUS
  <2>1. IsFiniteSet(I) /\ I \subseteq Int
    BY <1>1, FS_Subset
  <2> QED BY <2>1, LeastExists DEF Min
<1>4. CASE f.parent = NoParent
  <2>1. ParentOf(f, types) = IF around = {} THEN 0 ELSE FirstNarrowest(locs, around)
    BY <1>4 DEF ParentOf
  <2> HIDE DEF locs
  <2> QED BY <1>2, <2>1
<1>5. CASE f.parent # NoParent
  <2>1. ParentOf(f, types) = IF named = {} THEN 0
                             ELSE Min(IF named \cap around # {} THEN named \cap around ELSE named)
    BY <1>5 DEF ParentOf
  <2> QED BY <1>3, <2>1
<1> QED BY <1>4, <1>5

\* How a function's name is qualified, and the symbols of the types and functions of a file.
Types(file) == ByPlace(file.types)
Parent(f, file) == ParentOf(f, Types(file))
Prefix(f, file) == IF Parent(f, file) = 0 THEN <<>> ELSE Types(file)[Parent(f, file)].name

TypesOf(file) == {TypeSymbol(file.path, t) : t \in Range(file.types)}
FunctionsIn(file, fs) == {FunctionSymbol(file.path, f, Prefix(f, file)) : f \in fs}

\* What is kept of a list are the elements at the indices.
LEMMA KeptRange ==
  ASSUME NEW s, IsList(s), NEW I \in SUBSET DOMAIN s
  PROVE  Range(Kept(s, I)) = {s[i] : i \in I}
BY KeptKeeps DEF Range

\* The symbols of a file are entries: types with the functions nested in them, and the
\* functions of no type.
LEMMA FileSymbolsType ==
  ASSUME NEW file, IsFilePayload(file)
  PROVE  LET top == FileSymbols(file)
             fs == Range(file.functions)
         IN  /\ IsTop(top)
             /\ {e.symbol : e \in Range(top)}
                  = TypesOf(file) \cup FunctionsIn(file, {f \in fs : Parent(f, file) = 0})
             /\ UNION {Range(e.children) : e \in Range(top)}
                  = FunctionsIn(file, {f \in fs : Parent(f, file) # 0})
<1> DEFINE fs == Range(file.functions)
           types == Types(file)
           functions == ByPlace(file.functions)
           In(t) == {i \in DOMAIN functions : ParentOf(functions[i], types) = t}
           Inside(t) == Kept(functions, In(t))
           nested == {Spot(functions[i]) : i \in DOMAIN functions \ In(0)}
           free == {i \in DOMAIN functions : Spot(functions[i]) \notin nested}
           outside == Kept(functions, free)
           Child(t, i) == FunctionSymbol(file.path, Inside(t)[i], types[t].name)
           children(t) == [i \in DOMAIN Inside(t) |-> Child(t, i)]
           inner == [t \in DOMAIN types |-> Entry(TypeSymbol(file.path, types[t]), children(t))]
           outer == [i \in DOMAIN outside |-> Entry(FunctionSymbol(file.path, outside[i], <<>>), <<>>)]
<1>1. FileSymbols(file) = ByPlace(inner \o outer)
  BY DEF FileSymbols, Types
<1>2. file.path \in Int
  BY DEF IsFilePayload
<1>3. /\ IsList(types) /\ Range(types) = Range(file.types)
      /\ \A t \in DOMAIN types : IsLoc(types[t].loc)
  <2>1. IsList(file.types) /\ \A t \in DOMAIN file.types : IsLoc(file.types[t].loc)
    BY DEF IsFilePayload, Range
  <2>2. /\ IsList(types) /\ Range(types) = Range(file.types)
        /\ \A t \in DOMAIN types : \E j \in DOMAIN file.types : types[t] = file.types[j]
    BY <2>1, ByPlaceKeeps DEF Types
  <2> QED BY <2>1, <2>2
<1>4. /\ IsList(functions) /\ Range(functions) = fs
      /\ \A i \in DOMAIN functions : IsLoc(functions[i].loc) /\ IsCode(functions[i].code)
  <2>1. /\ IsList(file.functions)
        /\ \A i \in DOMAIN file.functions : IsLoc(file.functions[i].loc) /\ IsCode(file.functions[i].code)
    BY DEF IsFilePayload, Range
  <2>2. /\ IsList(functions) /\ Range(functions) = fs
        /\ \A i \in DOMAIN functions : \E j \in DOMAIN file.functions : functions[i] = file.functions[j]
    BY <2>1, ByPlaceKeeps
  <2> QED BY <2>1, <2>2
<1> HIDE DEF types, functions
<1>5. ASSUME NEW I \in SUBSET DOMAIN functions
      PROVE  /\ IsList(Kept(functions, I))
             /\ \A n \in DOMAIN Kept(functions, I) :
                  IsLoc(Kept(functions, I)[n].loc) /\ IsCode(Kept(functions, I)[n].code)
  BY <1>4, KeptKeeps
<1>6. ASSUME NEW t PROVE IsSymbolList(children(t))
  <2>1. /\ IsList(Inside(t))
        /\ \A n \in DOMAIN Inside(t) : IsLoc(Inside(t)[n].loc) /\ IsCode(Inside(t)[n].code)
    BY <1>5
  <2>2. Len(Inside(t)) \in Nat /\ DOMAIN Inside(t) = 1 .. Len(Inside(t))
    BY <2>1, ListDomain
  <2>3. IsList(children(t)) /\ DOMAIN children(t) = DOMAIN Inside(t)
    BY <2>2, ListIntro
  <2>4. \A n \in DOMAIN Inside(t) : IsSymbol(Child(t, n))
    BY <1>2, <2>1, FunctionSymbolType
  <2> QED BY <2>3, <2>4 DEF IsSymbolList
<1>7. IsTop(inner)
  <2>1. Len(types) \in Nat /\ DOMAIN types = 1 .. Len(types)
    BY <1>3, ListDomain
  <2>2. IsList(inner) /\ DOMAIN inner = DOMAIN types
    BY <2>1, ListIntro
  <2>3. ASSUME NEW t \in DOMAIN types PROVE IsEntry(inner[t])
    <3>1. inner[t] = Entry(TypeSymbol(file.path, types[t]), children(t))
      OBVIOUS
    <3>2. IsSymbol(TypeSymbol(file.path, types[t])) /\ TypeSymbol(file.path, types[t]).loc = types[t].loc
      BY <1>2, TypeSymbolType
    <3>3. IsSymbolList(children(t))
      BY <1>6
    <3> HIDE DEF children, inner
    <3> QED BY <1>3, <3>1, <3>2, <3>3 DEF IsEntry, Entry
  <2> QED BY <2>2, <2>3 DEF IsTop
<1>8. IsTop(outer)
  <2>1. /\ IsList(outside)
        /\ \A n \in DOMAIN outside : IsLoc(outside[n].loc) /\ IsCode(outside[n].code)
    BY <1>5
  <2>2. Len(outside) \in Nat /\ DOMAIN outside = 1 .. Len(outside)
    BY <2>1, ListDomain
  <2> HIDE DEF outside
  <2>3. IsList(outer) /\ DOMAIN outer = DOMAIN outside
    BY <2>2, ListIntro
  <2>4. ASSUME NEW n \in DOMAIN outside PROVE IsEntry(outer[n])
    <3>1. outer[n] = Entry(FunctionSymbol(file.path, outside[n], <<>>), <<>>)
      OBVIOUS
    <3>2. /\ IsSymbol(FunctionSymbol(file.path, outside[n], <<>>))
          /\ FunctionSymbol(file.path, outside[n], <<>>).loc = outside[n].loc
      BY <1>2, <2>1, FunctionSymbolType
    <3>3. IsSymbolList(<<>>)
      BY ShortLists DEF IsSymbolList
    <3> HIDE DEF outer
    <3> QED BY <2>1, <3>1, <3>2, <3>3 DEF IsEntry, Entry
  <2> QED BY <2>3, <2>4 DEF IsTop
<1>8a. \A f : ParentOf(f, types) = 0 \/ ParentOf(f, types) \in DOMAIN types
  BY <1>3, ParentOfType
<1>8b. \A f : Parent(f, file) = ParentOf(f, types)
  BY DEF Parent, types
<1>8c. \A f : Prefix(f, file) = IF ParentOf(f, types) = 0 THEN <<>> ELSE types[ParentOf(f, types)].name
  BY DEF Parent, Prefix, types
<1>8d. 0 \notin DOMAIN types
  BY <1>3, ListDomain
<1>8e. free = In(0)
  <2>1. \A f, g \in fs : Spot(f) = Spot(g) => f = g
    BY DEF IsFilePayload, Spot
  <2>2. \A i \in DOMAIN functions : functions[i] \in fs
    BY <1>4 DEF Range
  <2>3. ASSUME NEW i \in In(0) PROVE i \in free
    <3> SUFFICES ASSUME NEW j \in DOMAIN functions \ In(0), Spot(functions[j]) = Spot(functions[i])
                 PROVE  FALSE
      OBVIOUS
    <3>1. functions[j] = functions[i]
      BY <2>1, <2>2
    <3> QED BY <3>1
  <2>4. free \subseteq In(0)
    OBVIOUS
  <2> QED BY <2>3, <2>4
<1>8f. {e.symbol : e \in Range(inner)} = TypesOf(file)
  <2>1. \A t \in DOMAIN types : inner[t].symbol = TypeSymbol(file.path, types[t])
    BY DEF Entry
  <2>2. DOMAIN inner = DOMAIN types
    OBVIOUS
  <2> HIDE DEF inner
  <2>3. {e.symbol : e \in Range(inner)} = {TypeSymbol(file.path, t) : t \in Range(types)}
    BY <2>1, <2>2 DEF Range
  <2> QED BY <1>3, <2>3 DEF TypesOf
<1>8g. ASSUME NEW t \in DOMAIN types
       PROVE  Range(inner[t].children) = {FunctionSymbol(file.path, functions[i], types[t].name) : i \in In(t)}
  <2>1. inner[t].children = children(t)
    BY DEF Entry
  <2>2. In(t) \in SUBSET DOMAIN functions
    OBVIOUS
  <2>3. Range(Inside(t)) = {functions[i] : i \in In(t)}
    <3> HIDE DEF In
    <3> QED BY <1>4, <2>2, KeptRange
  <2> HIDE DEF Inside, In
  <2>4. Range(children(t)) = {FunctionSymbol(file.path, f, types[t].name) : f \in Range(Inside(t))}
    BY DEF Range
  <2> QED BY <2>1, <2>3, <2>4
<1>8h. UNION {Range(e.children) : e \in Range(inner)} = FunctionsIn(file, {f \in fs : Parent(f, file) # 0})
  <2>1. UNION {Range(e.children) : e \in Range(inner)} = UNION {Range(inner[t].children) : t \in DOMAIN types}
    <3>1. DOMAIN inner = DOMAIN types
      OBVIOUS
    <3> HIDE DEF inner
    <3> QED BY <3>1 DEF Range
  <2>2. UNION {Range(inner[t].children) : t \in DOMAIN types}
          = UNION {{FunctionSymbol(file.path, functions[i], types[t].name) : i \in In(t)} : t \in DOMAIN types}
    <3> HIDE DEF inner, In
    <3> QED BY <1>8g
  <2> DEFINE Nested == {f \in fs : Parent(f, file) # 0}
  <2>3. ASSUME NEW t \in DOMAIN types, NEW i \in In(t)
        PROVE  FunctionSymbol(file.path, functions[i], types[t].name) \in FunctionsIn(file, Nested)
    <3>1. functions[i] \in Nested /\ Prefix(functions[i], file) = types[t].name
      BY <1>4, <1>8b, <1>8c, <1>8d DEF Range
    <3> HIDE DEF Nested
    <3> QED BY <3>1 DEF FunctionsIn
  <2>4. ASSUME NEW f \in Nested
        PROVE  \E t \in DOMAIN types : \E i \in In(t) :
                 FunctionSymbol(file.path, f, Prefix(f, file)) = FunctionSymbol(file.path, functions[i], types[t].name)
    <3>1. PICK i \in DOMAIN functions : functions[i] = f
      BY <1>4 DEF Range
    <3>2. ParentOf(f, types) \in DOMAIN types /\ Prefix(f, file) = types[ParentOf(f, types)].name
      BY <1>8a, <1>8b, <1>8c
    <3>3. i \in In(ParentOf(f, types))
      BY <3>1
    <3> QED BY <3>1, <3>2, <3>3
  <2> HIDE DEF Nested, In
  <2>5. FunctionsIn(file, Nested)
          = UNION {{FunctionSymbol(file.path, functions[i], types[t].name) : i \in In(t)} : t \in DOMAIN types}
    <3>1. FunctionsIn(file, Nested) = {FunctionSymbol(file.path, f, Prefix(f, file)) : f \in Nested}
      BY DEF FunctionsIn
    <3> QED BY <2>3, <2>4, <3>1
  <2> QED BY <2>1, <2>2, <2>5 DEF Nested
<1>8i. /\ {e.symbol : e \in Range(outer)} = FunctionsIn(file, {f \in fs : Parent(f, file) = 0})
       /\ UNION {Range(e.children) : e \in Range(outer)} = {}
  <2>1. free \in SUBSET DOMAIN functions
    OBVIOUS
  <2>2. Range(outside) = {f \in fs : Parent(f, file) = 0}
    <3>1. Range(outside) = {functions[i] : i \in free}
      <4> HIDE DEF free
      <4> QED BY <1>4, <2>1, KeptRange
    <3>1a. Range(outside) = {functions[i] : i \in In(0)}
      <4> HIDE DEF outside, free, In
      <4> QED BY <1>8e, <3>1
    <3> HIDE DEF outside, free
    <3> QED BY <1>4, <1>8b, <3>1a DEF Range
  <2> HIDE DEF outside
  <2>3. /\ DOMAIN outer = DOMAIN outside
        /\ \A n \in DOMAIN outside : /\ outer[n].symbol = FunctionSymbol(file.path, outside[n], <<>>)
                                     /\ outer[n].children = <<>>
    BY DEF Entry
  <2> HIDE DEF outer
  <2>4. {e.symbol : e \in Range(outer)} = {FunctionSymbol(file.path, f, <<>>) : f \in Range(outside)}
    BY <2>3 DEF Range
  <2>5. \A f \in Range(outside) : Prefix(f, file) = <<>>
    BY <1>8b, <1>8c, <2>2
  <2>6. {FunctionSymbol(file.path, f, <<>>) : f \in Range(outside)} = FunctionsIn(file, Range(outside))
    BY <2>5 DEF FunctionsIn
  <2>7. \A e \in Range(outer) : Range(e.children) = {}
    BY <2>3 DEF Range
  <2> QED BY <2>2, <2>4, <2>6, <2>7
<1> HIDE DEF inner, outer
<1>9. IsTop(inner \o outer)
  <2> DEFINE both == inner \o outer
  <2>1. /\ IsList(both)
        /\ \A i \in DOMAIN both : \/ \E j \in DOMAIN inner : both[i] = inner[j]
                                 \/ \E j \in DOMAIN outer : both[i] = outer[j]
    BY <1>7, <1>8, ListJoin DEF IsTop
  <2> HIDE DEF both
  <2>2. \A i \in DOMAIN both : IsEntry(both[i])
    BY <1>7, <1>8, <2>1 DEF IsTop
  <2> QED BY <2>1, <2>2 DEF IsTop, both
<1>10. /\ IsList(ByPlace(inner \o outer))
       /\ \A i \in DOMAIN ByPlace(inner \o outer) :
            \E j \in DOMAIN (inner \o outer) : ByPlace(inner \o outer)[i] = (inner \o outer)[j]
       /\ Range(ByPlace(inner \o outer)) = Range(inner \o outer)
  BY <1>9, ByPlaceKeeps DEF IsTop, IsEntry
<1>11. Range(ByPlace(inner \o outer)) = Range(inner) \cup Range(outer)
  BY <1>7, <1>8, <1>10, ListJoin DEF IsTop
<1>12. IsTop(ByPlace(inner \o outer))
  BY <1>9, <1>10 DEF IsTop
<1> DEFINE top == FileSymbols(file)
<1>13. Range(top) = Range(inner) \cup Range(outer) /\ IsTop(top)
  BY <1>1, <1>11, <1>12
<1> HIDE DEF top, fs, inner, outer
<1>14. {e.symbol : e \in Range(top)}
         = {e.symbol : e \in Range(inner)} \cup {e.symbol : e \in Range(outer)}
  BY <1>13
<1>15. UNION {Range(e.children) : e \in Range(top)}
         = (UNION {Range(e.children) : e \in Range(inner)})
           \cup (UNION {Range(e.children) : e \in Range(outer)})
  BY <1>13
<1> QED BY <1>8f, <1>8h, <1>8i, <1>13, <1>14, <1>15 DEF top, fs

\* Two lists of symbols joined are a list of symbols.
LEMMA SymbolListJoin ==
  ASSUME NEW s, NEW t, IsSymbolList(s), IsSymbolList(t)
  PROVE  IsSymbolList(s \o t)
<1> DEFINE both == s \o t
<1>1. /\ IsList(both)
      /\ \A n \in DOMAIN both : \/ \E j \in DOMAIN s : both[n] = s[j]
                               \/ \E j \in DOMAIN t : both[n] = t[j]
  BY ListJoin DEF IsSymbolList
<1> HIDE DEF both
<1>2. \A n \in DOMAIN both : IsSymbol(both[n])
  BY <1>1 DEF IsSymbolList
<1> QED BY <1>1, <1>2 DEF IsSymbolList, both

\* The symbols of a file, its types' children among them, are a list of symbols.
LEMMA FlatType ==
  ASSUME NEW top, IsTop(top)
  PROVE  IsSymbolList(Flat(top))
<1> DEFINE ss == [i \in DOMAIN top |-> <<top[i].symbol>> \o top[i].children]
<1>1. Len(top) \in Nat /\ DOMAIN top = 1 .. Len(top)
  BY ListDomain DEF IsTop
<1>2. IsList(ss) /\ DOMAIN ss = DOMAIN top
  BY <1>1, ListIntro
<1>3. ASSUME NEW i \in DOMAIN top PROVE IsSymbolList(ss[i])
  <2>1. ss[i] = <<top[i].symbol>> \o top[i].children
    OBVIOUS
  <2>2. IsSymbol(top[i].symbol) /\ IsSymbolList(top[i].children)
    BY DEF IsTop, IsEntry
  <2>3. /\ IsList(<<top[i].symbol>>) /\ DOMAIN <<top[i].symbol>> = 1 .. 1
        /\ <<top[i].symbol>>[1] = top[i].symbol
    BY ShortLists
  <2>4. \A j \in DOMAIN <<top[i].symbol>> : <<top[i].symbol>>[j] = top[i].symbol
    BY <2>3
  <2>5. IsSymbolList(<<top[i].symbol>>)
    BY <2>2, <2>3, <2>4 DEF IsSymbolList
  <2> HIDE DEF ss
  <2>6. IsSymbolList(<<top[i].symbol>> \o top[i].children)
    BY <2>2, <2>5, SymbolListJoin
  <2> QED BY <2>1, <2>6
<1>4. Flat(top) = Concatenated(ss)
  BY DEF Flat
<1> HIDE DEF ss
<1>5. /\ IsList(Concatenated(ss))
      /\ \A n \in DOMAIN Concatenated(ss) :
           \E i \in DOMAIN ss : \E j \in DOMAIN ss[i] : Concatenated(ss)[n] = ss[i][j]
  BY <1>2, <1>3, ConcatenatedHasAll DEF IsSymbolList
<1> QED BY <1>2, <1>3, <1>4, <1>5 DEF IsSymbolList

\* Resolution and classification leave a symbol a symbol.
LEMMA DoneType ==
  ASSUME NEW s, IsSymbol(s), NEW parse_ok, NEW records
  PROVE  IsSymbol(WithEligibility(parse_ok, ApplyResolution(s), records))
<1> DEFINE calls == IF s.body = NoBody THEN <<>>
                    ELSE [i \in DOMAIN s.code.calls |-> Resolved(s.code.calls[i])]
           r == ApplyResolution(s)
<1>1. IsList(calls)
  <2>1. Len(s.code.calls) \in Nat /\ DOMAIN s.code.calls = 1 .. Len(s.code.calls)
    BY ListDomain DEF IsSymbol, IsCode
  <2>2. IsList([i \in DOMAIN s.code.calls |-> Resolved(s.code.calls[i])])
    BY <2>1, ListIntro
  <2> QED BY <2>2, ShortLists
<1>2. r = [s EXCEPT !.code.calls = calls]
  BY DEF ApplyResolution
<1> HIDE DEF calls, r
<1>3. IsSymbol(r)
  <2>1. s.code = [calls |-> s.code.calls, throws |-> s.code.throws, seen |-> s.code.seen]
    BY DEF IsSymbol, IsCode
  <2>2. [s.code EXCEPT !.calls = calls] = [calls |-> calls, throws |-> s.code.throws, seen |-> s.code.seen]
    BY <2>1
  <2> DEFINE code == [calls |-> calls, throws |-> s.code.throws, seen |-> s.code.seen]
  <2>3. IsCode(code)
    BY <1>1 DEF IsSymbol, IsCode
  <2> HIDE DEF code
  <2>4. r = [s EXCEPT !.code = code]
    BY <1>2, <2>2 DEF code
  <2> QED BY <2>3, <2>4 DEF IsSymbol
<1>4. ClassifySymbol(parse_ok, r, records).state \in States
  BY DEF ClassifySymbol, Eligibility, States
<1>5. WithEligibility(parse_ok, r, records) = [r EXCEPT !.eligibility = ClassifySymbol(parse_ok, r, records)]
  BY DEF WithEligibility
<1>6. IsSymbol(WithEligibility(parse_ok, r, records))
  BY <1>3, <1>4, <1>5 DEF IsSymbol
<1> QED BY <1>6 DEF r

IsFile(file) == IsTop(file.top) /\ file.eligibility.state \in States

\* A finished file has symbols and an eligibility.
LEMMA FinishedType ==
  ASSUME NEW file, IsTop(file.top)
  PROVE  IsFile(Finished(file))
<1> DEFINE records == Attached(file.unsupported, Flat(file.top))
           Done(s) == WithEligibility(file.parse_ok, ApplyResolution(s), records)
           e(t) == file.top[t]
           children(t) == [i \in DOMAIN e(t).children |-> Done(e(t).children[i])]
           top == [t \in DOMAIN file.top |->
                     [file.top[t] EXCEPT !.symbol = Done(@),
                        !.children = [i \in DOMAIN @ |-> Done(@[i])]]]
<1>1. /\ Finished(file).top = top
      /\ Finished(file).eligibility = ClassifyFile(file.parse_ok, top, records)
  BY DEF Finished
<1>2. Len(file.top) \in Nat /\ DOMAIN file.top = 1 .. Len(file.top)
  BY ListDomain DEF IsTop
<1>3. IsList(top) /\ DOMAIN top = DOMAIN file.top
  BY <1>2, ListIntro
<1>4. \A s : IsSymbol(s) => IsSymbol(Done(s))
  BY DoneType
<1>5. ASSUME NEW t \in DOMAIN file.top PROVE IsEntry(top[t])
  <2>1. IsEntry(e(t))
    BY DEF IsTop
  <2>2. Len(e(t).children) \in Nat /\ DOMAIN e(t).children = 1 .. Len(e(t).children)
    BY <2>1, ListDomain DEF IsEntry, IsSymbolList
  <2>3. IsList(children(t)) /\ DOMAIN children(t) = DOMAIN e(t).children
    BY <2>2, ListIntro
  <2>4. \A i \in DOMAIN e(t).children : children(t)[i] = Done(e(t).children[i])
    OBVIOUS
  <2>5. top[t] = [e(t) EXCEPT !.symbol = Done(e(t).symbol), !.children = children(t)]
    OBVIOUS
  <2> HIDE DEF children, Done, top, e
  <2>6. IsSymbolList(children(t))
    BY <1>4, <2>1, <2>3, <2>4 DEF IsEntry, IsSymbolList
  <2>7. IsSymbol(Done(e(t).symbol))
    BY <1>4, <2>1 DEF IsEntry
  <2> QED BY <2>1, <2>5, <2>6, <2>7 DEF IsEntry
<1>6. ClassifyFile(file.parse_ok, top, records).state \in States
  BY DEF ClassifyFile, Eligibility, States
<1> HIDE DEF top
<1> QED BY <1>1, <1>3, <1>5, <1>6 DEF IsFile, IsTop

----------------------------------------------------------------------------
(* Which symbols a file has.                                               *)

\* A file's symbols are those at the top and their children.
LEMMA FlatHas ==
  ASSUME NEW top, IsTop(top)
  PROVE  Range(Flat(top)) = {e.symbol : e \in Range(top)} \cup UNION {Range(e.children) : e \in Range(top)}
<1> DEFINE ss == [i \in DOMAIN top |-> <<top[i].symbol>> \o top[i].children]
<1>1. Len(top) \in Nat /\ DOMAIN top = 1 .. Len(top)
  BY ListDomain DEF IsTop
<1>2. IsList(ss) /\ DOMAIN ss = DOMAIN top
  BY <1>1, ListIntro
<1>3. ASSUME NEW i \in DOMAIN top
      PROVE  IsList(ss[i]) /\ Range(ss[i]) = {top[i].symbol} \cup Range(top[i].children)
  <2>1. ss[i] = <<top[i].symbol>> \o top[i].children
    OBVIOUS
  <2>2. IsList(<<top[i].symbol>>) /\ Range(<<top[i].symbol>>) = {top[i].symbol}
    BY ShortLists DEF Range
  <2>3. IsList(top[i].children)
    BY DEF IsTop, IsEntry, IsSymbolList
  <2> HIDE DEF ss
  <2> QED BY <2>1, <2>2, <2>3, ListJoin
<1>4. Flat(top) = Concatenated(ss)
  BY DEF Flat
<1> HIDE DEF ss
<1>5. /\ \A n \in DOMAIN Concatenated(ss) :
           \E i \in DOMAIN ss : \E j \in DOMAIN ss[i] : Concatenated(ss)[n] = ss[i][j]
      /\ \A i \in DOMAIN ss : \A j \in DOMAIN ss[i] :
           \E n \in DOMAIN Concatenated(ss) : Concatenated(ss)[n] = ss[i][j]
  BY <1>2, <1>3, ConcatenatedHasAll
<1>6. Range(Concatenated(ss)) = UNION {Range(ss[i]) : i \in DOMAIN ss}
  BY <1>5 DEF Range
<1>7. UNION {Range(ss[i]) : i \in DOMAIN ss}
        = UNION {{top[i].symbol} \cup Range(top[i].children) : i \in DOMAIN top}
  BY <1>2, <1>3
<1>8. UNION {{top[i].symbol} \cup Range(top[i].children) : i \in DOMAIN top}
        = {e.symbol : e \in Range(top)} \cup UNION {Range(e.children) : e \in Range(top)}
  BY DEF Range
<1> QED BY <1>4, <1>6, <1>7, <1>8

LEMMA FlatHasEach ==
  ASSUME NEW top, IsTop(top), NEW x
  PROVE  x \in Range(Flat(top)) <=>
           \E t \in DOMAIN top : x = top[t].symbol \/ x \in Range(top[t].children)
<1> DEFINE A == {e.symbol : e \in Range(top)}
           B == UNION {Range(e.children) : e \in Range(top)}
<1>1. x \in A <=> \E t \in DOMAIN top : x = top[t].symbol
  BY DEF Range
<1>2. x \in B <=> \E e \in Range(top) : x \in Range(e.children)
  OBVIOUS
<1>3. x \in B <=> \E t \in DOMAIN top : x \in Range(top[t].children)
  <2> HIDE DEF B
  <2>1. Range(top) = {top[t] : t \in DOMAIN top}
    BY DEF Range
  <2> QED BY <1>2, <2>1
<1>4. Range(Flat(top)) = A \cup B
  BY FlatHas
<1> HIDE DEF A, B
<1> QED BY <1>1, <1>3, <1>4

\* All symbols of a file of the payload.
SymbolsIn(file) == TypesOf(file) \cup FunctionsIn(file, Range(file.functions))

\* The symbols built of a file are those of its types and functions.
LEMMA SymbolsAre ==
  ASSUME NEW file, IsFilePayload(file)
  PROVE  Range(Flat(FileSymbols(file))) = SymbolsIn(file)
<1> DEFINE top == FileSymbols(file)
           fs == Range(file.functions)
           free == {f \in fs : Parent(f, file) = 0}
           nested == {f \in fs : Parent(f, file) # 0}
<1>1. /\ IsTop(top)
      /\ {e.symbol : e \in Range(top)} = TypesOf(file) \cup FunctionsIn(file, free)
      /\ UNION {Range(e.children) : e \in Range(top)} = FunctionsIn(file, nested)
  BY FileSymbolsType
<1>2. FunctionsIn(file, free) \cup FunctionsIn(file, nested) = FunctionsIn(file, fs)
  BY DEF FunctionsIn
<1> HIDE DEF top, free, nested, fs
<1>3. Range(Flat(top)) = (TypesOf(file) \cup FunctionsIn(file, free)) \cup FunctionsIn(file, nested)
  BY <1>1, FlatHas
<1>4. Range(Flat(top)) = TypesOf(file) \cup FunctionsIn(file, fs)
  BY <1>2, <1>3
<1> QED BY <1>4 DEF SymbolsIn, top, fs

\* What counts against the symbols of a file, and a symbol when the frontend is done with it.
RecordsOf(file) == Attached(file.unsupported, Flat(file.top))
DoneOf(file, s) == WithEligibility(file.parse_ok, ApplyResolution(s), RecordsOf(file))

\* A symbol keeps what identifies it; its calls are resolved and its eligibility is found.
LEMMA DoneIs ==
  ASSUME NEW s, IsSymbol(s), NEW file
  PROVE  LET d == DoneOf(file, s)
         IN  /\ IsSymbol(d)
             /\ d.id = s.id /\ d.path = s.path /\ d.kind = s.kind /\ d.qname = s.qname
             /\ d.loc = s.loc /\ d.body = s.body
             /\ d.code.calls = IF s.body = NoBody THEN <<>>
                               ELSE [i \in DOMAIN s.code.calls |-> Resolved(s.code.calls[i])]
             /\ d.eligibility = ClassifySymbol(file.parse_ok, s, RecordsOf(file))
<1> DEFINE calls == IF s.body = NoBody THEN <<>>
                    ELSE [i \in DOMAIN s.code.calls |-> Resolved(s.code.calls[i])]
           r == ApplyResolution(s)
<1>1. r = [s EXCEPT !.code.calls = calls]
  BY DEF ApplyResolution
<1> HIDE DEF calls, r
<1>2. s = [id |-> s.id, path |-> s.path, kind |-> s.kind, name |-> s.name,
           qname |-> s.qname, loc |-> s.loc, body |-> s.body, code |-> s.code,
           eligibility |-> s.eligibility]
      /\ s.code = [calls |-> s.code.calls, throws |-> s.code.throws, seen |-> s.code.seen]
  BY DEF IsSymbol, IsCode
<1>3. [s.code EXCEPT !.calls = calls] = [calls |-> calls, throws |-> s.code.throws, seen |-> s.code.seen]
  BY <1>2
<1> DEFINE code == [calls |-> calls, throws |-> s.code.throws, seen |-> s.code.seen]
<1>4. code.calls = calls
  OBVIOUS
<1> HIDE DEF code
<1>5. r = [s EXCEPT !.code = code]
  BY <1>1, <1>3 DEF code
<1>6. r = [id |-> s.id, path |-> s.path, kind |-> s.kind, name |-> s.name,
           qname |-> s.qname, loc |-> s.loc, body |-> s.body, code |-> code,
           eligibility |-> s.eligibility]
  BY <1>2, <1>5
<1>7. ClassifySymbol(file.parse_ok, r, RecordsOf(file)) = ClassifySymbol(file.parse_ok, s, RecordsOf(file))
  BY <1>6 DEF ClassifySymbol
<1>8. DoneOf(file, s) = [r EXCEPT !.eligibility = ClassifySymbol(file.parse_ok, s, RecordsOf(file))]
  BY <1>7 DEF DoneOf, WithEligibility, r
<1>9. IsSymbol(DoneOf(file, s))
  BY DoneType DEF DoneOf
<1> QED BY <1>4, <1>6, <1>8, <1>9 DEF calls

\* A finished file has the symbols it had before, each done.
LEMMA FinishedHas ==
  ASSUME NEW file, IsTop(file.top)
  PROVE  LET g == Finished(file)
         IN  /\ DOMAIN g.top = DOMAIN file.top
             /\ \A t \in DOMAIN g.top : g.top[t].symbol = DoneOf(file, file.top[t].symbol)
             /\ Range(SymbolsOf(g)) = {DoneOf(file, s) : s \in Range(Flat(file.top))}
             /\ g.records = RecordsOf(file)
             /\ g.eligibility = ClassifyFile(file.parse_ok, g.top, RecordsOf(file))
<1> DEFINE g == Finished(file)
           top == [t \in DOMAIN file.top |->
                     [file.top[t] EXCEPT !.symbol = DoneOf(file, @),
                        !.children = [i \in DOMAIN @ |-> DoneOf(file, @[i])]]]
<1>1. /\ g.top = top /\ g.records = RecordsOf(file)
      /\ g.eligibility = ClassifyFile(file.parse_ok, g.top, RecordsOf(file))
  BY DEF Finished, DoneOf, RecordsOf
<1>2. ASSUME NEW t \in DOMAIN file.top
      PROVE  /\ top[t].symbol = DoneOf(file, file.top[t].symbol)
             /\ Range(top[t].children) = {DoneOf(file, s) : s \in Range(file.top[t].children)}
  <2> DEFINE e == file.top[t]
             children == [i \in DOMAIN e.children |-> DoneOf(file, e.children[i])]
  <2>1. e = [loc |-> e.loc, symbol |-> e.symbol, children |-> e.children]
    BY DEF IsTop, IsEntry
  <2>2. top[t] = [e EXCEPT !.symbol = DoneOf(file, e.symbol), !.children = children]
    OBVIOUS
  <2>3. Range(children) = {DoneOf(file, s) : s \in Range(e.children)}
    BY DEF Range
  <2> HIDE DEF e, children, top
  <2>4. top[t].symbol = DoneOf(file, e.symbol) /\ top[t].children = children
    BY <2>1, <2>2
  <2> QED BY <2>3, <2>4 DEF e
<1>3. DOMAIN top = DOMAIN file.top
  OBVIOUS
<1>4. IsTop(g.top)
  BY FinishedType DEF IsFile
<1> HIDE DEF top, g
<1>7. \A x : x \in Range(Flat(g.top)) <=>
        \E t \in DOMAIN top : x = top[t].symbol \/ x \in Range(top[t].children)
  BY <1>1, <1>4, FlatHasEach
<1>8. \A x : x \in Range(Flat(file.top)) <=>
        \E t \in DOMAIN file.top : x = file.top[t].symbol \/ x \in Range(file.top[t].children)
  BY FlatHasEach
<1>9. Range(Flat(g.top)) = {DoneOf(file, s) : s \in Range(Flat(file.top))}
  <2>1. ASSUME NEW x \in Range(Flat(g.top)) PROVE \E s \in Range(Flat(file.top)) : x = DoneOf(file, s)
    <3>1. PICK t \in DOMAIN file.top : x = top[t].symbol \/ x \in Range(top[t].children)
      BY <1>3, <1>7
    <3>2. CASE x = top[t].symbol
      BY <1>2, <1>8, <3>2
    <3>3. CASE x \in Range(top[t].children)
      <4>1. PICK s \in Range(file.top[t].children) : x = DoneOf(file, s)
        BY <1>2, <3>3
      <4> QED BY <1>8, <4>1
    <3> QED BY <3>1, <3>2, <3>3
  <2>2. ASSUME NEW s \in Range(Flat(file.top)) PROVE DoneOf(file, s) \in Range(Flat(g.top))
    <3>1. PICK t \in DOMAIN file.top : s = file.top[t].symbol \/ s \in Range(file.top[t].children)
      BY <1>8
    <3>2. DoneOf(file, s) = top[t].symbol \/ DoneOf(file, s) \in Range(top[t].children)
      BY <1>2, <3>1
    <3> QED BY <1>3, <1>7, <3>1, <3>2
  <2> QED BY <2>1, <2>2
<1> QED BY <1>1, <1>2, <1>3, <1>9 DEF SymbolsOf, g

----------------------------------------------------------------------------
(* What is handed to the rules.                                            *)

\* The rules by name are those by position.
LEMMA RuleNamesAreRules == RuleNames = Range(Rules)
<1>1. \A rule \in RuleNames : \E i \in 1 .. 6 : Rules[i] = rule
  <2> DEFINE r == Rules
  <2>1. /\ r[1] = "unwrap" /\ r[2] = "try" /\ r[3] = "cast"
        /\ r[4] = "bounds" /\ r[5] = "taint" /\ r[6] = "dead"
    BY DEF Rules
  <2> HIDE DEF r
  <2> QED BY <2>1 DEF RuleNames, r
<1> QED BY <1>1, RulesAreNamed DEF Range

\* What a symbol's walk saw reaches the rules as events with a place, one for each site.
LEMMA PlacedType ==
  ASSUME NEW s, IsSymbol(s), NEW rule \in DOMAIN s.code.seen
  PROVE  LET seen == s.code.seen[rule]
         IN  IsSeen(rule, [i \in DOMAIN seen |-> Placed(s, rule, seen[i])])
<1> DEFINE seen == s.code.seen[rule]
           placed == [i \in DOMAIN seen |-> Placed(s, rule, seen[i])]
<1>1. /\ IsList(seen)
      /\ \A i \in DOMAIN seen : seen[i].line \in Int /\ seen[i].col \in Int
      /\ \A i, j \in DOMAIN seen : seen[i].site = seen[j].site =>
           /\ seen[i].line = seen[j].line /\ seen[i].col = seen[j].col
           /\ rule \in {"try", "taint"} => seen[i].what = seen[j].what
  BY DEF IsSymbol, IsCode
<1>2. Len(seen) \in Nat /\ DOMAIN seen = 1 .. Len(seen)
  BY <1>1, ListDomain
<1>3. IsList(placed) /\ DOMAIN placed = DOMAIN seen
  BY <1>2, ListIntro
<1>4. \A i \in DOMAIN seen :
        /\ placed[i].site = seen[i].site /\ placed[i].place = PlaceOf(s.path, seen[i])
        /\ placed[i].what = IF rule = "try" THEN TryFacts(s, seen[i].what) ELSE seen[i].what
  BY DEF Placed
<1> HIDE DEF seen, placed
<1>5. ASSUME NEW i \in DOMAIN seen PROVE placed[i].place \in Int
  <2>1. s.path \in Int /\ Width \in Int /\ seen[i].line \in Int /\ seen[i].col \in Int
    BY <1>1, FrontendAssumption DEF IsSymbol
  <2>2. s.path * Width + seen[i].line \in Int
    BY <2>1
  <2>3. (s.path * Width + seen[i].line) * Width + seen[i].col \in Int
    BY <2>1, <2>2
  <2> QED BY <1>4, <2>3 DEF PlaceOf
<1>6. ASSUME NEW i \in DOMAIN seen, NEW j \in DOMAIN seen, placed[i].site = placed[j].site
      PROVE  /\ placed[i].place = placed[j].place
             /\ rule \in {"try", "taint"} => placed[i].what = placed[j].what
  <2>1. seen[i].site = seen[j].site
    BY <1>4, <1>6
  <2>2. /\ seen[i].line = seen[j].line /\ seen[i].col = seen[j].col
        /\ rule \in {"try", "taint"} => seen[i].what = seen[j].what
    BY <1>1, <2>1
  <2> QED BY <1>4, <2>2 DEF PlaceOf
<1> QED BY <1>3, <1>5, <1>6 DEF IsSeen, seen, placed

LEMMA SeenType ==
  ASSUME NEW s, IsSymbol(s)
  PROVE  IsFunction(Seen(s))
<1>1. DOMAIN EventsOf(s) = RuleNames
  BY RuleNamesAreRules DEF EventsOf
<1>2. ASSUME NEW rule \in RuleNames PROVE IsSeen(rule, EventsOf(s)[rule])
  <2>1. CASE rule \in DOMAIN s.code.seen
    BY <1>1, <2>1, PlacedType, RuleNamesAreRules DEF EventsOf
  <2>2. CASE rule \notin DOMAIN s.code.seen
    <3>1. EventsOf(s)[rule] = <<>>
      BY <2>2, RuleNamesAreRules DEF EventsOf
    <3> QED BY <3>1, ShortLists DEF IsSeen
  <2> QED BY <2>1, <2>2
<1>3. /\ Seen(s) = [id |-> Seen(s).id, state |-> Seen(s).state,
                    unsupported |-> Seen(s).unsupported, warnings |-> Seen(s).warnings,
                    body |-> Seen(s).body, events |-> Seen(s).events]
      /\ Seen(s).events = EventsOf(s)
  BY DEF Seen
<1> QED BY <1>1, <1>2, <1>3 DEF IsFunction

IsFunctionList(ss) == IsList(ss) /\ \A i \in DOMAIN ss : IsFunction(ss[i])
IsFindingList(fs) == IsList(fs) /\ \A i \in DOMAIN fs : IsFinding(fs[i])

\* The unit is a list of functions for the rules.
LEMMA UnitType ==
  ASSUME IsList(files), \A i \in DOMAIN files : IsFile(files[i])
  PROVE  IsFunctionList(UnitSymbols)
<1> DEFINE seen(i) == [j \in DOMAIN SymbolsOf(files[i]) |-> Seen(SymbolsOf(files[i])[j])]
           ss == [i \in DOMAIN files |-> seen(i)]
<1>1. UnitSymbols = Concatenated(ss)
  BY DEF UnitSymbols
<1>2. Len(files) \in Nat /\ DOMAIN files = 1 .. Len(files)
  BY ListDomain
<1>3. IsList(ss) /\ DOMAIN ss = DOMAIN files
  BY <1>2, ListIntro
<1>4. ASSUME NEW i \in DOMAIN files PROVE IsFunctionList(seen(i))
  <2>1. IsSymbolList(SymbolsOf(files[i]))
    BY FlatType DEF IsFile, SymbolsOf
  <2>2. Len(SymbolsOf(files[i])) \in Nat /\ DOMAIN SymbolsOf(files[i]) = 1 .. Len(SymbolsOf(files[i]))
    BY <2>1, ListDomain DEF IsSymbolList
  <2>3. IsList(seen(i)) /\ DOMAIN seen(i) = DOMAIN SymbolsOf(files[i])
    BY <2>2, ListIntro
  <2>4. \A j \in DOMAIN SymbolsOf(files[i]) : IsFunction(Seen(SymbolsOf(files[i])[j]))
    BY <2>1, SeenType DEF IsSymbolList
  <2> QED BY <2>3, <2>4 DEF IsFunctionList
<1>5. \A i \in DOMAIN ss : IsFunctionList(ss[i])
  BY <1>4
<1> HIDE DEF ss
<1>6. \A i \in DOMAIN ss : IsList(ss[i])
  BY <1>5 DEF IsFunctionList
<1>7. /\ IsList(Concatenated(ss))
      /\ \A n \in DOMAIN Concatenated(ss) :
           \E i \in DOMAIN ss : \E j \in DOMAIN ss[i] : Concatenated(ss)[n] = ss[i][j]
  BY <1>3, <1>6, ConcatenatedHasAll
<1> QED BY <1>1, <1>5, <1>7 DEF IsFunctionList

\* The functions of a list that are selected, by their places.
Chosen(ss) ==
  {i \in DOMAIN ss : /\ Eligible(ss[i])
                     /\ \A j \in 1 .. i - 1 : Eligible(ss[j]) => ss[j].id # ss[i].id}

\* What is selected of a list of functions is one, with the chosen ones and no id twice.
LEMMA SelectedType ==
  ASSUME NEW ss, IsFunctionList(ss)
  PROVE  LET L == Selected(ss)
         IN  /\ IsFunctionList(L)
             /\ \A n \in DOMAIN L : \E i \in Chosen(ss) : L[n] = ss[i]
             /\ \A i \in Chosen(ss) : \E n \in DOMAIN L : L[n] = ss[i]
             /\ \A m, n \in DOMAIN L : L[m].id = L[n].id => m = n
<1> DEFINE I == Chosen(ss)
           L == Kept(ss, I)
<1>1. Selected(ss) = L /\ I \in SUBSET DOMAIN ss
  BY DEF Selected, Chosen
<1>2. IsList(ss) /\ \A i \in DOMAIN ss : IsFunction(ss[i])
  BY DEF IsFunctionList
<1>3. /\ IsList(L)
      /\ \A n \in DOMAIN L : \E i \in I : L[n] = ss[i]
      /\ \A i \in I : \E n \in DOMAIN L : L[n] = ss[i]
  BY <1>1, <1>2, KeptKeeps
<1>4. PICK O \in Bijection(DOMAIN L, I) : \A n \in DOMAIN L : L[n] = ss[O[n]]
  BY <1>1, <1>2, KeptPlaces
<1>5. O \in [DOMAIN L -> I] /\ \A m, n \in DOMAIN L : O[m] = O[n] => m = n
  BY DEF Bijection, Injection, IsInjective
<1>6. ASSUME NEW i \in I, NEW j \in I, ss[i].id = ss[j].id PROVE i = j
  <2>1. i \in Int /\ j \in Int /\ i >= 1 /\ j >= 1
    BY <1>1, <1>2, ListDomain
  <2>2. ~(i < j) /\ ~(j < i)
    BY <1>6, <2>1 DEF Chosen
  <2> QED BY <2>1, <2>2
<1> HIDE DEF L, I
<1>7. \A m, n \in DOMAIN L : L[m].id = L[n].id => m = n
  BY <1>4, <1>5, <1>6
<1>8. IsFunctionList(L)
  BY <1>1, <1>2, <1>3 DEF IsFunctionList
<1> QED BY <1>1, <1>3, <1>7, <1>8 DEF I

----------------------------------------------------------------------------
(* Sorting findings.                                                       *)

\* The severities of findings are ranked, and so is everything sorting asks for.
LEMMA SortingKeysType ==
  ASSUME NEW fs, IsFindingList(fs)
  PROVE  /\ [i \in DOMAIN fs |-> fs[i].place] \in [DOMAIN fs -> Int]
         /\ [i \in DOMAIN fs |-> Rank(fs[i].rule)] \in [DOMAIN fs -> Int]
         /\ [i \in DOMAIN fs |-> SeverityRank(fs[i])] \in [DOMAIN fs -> Int]
         /\ [i \in DOMAIN fs |-> SortKey(fs[i])] \in [DOMAIN fs -> Int]
<1> SUFFICES ASSUME NEW i \in DOMAIN fs
             PROVE  /\ fs[i].place \in Int /\ Rank(fs[i].rule) \in Int
                    /\ SeverityRank(fs[i]) \in Int /\ SortKey(fs[i]) \in Int
  OBVIOUS
<1>1. /\ fs[i].place \in Int /\ fs[i].rule \in RuleNames
      /\ fs[i].severity \in {"high", "medium", "low"}
  BY DEF IsFindingList, IsFinding
<1>2. Rank(fs[i].rule) \in Int
  BY <1>1, RankType
<1>3. SortKey(fs[i]) \in Int
  BY <1>1, <1>2 DEF SortKey
<1>4. SeverityRank(fs[i]) \in Int
  <2>1. DOMAIN Severities = 1 .. 4 /\ Severities[2] = "high" /\ Severities[3] = "medium" /\ Severities[4] = "low"
    BY DEF Severities
  <2>2. \E n \in DOMAIN Severities : Severities[n] = fs[i].severity
    BY <1>1, <2>1
  <2>3. SeverityRank(fs[i]) \in 1 .. 4
    BY <2>1, <2>2 DEF SeverityRank
  <2> QED BY <2>3
<1> QED BY <1>1, <1>2, <1>3, <1>4

\* The findings of a unit sorted by place are a list of findings.
LEMMA SortedType ==
  ASSUME NEW fs, IsFindingList(fs)
  PROVE  IsFindingList(Sorted(fs))
<1> DEFINE major == [i \in DOMAIN fs |-> fs[i].place]
           minor == [i \in DOMAIN fs |-> Rank(fs[i].rule)]
<1>1. Sorted(fs) = InOrder(fs, major, minor)
  BY DEF Sorted
<1>2. IsList(fs) /\ major \in [DOMAIN fs -> Int] /\ minor \in [DOMAIN fs -> Int]
  BY SortingKeysType DEF IsFindingList
<1> HIDE DEF major, minor
<1>3. /\ IsList(InOrder(fs, major, minor))
      /\ Range(InOrder(fs, major, minor)) = Range(fs)
  BY <1>2, InOrderPermutes
<1>4. \A i \in DOMAIN Sorted(fs) : Sorted(fs)[i] \in Range(fs)
  BY <1>1, <1>3 DEF Range
<1> QED BY <1>1, <1>3, <1>4 DEF IsFindingList, Range

\* Sorting findings for the report loses none, invents none, puts the more severe first,
\* and leaves what it sorted as it is.
LEMMA SortFindingsSorts ==
  ASSUME NEW fs, IsFindingList(fs)
  PROVE  /\ IsFindingList(SortFindings(fs))
         /\ Range(SortFindings(fs)) = Range(fs)
         /\ \A X : CountIn(SortFindings(fs), X) = CountIn(fs, X)
         /\ \A i, j \in DOMAIN SortFindings(fs) :
              i < j => SeverityRank(SortFindings(fs)[i]) <= SeverityRank(SortFindings(fs)[j])
         /\ SortFindings(SortFindings(fs)) = SortFindings(fs)
<1> DEFINE major == [i \in DOMAIN fs |-> SeverityRank(fs[i])]
           minor == [i \in DOMAIN fs |-> SortKey(fs[i])]
           O == Origin(fs, major, minor)
           g == InOrder(fs, major, minor)
           major2 == [i \in DOMAIN g |-> SeverityRank(g[i])]
           minor2 == [i \in DOMAIN g |-> SortKey(g[i])]
<1>1. SortFindings(fs) = g
  BY DEF SortFindings
<1>2. IsList(fs) /\ major \in [DOMAIN fs -> Int] /\ minor \in [DOMAIN fs -> Int]
  BY SortingKeysType DEF IsFindingList
<1>3. \A i \in DOMAIN fs : major[i] = SeverityRank(fs[i]) /\ minor[i] = SortKey(fs[i])
  OBVIOUS
<1>4. SortFindings(g) = InOrder(g, major2, minor2)
  BY DEF SortFindings
<1>5. \A i \in DOMAIN g : major2[i] = SeverityRank(g[i]) /\ minor2[i] = SortKey(g[i])
  OBVIOUS
<1> HIDE DEF major, minor
<1>6. /\ IsList(g)
      /\ DOMAIN g = DOMAIN fs
      /\ Range(g) = Range(fs)
  BY <1>2, InOrderPermutes
<1>6a. \A X : CountIn(g, X) = CountIn(fs, X)
  BY <1>2, InOrderPermutes
<1>7. /\ O \in Bijection(DOMAIN fs, DOMAIN fs)
      /\ g = [n \in DOMAIN fs |-> fs[O[n]]]
      /\ \A m, n \in DOMAIN fs : m < n =>
           Less(<<major[O[m]], minor[O[m]], O[m]>>, <<major[O[n]], minor[O[n]], O[n]>>)
  BY <1>2, InOrderSorts
<1>8. O \in [DOMAIN fs -> DOMAIN fs]
  BY <1>7 DEF Bijection, Injection
<1> HIDE DEF O, g
<1>9. IsFindingList(g)
  <2>1. \A i \in DOMAIN g : g[i] \in Range(fs)
    BY <1>6 DEF Range
  <2> QED BY <1>6, <2>1 DEF IsFindingList, Range
<1>10. major2 \in [DOMAIN g -> Int] /\ minor2 \in [DOMAIN g -> Int]
  BY <1>9, SortingKeysType
<1> HIDE DEF major2, minor2
<1>11. \A n \in DOMAIN g : major2[n] = major[O[n]] /\ minor2[n] = minor[O[n]]
  BY <1>3, <1>5, <1>6, <1>7, <1>8
<1>12. \A n \in DOMAIN g : major2[n] \in Int /\ minor2[n] \in Int
  BY <1>10
<1>13. ASSUME NEW m \in DOMAIN g, NEW n \in DOMAIN g, m < n
       PROVE  Less(<<major2[m], minor2[m], m>>, <<major2[n], minor2[n], n>>)
  <2>1. Less(<<major2[m], minor2[m], O[m]>>, <<major2[n], minor2[n], O[n]>>)
    BY <1>6, <1>7, <1>11, <1>13
  <2> QED BY <1>13, <2>1 DEF Less
<1>14. \A i, j \in DOMAIN g : i < j => SeverityRank(g[i]) <= SeverityRank(g[j])
  <2> SUFFICES ASSUME NEW i \in DOMAIN g, NEW j \in DOMAIN g, i < j
               PROVE  major2[i] <= major2[j]
    BY <1>5
  <2>1. major2[i] \in Int /\ major2[j] \in Int
    BY <1>12
  <2> QED BY <1>13, <2>1 DEF Less
<1>15. InOrder(g, major2, minor2) = g
  BY <1>6, <1>10, <1>13, InOrderKeepsSorted
<1> QED BY <1>1, <1>4, <1>6, <1>9, <1>14, <1>15, <1>6a

----------------------------------------------------------------------------
(* The steps.                                                              *)

\* Every stage hands on a list of what the next one reads; the report is that of the
\* findings, which nothing touches once they are sorted.
PipelineInv ==
  /\ payload \in Payloads
  /\ stage \in {"building", "resolving"}
  /\ phase \in {"waiting", "analysing", "sorted", "reported", "rendered"}
  /\ IsList(built) /\ Len(built) <= Len(payload)
  /\ \A i \in DOMAIN built : IsTop(built[i].top)
  /\ IsList(files) /\ Len(files) <= Len(built)
  /\ \A i \in DOMAIN files : IsFile(files[i])
  /\ IsFunctionList(todo)
  /\ IsFindingList(findings)
  /\ phase # "waiting" => Normalized
  /\ phase \in {"sorted", "reported", "rendered"} => todo = <<>>
  /\ phase \in {"reported", "rendered"} => report = ReportOf(files, findings)

\* A list with another element.
LEMMA AppendType ==
  ASSUME NEW s, IsList(s), NEW x
  PROVE  /\ IsList(Append(s, x)) /\ Len(Append(s, x)) = Len(s) + 1
         /\ \A i \in DOMAIN Append(s, x) : \/ i = Len(s) + 1 /\ Append(s, x)[i] = x
                                           \/ i \in DOMAIN s /\ Append(s, x)[i] = s[i]
<1> DEFINE S == {s[i] : i \in DOMAIN s} \cup {x}
           n == Len(s) + 1
           a == Append(s, x)
<1>1. s \in Seq(S) /\ x \in S
  <2>1. s \in Seq({s[i] : i \in DOMAIN s})
    BY DEF IsList
  <2>2. Len(s) \in Nat /\ s = [i \in 1 .. Len(s) |-> s[i]] /\ DOMAIN s = 1 .. Len(s)
    BY ListDomain
  <2>3. \A i \in 1 .. Len(s) : s[i] \in S
    BY <2>2
  <2> HIDE DEF S
  <2>4. s \in Seq(S)
    BY <2>2, <2>3
  <2> QED BY <2>4 DEF S
<1> HIDE DEF S
<1>2. /\ a \in Seq(S) /\ Len(a) = n
      /\ \A i \in 1 .. Len(s) : a[i] = s[i]
      /\ a[n] = x
  BY <1>1, AppendProperties
<1>3. Len(s) \in Nat /\ DOMAIN s = 1 .. Len(s)
  BY ListDomain
<1> HIDE DEF a
<1>4. Len(a) \in Nat /\ a = [i \in 1 .. Len(a) |-> a[i]]
  BY <1>2
<1>5. IsList(a) /\ DOMAIN a = 1 .. Len(a)
  BY <1>4, ListIntro
<1>6. \A i \in DOMAIN a : i = n \/ i \in DOMAIN s
  <2>1. Len(a) = Len(s) + 1
    BY <1>2
  <2> QED BY <1>3, <1>5, <2>1
<1>7. IsList(a) /\ Len(a) = Len(s) + 1
      /\ \A i \in DOMAIN a : (i = n /\ a[i] = x) \/ (i \in DOMAIN s /\ a[i] = s[i])
  BY <1>2, <1>3, <1>5, <1>6
<1> QED BY <1>7 DEF a

\* A list without its head, and the head of a list that is not empty.
LEMMA TailType ==
  ASSUME NEW s, IsFunctionList(s), s # <<>>
  PROVE  IsFunctionList(Tail(s)) /\ IsFunction(Head(s))
<1>1. Len(s) \in Nat /\ DOMAIN s = 1 .. Len(s) /\ s \in Seq({s[i] : i \in DOMAIN s})
  BY ListDomain DEF IsFunctionList, IsList
<1> DEFINE S == {s[i] : i \in DOMAIN s}
           t == Tail(s)
<1>2. Len(s) # 0 /\ Head(s) = s[1]
  BY <1>1
<1>3. \A x \in S : IsFunction(x)
  BY DEF IsFunctionList
<1> HIDE DEF S
<1>4. t \in Seq(S)
  BY <1>1, HeadTailProperties DEF S
<1> HIDE DEF t
<1>5. Len(t) \in Nat /\ t = [i \in 1 .. Len(t) |-> t[i]] /\ \A i \in 1 .. Len(t) : t[i] \in S
  BY <1>4
<1>6. IsList(t) /\ DOMAIN t = 1 .. Len(t)
  BY <1>5, ListIntro
<1>7. IsFunctionList(t)
  BY <1>3, <1>5, <1>6 DEF IsFunctionList
<1>8. IsFunction(Head(s))
  BY <1>1, <1>2 DEF IsFunctionList
<1> QED BY <1>7, <1>8 DEF t

\* Two lists of findings joined are a list of findings.
LEMMA FindingListJoin ==
  ASSUME NEW s, NEW t, IsFindingList(s), IsFindingList(t)
  PROVE  IsFindingList(s \o t)
<1> DEFINE both == s \o t
<1>1. /\ IsList(both)
      /\ \A n \in DOMAIN both : \/ \E j \in DOMAIN s : both[n] = s[j]
                               \/ \E j \in DOMAIN t : both[n] = t[j]
  BY ListJoin DEF IsFindingList
<1> HIDE DEF both
<1>2. \A n \in DOMAIN both : IsFinding(both[n])
  BY <1>1 DEF IsFindingList
<1> QED BY <1>1, <1>2 DEF IsFindingList, both

\* What is found in a function are findings in it.
LEMMA FoundType ==
  ASSUME NEW sym, IsFunction(sym)
  PROVE  /\ IsFindingList(Found(sym))
         /\ \A n \in DOMAIN Found(sym) : /\ Found(sym)[n].symbol = sym.id
                                         /\ Found(sym)[n].unsupported = sym.unsupported
BY AllRulesFind, ShortLists DEF Found, IsFindingList

\* A report of findings is as it is read back.
LEMMA NormalizeKeeps ==
  ASSUME NEW fs, NEW all, IsFindingList(all)
  PROVE  NormalizePayload(ReportOf(fs, all)) = ReportOf(fs, all)
<1> DEFINE r == ReportOf(fs, all)
<1>1. r.findings = SortFindings(all)
  BY DEF ReportOf
<1>2. SortFindings(r.findings) = r.findings
  BY <1>1, SortFindingsSorts
<1>3. [r EXCEPT !.findings = r.findings] = r
  BY DEF ReportOf
<1>4. NormalizePayload(r) = [r EXCEPT !.findings = SortFindings(r.findings)]
  BY DEF NormalizePayload
<1> HIDE DEF r
<1>5. NormalizePayload(r) = r
  BY <1>2, <1>3, <1>4
<1> QED BY <1>5 DEF r

\* The files of a payload in the order of their paths are files as they came.
LEMMA InPathOrderType ==
  ASSUME payload \in Payloads, NEW n \in DOMAIN payload
  PROVE  IsFilePayload(InPathOrder[n])
<1> DEFINE major == [i \in DOMAIN payload |-> payload[i].path]
           minor == [i \in DOMAIN payload |-> 0]
<1>1. IsList(payload) /\ \A i \in DOMAIN payload : IsFilePayload(payload[i])
  BY FrontendAssumption DEF IsPayload
<1>2. major \in [DOMAIN payload -> Int] /\ minor \in [DOMAIN payload -> Int]
  BY <1>1 DEF IsFilePayload
<1>3. InPathOrder = InOrder(payload, major, minor)
  BY DEF InPathOrder
<1> HIDE DEF major, minor
<1>4. /\ DOMAIN InOrder(payload, major, minor) = DOMAIN payload
      /\ Range(InOrder(payload, major, minor)) = Range(payload)
  BY <1>1, <1>2, InOrderPermutes
<1>5. InPathOrder[n] \in Range(payload)
  BY <1>3, <1>4 DEF Range
<1> QED BY <1>1, <1>5 DEF Range

\* At the start there is nothing but a payload.
LEMMA PipelineInit == Init => PipelineInv
<1> SUFFICES ASSUME Init PROVE PipelineInv
  OBVIOUS
<1> USE DEF Init, FrontendInit, FindingsInit
<1>1. IsList(<<>>) /\ DOMAIN <<>> = {} /\ Len(<<>>) = 0
  BY ShortLists
<1>2. IsList(payload)
  BY FrontendAssumption DEF IsPayload
<1>3. Len(payload) \in Nat
  BY <1>2, ListDomain
<1> QED BY <1>1, <1>3 DEF PipelineInv, IsFunctionList, IsFindingList

\* Every step keeps what the stages rely on.
LEMMA PipelineStep == PipelineInv /\ [Next]_vars => PipelineInv'
<1> SUFFICES ASSUME PipelineInv, [Next]_vars PROVE PipelineInv'
  OBVIOUS
<1>0. Len(payload) \in Nat /\ Len(built) \in Nat /\ Len(files) \in Nat
      /\ DOMAIN payload = 1 .. Len(payload) /\ DOMAIN built = 1 .. Len(built)
  BY FrontendAssumption, ListDomain DEF PipelineInv, IsPayload
<1>1. CASE BuildFile /\ UNCHANGED <<findingsVars, report>>
  <2> DEFINE file == InPathOrder[Len(built) + 1]
             new == [path |-> file.path, parse_ok |-> file.parse_ok,
                     top |-> FileSymbols(file), unsupported |-> file.unsupported]
  <2>1. built' = Append(built, new)
    BY <1>1 DEF BuildFile
  <2>2. Len(built) + 1 \in DOMAIN payload
    BY <1>0, <1>1 DEF BuildFile
  <2>3. IsFilePayload(file)
    BY <2>2, InPathOrderType DEF PipelineInv
  <2>4. IsTop(new.top)
    BY <2>3, FileSymbolsType
  <2> HIDE DEF new
  <2>5. /\ IsList(built') /\ Len(built') = Len(built) + 1
        /\ \A i \in DOMAIN built' : built'[i] = new \/ (i \in DOMAIN built /\ built'[i] = built[i])
    BY <2>1, AppendType DEF PipelineInv
  <2>6. \A i \in DOMAIN built' : IsTop(built'[i].top)
    BY <2>4, <2>5 DEF PipelineInv
  <2>7. Len(built') <= Len(payload) /\ Len(files) <= Len(built')
    BY <1>0, <1>1, <2>5 DEF PipelineInv, BuildFile
  <2>8. phase = "waiting"
    BY <1>1 DEF BuildFile, PipelineInv, Normalized
  <2> QED BY <1>1, <2>5, <2>6, <2>7, <2>8 DEF PipelineInv, BuildFile, findingsVars
<1>2. CASE IndexNames /\ UNCHANGED <<findingsVars, report>>
  <2>1. phase = "waiting"
    BY <1>2 DEF IndexNames, PipelineInv, Normalized
  <2> QED BY <1>2, <2>1 DEF PipelineInv, IndexNames, findingsVars
<1>3. CASE FinalizeFile /\ UNCHANGED <<findingsVars, report>>
  <2> DEFINE new == Finished(built[Len(files) + 1])
  <2>1. files' = Append(files, new)
    BY <1>3 DEF FinalizeFile
  <2>2. Len(files) + 1 \in DOMAIN built
    BY <1>0, <1>3 DEF FinalizeFile
  <2>3. IsFile(new)
    BY <2>2, FinishedType DEF PipelineInv
  <2> HIDE DEF new
  <2>4. /\ IsList(files') /\ Len(files') = Len(files) + 1
        /\ \A i \in DOMAIN files' : files'[i] = new \/ (i \in DOMAIN files /\ files'[i] = files[i])
    BY <2>1, AppendType DEF PipelineInv
  <2>5. \A i \in DOMAIN files' : IsFile(files'[i])
    BY <2>3, <2>4 DEF PipelineInv
  <2>6. Len(files') <= Len(built)
    BY <1>0, <1>3, <2>4 DEF FinalizeFile
  <2>7. phase = "waiting"
    BY <1>0, <1>3 DEF FinalizeFile, PipelineInv, Normalized
  <2> QED BY <1>3, <2>4, <2>5, <2>6, <2>7 DEF PipelineInv, FinalizeFile, findingsVars
<1>4. CASE HandOver
  <2>1. IsFunctionList(Selected(UnitSymbols))
    BY UnitType, SelectedType DEF PipelineInv
  <2>2. todo' = Selected(UnitSymbols) /\ phase' = "analysing" /\ findings' = findings
        /\ UNCHANGED <<frontendVars, report>> /\ Normalized
    BY <1>4 DEF HandOver, TakeUnit
  <2> QED BY <2>1, <2>2 DEF PipelineInv, frontendVars, Normalized
<1>5. CASE Analyze /\ UNCHANGED <<frontendVars, report>>
  <2>1. IsFunctionList(Tail(todo)) /\ IsFunction(Head(todo))
    BY <1>5, TailType DEF PipelineInv, Analyze
  <2>2. IsFindingList(findings')
    <3>1. IsFindingList(Found(Head(todo)))
      BY <2>1, FoundType
    <3>2. IsFindingList(findings \o Found(Head(todo)))
      BY <3>1, FindingListJoin DEF PipelineInv
    <3> QED BY <1>5, <3>2 DEF Analyze
  <2>3. todo' = Tail(todo) /\ phase' = phase /\ phase \notin {"sorted", "reported", "rendered"}
    BY <1>5 DEF Analyze, PipelineInv
  <2> QED BY <1>5, <2>1, <2>2, <2>3 DEF PipelineInv, frontendVars, Normalized
<1>6. CASE Finish /\ UNCHANGED <<frontendVars, report>>
  <2>1. IsFindingList(findings')
    BY <1>6, SortedType DEF Finish, PipelineInv
  <2> QED BY <1>6, <2>1 DEF PipelineInv, Finish, frontendVars, Normalized
<1>7. CASE WriteReport
  BY <1>7 DEF PipelineInv, WriteReport, frontendVars, Normalized
<1>8. CASE Rerender
  <2>1. report' = NormalizePayload(report) /\ report = ReportOf(files, findings)
    BY <1>8 DEF Rerender, PipelineInv
  <2>2. report' = report
    BY <2>1, NormalizeKeeps DEF PipelineInv
  <2> QED BY <1>8, <2>2 DEF PipelineInv, Rerender, frontendVars, Normalized
<1>9. CASE UNCHANGED vars
  BY <1>9 DEF PipelineInv, vars, frontendVars, findingsVars, Normalized
<1> QED BY <1>1, <1>2, <1>3, <1>4, <1>5, <1>6, <1>7, <1>8, <1>9
        DEF Next, Normalize, FrontendNext, AnalyzeUnit, FindingsNext

\* In every state the stages rely on, and so always.
THEOREM PipelineInvariant == Spec => []PipelineInv
BY PipelineInit, PipelineStep, PTL DEF Spec

----------------------------------------------------------------------------
(* From the payload to the unit.                                           *)

\* What the frontend builds of a file of the payload.
BuiltOf(p) == [path |-> p.path, parse_ok |-> p.parse_ok,
               top |-> FileSymbols(p), unsupported |-> p.unsupported]

\* What was built comes from the payload, file by file in the order of the paths; what is
\* finished comes from what was built, with the names of all files; and the unit is what is
\* finished, as the rules see it.
TraceInv ==
  /\ \A i \in DOMAIN built : built[i] = BuiltOf(InPathOrder[i])
  /\ stage = "building" => files = <<>>
  /\ stage = "resolving" => /\ Len(built) = Len(payload)
                            /\ index = CallableNames({file.top : file \in Range(built)})
  /\ \A i \in DOMAIN files : files[i] = Finished(built[i])
  /\ phase # "waiting" => unit = UnitSymbols

\* As long as the names stay the same, so does what a file becomes.
LEMMA FinishedStays ==
  ASSUME index' = index, NEW CONSTANT file
  PROVE  Finished(file)' = Finished(file)
<1>1. ASSUME NEW CONSTANT text PROVE Listed(text)' = Listed(text)
  BY DEF Listed
<1>2. ASSUME NEW CONSTANT text PROVE Meant(text)' = Meant(text)
  BY <1>1 DEF Meant
<1>3. ASSUME NEW CONSTANT text PROVE Resolved(text)' = Resolved(text)
  <2> DEFINE To(S) == [text |-> text,
                       status |-> IF S = {} THEN "unresolved"
                                  ELSE IF Cardinality(S) = 1 THEN "resolved" ELSE "ambiguous",
                       callee |-> IF Cardinality(S) = 1 THEN CHOOSE id \in S : TRUE ELSE Nobody]
  <2>1. Resolved(text) = To(Meant(text)) /\ Resolved(text)' = To(Meant(text)')
    BY DEF Resolved
  <2>2. Meant(text)' = Meant(text)
    BY <1>2
  <2> HIDE DEF To
  <2> QED BY <2>1, <2>2
<1>4. ASSUME NEW CONSTANT s PROVE ApplyResolution(s)' = ApplyResolution(s)
  BY <1>3 DEF ApplyResolution
<1> DEFINE records == Attached(file.unsupported, Flat(file.top))
           Done(s) == WithEligibility(file.parse_ok, ApplyResolution(s), records)
           Inner(e) == [i \in DOMAIN e.children |-> Done(e.children[i])]
           Entire(e) == [e EXCEPT !.symbol = Done(e.symbol), !.children = Inner(e)]
           top == [t \in DOMAIN file.top |-> Entire(file.top[t])]
<1>5. ASSUME NEW CONSTANT s PROVE Done(s)' = Done(s)
  BY <1>4
<1> HIDE DEF Done
<1>6. ASSUME NEW CONSTANT e PROVE Inner(e)' = Inner(e)
  BY <1>5
<1> HIDE DEF Inner
<1>7. ASSUME NEW CONSTANT e PROVE Entire(e)' = Entire(e)
  BY <1>5, <1>6
<1> HIDE DEF Entire
<1>8. top' = top
  BY <1>7
<1>9. Finished(file) = [path |-> file.path, top |-> top, records |-> records,
                        eligibility |-> ClassifyFile(file.parse_ok, top, records)]
  BY DEF Finished, Done, Inner, Entire
<1>10. Finished(file)' = [path |-> file.path, top |-> top', records |-> records,
                          eligibility |-> ClassifyFile(file.parse_ok, top', records)]
  BY DEF Finished, Done, Inner, Entire
<1> HIDE DEF top, records
<1> QED BY <1>8, <1>9, <1>10

\* As long as the files stay the same, so does what the rules see of them.
LEMMA UnitStays == files' = files => UnitSymbols' = UnitSymbols
<1> SUFFICES ASSUME files' = files PROVE UnitSymbols' = UnitSymbols
  OBVIOUS
<1>1. ASSUME NEW CONSTANT id PROVE Throws(id)' = Throws(id)
  BY DEF Throws
<1>2. ASSUME NEW CONSTANT s, NEW CONSTANT call PROVE TryFacts(s, call)' = TryFacts(s, call)
  BY <1>1 DEF TryFacts
<1>3. ASSUME NEW CONSTANT s, NEW CONSTANT rule, NEW CONSTANT e PROVE Placed(s, rule, e)' = Placed(s, rule, e)
  BY <1>2 DEF Placed
<1>4. ASSUME NEW CONSTANT s PROVE EventsOf(s)' = EventsOf(s)
  BY <1>3 DEF EventsOf
<1>5. ASSUME NEW CONSTANT s PROVE Seen(s)' = Seen(s)
  BY <1>4 DEF Seen
<1> QED BY <1>5 DEF UnitSymbols

LEMMA TraceInit == Init => TraceInv
BY ShortLists DEF Init, FrontendInit, FindingsInit, TraceInv

LEMMA TraceStep == PipelineInv /\ TraceInv /\ [Next]_vars => TraceInv'
<1> SUFFICES ASSUME PipelineInv, TraceInv, [Next]_vars PROVE TraceInv'
  OBVIOUS
<1>1. CASE BuildFile /\ UNCHANGED <<findingsVars, report>>
  <2> DEFINE n == Len(built) + 1
             file == InPathOrder[n]
  <2>1. /\ built' = Append(built, BuiltOf(file))
        /\ payload' = payload /\ files' = files /\ stage' = stage /\ stage = "building"
    BY <1>1 DEF BuildFile, BuiltOf
  <2>2. InPathOrder' = InPathOrder
    BY <2>1 DEF InPathOrder
  <2>3. \A i \in DOMAIN built' : \/ i = n /\ built'[i] = BuiltOf(file)
                                 \/ i \in DOMAIN built /\ built'[i] = built[i]
    <3> DEFINE new == BuiltOf(file)
    <3> HIDE DEF new
    <3> QED BY <2>1, AppendType DEF PipelineInv, new
  <2>4. \A i \in DOMAIN built' : built'[i] = BuiltOf(InPathOrder'[i])
    BY <2>2, <2>3 DEF TraceInv
  <2>5. phase = "waiting" /\ phase' = phase
    BY <1>1 DEF BuildFile, PipelineInv, Normalized, findingsVars
  <2>6. files = <<>>
    BY <2>1 DEF TraceInv
  <2> QED BY <2>1, <2>4, <2>5, <2>6, ShortLists DEF TraceInv
<1>2. CASE IndexNames /\ UNCHANGED <<findingsVars, report>>
  <2>1. /\ built' = built /\ payload' = payload /\ files' = files /\ files = <<>>
        /\ stage' = "resolving" /\ Len(built) = Len(payload)
        /\ index' = CallableNames({file.top : file \in Range(built)})
    BY <1>2 DEF IndexNames, TraceInv
  <2>2. InPathOrder' = InPathOrder
    BY <2>1 DEF InPathOrder
  <2>3. phase = "waiting" /\ phase' = phase
    BY <1>2 DEF IndexNames, PipelineInv, Normalized, findingsVars
  <2>4. \A i \in DOMAIN built' : built'[i] = BuiltOf(InPathOrder'[i])
    BY <2>1, <2>2 DEF TraceInv
  <2> QED BY <2>1, <2>3, <2>4, ShortLists DEF TraceInv
<1>3. CASE FinalizeFile /\ UNCHANGED <<findingsVars, report>>
  <2> DEFINE n == Len(files) + 1
             new == Finished(built[n])
  <2>1. /\ files' = Append(files, new)
        /\ built' = built /\ payload' = payload /\ index' = index /\ stage' = stage
        /\ stage = "resolving" /\ Len(files) < Len(built)
    BY <1>3 DEF FinalizeFile
  <2>2. InPathOrder' = InPathOrder
    BY <2>1 DEF InPathOrder
  <2>3. \A i \in DOMAIN files' : \/ i = n /\ files'[i] = new
                                 \/ i \in DOMAIN files /\ files'[i] = files[i]
    <3> HIDE DEF new
    <3> QED BY <2>1, AppendType DEF PipelineInv
  <2>4. \A i \in DOMAIN files' : files'[i] = Finished(built[i])
    BY <2>3 DEF TraceInv
  <2>5. ASSUME NEW i \in DOMAIN files' PROVE (files[i] = Finished(built[i]))'
    <3>1. PICK file : file = built[i]
      OBVIOUS
    <3>2. Finished(file)' = Finished(file)
      BY <2>1, FinishedStays
    <3>3. built'[i] = file
      BY <2>1, <3>1
    <3> QED BY <2>4, <3>1, <3>2, <3>3
  <2>6. Len(files) \in Nat /\ Len(built) \in Nat
    BY ListDomain DEF PipelineInv
  <2>7. phase = "waiting" /\ phase' = phase
    BY <1>3, <2>1, <2>6 DEF PipelineInv, Normalized, findingsVars
  <2>8. \A i \in DOMAIN built' : built'[i] = BuiltOf(InPathOrder'[i])
    BY <2>1, <2>2 DEF TraceInv
  <2>9. stage' = "resolving" => /\ Len(built') = Len(payload')
                                /\ index' = CallableNames({file.top : file \in Range(built')})
    BY <2>1 DEF TraceInv
  <2> QED BY <2>1, <2>5, <2>7, <2>8, <2>9 DEF TraceInv
<1>4. CASE UNCHANGED frontendVars
  <2>1. /\ built' = built /\ payload' = payload /\ index' = index /\ stage' = stage /\ files' = files
    BY <1>4 DEF frontendVars
  <2>2. InPathOrder' = InPathOrder
    BY <2>1 DEF InPathOrder
  <2>3. ASSUME NEW i \in DOMAIN files' PROVE (files[i] = Finished(built[i]))'
    <3>1. PICK file : file = built[i]
      OBVIOUS
    <3>2. Finished(file)' = Finished(file)
      BY <2>1, FinishedStays
    <3>3. files[i] = Finished(file)
      BY <2>1, <3>1 DEF TraceInv
    <3> QED BY <2>1, <3>1, <3>2, <3>3
  <2>4. UnitSymbols' = UnitSymbols
    BY <2>1, UnitStays
  <2>5. \/ phase' = phase /\ unit' = unit
        \/ unit' = UnitSymbols
        \/ phase # "waiting" /\ unit' = unit
    BY <1>4 DEF Next, Normalize, FrontendNext, BuildFile, IndexNames, FinalizeFile, HandOver, TakeUnit,
                AnalyzeUnit, FindingsNext, Analyze, Finish, WriteReport, Rerender, vars, findingsVars
  <2>6. phase' # "waiting" => unit' = UnitSymbols'
    BY <2>4, <2>5 DEF TraceInv
  <2>7. \A i \in DOMAIN built' : built'[i] = BuiltOf(InPathOrder'[i])
    BY <2>1, <2>2 DEF TraceInv
  <2>8. /\ stage' = "building" => files' = <<>>
        /\ stage' = "resolving" => /\ Len(built') = Len(payload')
                                   /\ index' = CallableNames({file.top : file \in Range(built')})
    BY <2>1 DEF TraceInv
  <2> QED BY <2>3, <2>6, <2>7, <2>8 DEF TraceInv
<1> QED BY <1>1, <1>2, <1>3, <1>4
        DEF Next, Normalize, FrontendNext, HandOver, AnalyzeUnit, WriteReport, Rerender, vars

\* What the report is about is what the helper answered.
THEOREM TraceInvariant == Spec => []TraceInv
BY PipelineInvariant, TraceInit, TraceStep, PTL DEF Spec

\* The files in the order of their paths are those of the payload.
LEMMA OrderKeeps ==
  ASSUME payload \in Payloads
  PROVE  DOMAIN InPathOrder = DOMAIN payload /\ Range(InPathOrder) = Range(payload)
<1> DEFINE major == [i \in DOMAIN payload |-> payload[i].path]
           minor == [i \in DOMAIN payload |-> 0]
<1>1. IsList(payload) /\ \A i \in DOMAIN payload : IsFilePayload(payload[i])
  BY FrontendAssumption DEF IsPayload
<1>2. major \in [DOMAIN payload -> Int] /\ minor \in [DOMAIN payload -> Int]
  BY <1>1 DEF IsFilePayload
<1>3. InPathOrder = InOrder(payload, major, minor)
  BY DEF InPathOrder
<1> HIDE DEF major, minor
<1> QED BY <1>1, <1>2, <1>3, InOrderPermutes

\* What a file is finished from.
LEMMA FilesFrom ==
  ASSUME PipelineInv, TraceInv, NEW i \in DOMAIN files
  PROVE  \E p \in Range(payload) :
           /\ i \in DOMAIN built /\ built[i] = BuiltOf(p)
           /\ files[i] = Finished(BuiltOf(p))
           /\ IsFilePayload(p)
<1>1. /\ DOMAIN files = 1 .. Len(files) /\ DOMAIN built = 1 .. Len(built)
      /\ Len(files) \in Nat /\ Len(built) \in Nat /\ Len(files) <= Len(built)
  BY ListDomain DEF PipelineInv
<1>2. i \in DOMAIN built
  BY <1>1
<1>3. /\ DOMAIN payload = 1 .. Len(payload) /\ Len(payload) \in Nat /\ Len(built) <= Len(payload)
      /\ \A j \in DOMAIN payload : IsFilePayload(payload[j])
  BY FrontendAssumption, ListDomain DEF PipelineInv, IsPayload
<1>4. i \in DOMAIN payload
  BY <1>1, <1>2, <1>3
<1>5. InPathOrder[i] \in Range(payload)
  BY <1>4, OrderKeeps DEF PipelineInv, Range
<1>6. built[i] = BuiltOf(InPathOrder[i]) /\ files[i] = Finished(built[i])
  BY <1>2 DEF TraceInv
<1>7. IsFilePayload(InPathOrder[i])
  BY <1>3, <1>5 DEF Range
<1> QED BY <1>2, <1>5, <1>6, <1>7

\* In the end every file of the payload is finished.
LEMMA AllFinished ==
  ASSUME PipelineInv, TraceInv, Normalized, NEW p \in Range(payload)
  PROVE  \E i \in DOMAIN files : i \in DOMAIN built /\ built[i] = BuiltOf(p) /\ files[i] = Finished(BuiltOf(p))
<1>1. /\ DOMAIN files = 1 .. Len(files) /\ DOMAIN built = 1 .. Len(built)
      /\ Len(files) = Len(built) /\ Len(built) = Len(payload)
  BY ListDomain DEF PipelineInv, TraceInv, Normalized
<1>2. DOMAIN payload = 1 .. Len(payload)
  BY FrontendAssumption, ListDomain DEF PipelineInv, IsPayload
<1>3. PICK i \in DOMAIN payload : InPathOrder[i] = p
  BY OrderKeeps DEF PipelineInv, Range
<1>4. i \in DOMAIN files /\ i \in DOMAIN built
  BY <1>1, <1>2
<1> QED BY <1>3, <1>4 DEF TraceInv

\* The symbols of a finished file.
LEMMA FinishedSymbols ==
  ASSUME NEW p, IsFilePayload(p)
  PROVE  /\ IsTop(BuiltOf(p).top)
         /\ Range(Flat(BuiltOf(p).top)) = SymbolsIn(p)
         /\ Range(SymbolsOf(Finished(BuiltOf(p)))) = {DoneOf(BuiltOf(p), x) : x \in SymbolsIn(p)}
<1>1. BuiltOf(p).top = FileSymbols(p) /\ IsTop(BuiltOf(p).top)
  BY FileSymbolsType DEF BuiltOf
<1>2. Range(Flat(BuiltOf(p).top)) = SymbolsIn(p)
  BY <1>1, SymbolsAre
<1> QED BY <1>1, <1>2, FinishedHas

\* The unit has the symbols of the files of the payload, and no others.
LEMMA UnitHas ==
  ASSUME PipelineInv, TraceInv, phase # "waiting", NEW u
  PROVE  u \in Range(unit) <=>
           \E p \in Range(payload) : \E x \in SymbolsIn(p) : u = Seen(DoneOf(BuiltOf(p), x))
<1> DEFINE seen(i) == [j \in DOMAIN SymbolsOf(files[i]) |-> Seen(SymbolsOf(files[i])[j])]
           ss == [i \in DOMAIN files |-> seen(i)]
<1>1. unit = Concatenated(ss)
  BY DEF TraceInv, UnitSymbols
<1>2. Len(files) \in Nat /\ DOMAIN files = 1 .. Len(files)
  BY ListDomain DEF PipelineInv
<1>3. IsList(ss) /\ DOMAIN ss = DOMAIN files
  BY <1>2, ListIntro
<1>4. ASSUME NEW i \in DOMAIN files
      PROVE  IsList(ss[i]) /\ Range(ss[i]) = {Seen(s) : s \in Range(SymbolsOf(files[i]))}
  <2>1. ss[i] = seen(i)
    OBVIOUS
  <2>2. IsSymbolList(SymbolsOf(files[i]))
    BY FlatType DEF IsFile, SymbolsOf, PipelineInv
  <2>3. Len(SymbolsOf(files[i])) \in Nat /\ DOMAIN SymbolsOf(files[i]) = 1 .. Len(SymbolsOf(files[i]))
    BY <2>2, ListDomain DEF IsSymbolList
  <2>4. IsList(seen(i))
    BY <2>3, ListIntro
  <2>5. Range(seen(i)) = {Seen(s) : s \in Range(SymbolsOf(files[i]))}
    BY DEF Range
  <2> HIDE DEF ss, seen
  <2> QED BY <2>1, <2>4, <2>5
<1> HIDE DEF ss
<1>5. /\ \A n \in DOMAIN Concatenated(ss) :
           \E i \in DOMAIN ss : \E j \in DOMAIN ss[i] : Concatenated(ss)[n] = ss[i][j]
      /\ \A i \in DOMAIN ss : \A j \in DOMAIN ss[i] :
           \E n \in DOMAIN Concatenated(ss) : Concatenated(ss)[n] = ss[i][j]
  BY <1>3, <1>4, ConcatenatedHasAll
<1>6. u \in Range(unit) <=> \E i \in DOMAIN files : u \in Range(ss[i])
  BY <1>1, <1>3, <1>5 DEF Range
<1>7. u \in Range(unit) <=> \E i \in DOMAIN files : \E s \in Range(SymbolsOf(files[i])) : u = Seen(s)
  BY <1>4, <1>6
<1>8. Normalized
  BY DEF PipelineInv
<1>9. ASSUME NEW i \in DOMAIN files, NEW s \in Range(SymbolsOf(files[i]))
      PROVE  \E p \in Range(payload) : \E x \in SymbolsIn(p) : s = DoneOf(BuiltOf(p), x)
  <2>1. PICK p \in Range(payload) : files[i] = Finished(BuiltOf(p)) /\ IsFilePayload(p)
    BY FilesFrom
  <2> QED BY <2>1, FinishedSymbols
<1>10. ASSUME NEW p \in Range(payload), NEW x \in SymbolsIn(p)
       PROVE  \E i \in DOMAIN files : DoneOf(BuiltOf(p), x) \in Range(SymbolsOf(files[i]))
  <2>1. PICK i \in DOMAIN files : files[i] = Finished(BuiltOf(p))
    BY <1>8, AllFinished
  <2>2. IsFilePayload(p)
    BY FrontendAssumption DEF PipelineInv, IsPayload, Range
  <2> QED BY <2>1, <2>2, FinishedSymbols
<1> QED BY <1>7, <1>9, <1>10

----------------------------------------------------------------------------
(* Which function a symbol is.                                             *)

\* The symbol of a function of a file.
SymbolOf(p, f) == FunctionSymbol(p.path, f, Prefix(f, p))

\* A type is nothing one can call, and has no body.
LEMMA SymbolOfType ==
  ASSUME NEW p, IsFilePayload(p), NEW t \in Range(p.types)
  PROVE  LET x == TypeSymbol(p.path, t)
         IN  /\ IsSymbol(x) /\ x.loc = t.loc /\ x.body = NoBody /\ x.code.calls = <<>>
             /\ x.kind \notin Callable
             /\ x.id[1] = p.path /\ x.id[4] = At(t.loc)
<1>1. t.kind \in TypeKinds /\ p.path \in Int
  BY DEF IsFilePayload
<1>2. SymbolKind(t.kind) = t.kind /\ t.kind \notin Callable
  BY <1>1 DEF SymbolKind, TypeKinds, Callable
<1> QED BY <1>1, <1>2, TypeSymbolType DEF TypeSymbol, Symbol, SymbolId, NoCode

\* A name qualified by a list of names ends with itself, and is longer unless there is none.
LEMMA Qualified ==
  ASSUME NEW prefix, IsList(prefix), NEW name
  PROVE  /\ prefix \o <<name>> # <<>> /\ Last(prefix \o <<name>>) = name
         /\ Len(prefix \o <<name>>) = Len(prefix) + 1 /\ Len(prefix) \in Nat
<1> DEFINE S == Range(prefix) \cup {name}
           q == prefix \o <<name>>
<1>1. prefix \in Seq(S) /\ <<name>> \in Seq(S) /\ Len(prefix) \in Nat
  <2>1. Len(prefix) \in Nat /\ DOMAIN prefix = 1 .. Len(prefix) /\ prefix = [i \in 1 .. Len(prefix) |-> prefix[i]]
    BY ListDomain
  <2>2. \A i \in 1 .. Len(prefix) : prefix[i] \in S
    BY <2>1 DEF Range
  <2>3. name \in S
    OBVIOUS
  <2> HIDE DEF S
  <2> QED BY <2>1, <2>2, <2>3
<1> HIDE DEF S
<1>2. q \in Seq(S) /\ Len(q) = Len(prefix) + 1 /\ q[Len(prefix) + 1] = name
  BY <1>1
<1>3. q # <<>> /\ Last(q) = name
  BY <1>1, <1>2 DEF Last
<1> QED BY <1>1, <1>2, <1>3 DEF q

\* The type a function belongs to has a name, so only a function of none has a short name.
LEMMA PrefixType ==
  ASSUME NEW p, IsFilePayload(p), NEW f
  PROVE  /\ IsList(Prefix(f, p))
         /\ Len(Prefix(f, p)) = 0 <=> Parent(f, p) = 0
<1> DEFINE types == Types(p)
           n == Parent(f, p)
<1>1. IsList(p.types) /\ \A t \in DOMAIN p.types : IsLoc(p.types[t].loc)
  BY DEF IsFilePayload, Range
<1>2. /\ IsList(types)
      /\ \A t \in DOMAIN types : \E j \in DOMAIN p.types : types[t] = p.types[j]
  BY <1>1, ByPlaceKeeps DEF Types
<1>3. \A t \in DOMAIN p.types : IsList(p.types[t].name) /\ p.types[t].name # <<>>
  BY DEF IsFilePayload, Range
<1> HIDE DEF types
<1>4. n = 0 \/ n \in DOMAIN types
  BY <1>1, <1>2, ParentOfType DEF Parent, types
<1>5. 0 \notin DOMAIN types
  BY <1>2, ListDomain
<1>6. Prefix(f, p) = IF n = 0 THEN <<>> ELSE types[n].name
  BY DEF Prefix, types
<1> HIDE DEF n
<1>7. CASE n = 0
  <2>1. Prefix(f, p) = <<>> /\ IsList(<<>>) /\ Len(<<>>) = 0
    BY <1>6, <1>7, ShortLists
  <2> QED BY <1>7, <2>1 DEF n
<1>8. CASE n # 0
  <2>1. IsList(types[n].name) /\ types[n].name # <<>>
    BY <1>2, <1>3, <1>4, <1>8
  <2>2. Len(types[n].name) # 0
    BY <2>1, ListDomain
  <2> QED BY <1>6, <1>8, <2>1, <2>2 DEF n
<1> QED BY <1>7, <1>8

LEMMA SymbolOfFunction ==
  ASSUME NEW p, IsFilePayload(p), NEW f \in Range(p.functions)
  PROVE  LET x == SymbolOf(p, f)
         IN  /\ IsSymbol(x) /\ x \in SymbolsIn(p)
             /\ x.loc = f.loc /\ x.body = f.body /\ x.code = f.code
             /\ x.kind \in Callable
             /\ x.name = <<f.name>>
             /\ x.id[1] = p.path /\ x.id[3] = x.qname /\ x.id[4] = At(f.loc)
             /\ x.qname # <<>> /\ Last(x.qname) = f.name
             /\ Len(x.qname) = 1 <=> Parent(f, p) = 0
<1>1. p.path \in Int /\ IsCode(f.code) /\ f.kind \notin TypeKinds \cup {"closure"}
  BY DEF IsFilePayload
<1>2. SymbolKind(f.kind) \in Callable
  BY <1>1 DEF SymbolKind, Callable
<1>3. IsSymbol(SymbolOf(p, f))
  BY <1>1, FunctionSymbolType DEF SymbolOf
<1>4. SymbolOf(p, f) \in SymbolsIn(p)
  BY DEF SymbolOf, SymbolsIn, FunctionsIn
<1> DEFINE prefix == Prefix(f, p)
           q == prefix \o <<f.name>>
           x == SymbolOf(p, f)
<1>5. /\ q # <<>> /\ Last(q) = f.name
      /\ Len(q) = Len(prefix) + 1 /\ Len(prefix) \in Nat
  BY PrefixType, Qualified
<1>6. Len(q) = 1 <=> Parent(f, p) = 0
  BY <1>5, PrefixType
<1>7. /\ x.loc = f.loc /\ x.body = f.body /\ x.code = f.code
      /\ x.kind = SymbolKind(f.kind) /\ x.name = <<f.name>> /\ x.qname = q
      /\ x.id[1] = p.path /\ x.id[3] = q /\ x.id[4] = At(f.loc)
  BY DEF SymbolOf, FunctionSymbol, Symbol, SymbolId
<1> HIDE DEF q, x
<1> QED BY <1>2, <1>3, <1>4, <1>5, <1>6, <1>7 DEF x

\* The symbols of a file are those of its types and those of its functions.
LEMMA SymbolsInAre ==
  ASSUME NEW p, NEW x
  PROVE  x \in SymbolsIn(p) <=> \/ \E t \in Range(p.types) : x = TypeSymbol(p.path, t)
                                \/ \E f \in Range(p.functions) : x = SymbolOf(p, f)
BY DEF SymbolsIn, TypesOf, FunctionsIn, SymbolOf

\* The functions of the payload are those of its files.
LEMMA FunctionsAre ==
  ASSUME payload \in Payloads
  PROVE  /\ \A k \in Functions :
              /\ payload[k[1]] \in Range(payload) /\ IsFilePayload(payload[k[1]])
              /\ Fn(k) \in Range(payload[k[1]].functions)
         /\ \A p \in Range(payload) :
              /\ IsFilePayload(p)
              /\ \A f \in Range(p.functions) : \E k \in Functions : payload[k[1]] = p /\ Fn(k) = f
<1>1. \A i \in DOMAIN payload : IsFilePayload(payload[i])
  BY FrontendAssumption DEF IsPayload
<1>2. ASSUME NEW k \in Functions
      PROVE  k[1] \in DOMAIN payload /\ k[2] \in DOMAIN payload[k[1]].functions
  BY DEF Functions
<1>3. ASSUME NEW p \in Range(payload), NEW f \in Range(p.functions)
      PROVE  \E k \in Functions : payload[k[1]] = p /\ Fn(k) = f
  <2>1. PICK i \in DOMAIN payload : payload[i] = p
    BY DEF Range
  <2>2. PICK j \in DOMAIN p.functions : p.functions[j] = f
    BY DEF Range
  <2> DEFINE k == <<i, j>>
  <2>3. k \in Functions
    BY <2>1, <2>2 DEF Functions
  <2>4. payload[k[1]] = p /\ Fn(k) = f
    BY <2>1, <2>2 DEF Fn
  <2> QED BY <2>3, <2>4
<1> QED BY <1>1, <1>2, <1>3 DEF Range, Fn

\* A symbol's id is that of a function just if it is its symbol: no two functions and no
\* function and type have the same place in one file.
LEMMA IdsTell ==
  ASSUME payload \in Payloads, NEW k \in Functions, NEW p \in Range(payload), NEW x \in SymbolsIn(p)
  PROVE  IsOf(x.id, k) <=> p = payload[k[1]] /\ x = SymbolOf(p, Fn(k))
<1> DEFINE q == payload[k[1]]
           g == Fn(k)
<1>1. q \in Range(payload) /\ IsFilePayload(q) /\ IsFilePayload(p) /\ g \in Range(q.functions)
  BY FunctionsAre
<1>2. p.path = q.path => p = q
  <2>1. \A i, j \in DOMAIN payload : payload[i].path = payload[j].path => i = j
    BY FrontendAssumption DEF IsPayload
  <2> QED BY <1>1, <2>1 DEF Range
<1>3. IsOf(x.id, k) <=> x.id[1] = q.path /\ x.id[4] = At(g.loc) /\ Last(x.id[3]) = g.name
  BY DEF IsOf
<1> HIDE DEF q, g
<1>4. p = q /\ x = SymbolOf(p, g) => IsOf(x.id, k)
  BY <1>1, <1>3, SymbolOfFunction
<1>5. ASSUME IsOf(x.id, k) PROVE p = q /\ x = SymbolOf(p, g)
  <2>1. ASSUME NEW t \in Range(p.types), x = TypeSymbol(p.path, t) PROVE FALSE
    <3>1. p = q /\ At(t.loc) = At(g.loc)
      BY <1>1, <1>2, <1>3, <1>5, <2>1, SymbolOfType
    <3> QED BY <1>1, <3>1 DEF IsFilePayload
  <2>2. ASSUME NEW f \in Range(p.functions), x = SymbolOf(p, f) PROVE p = q /\ f = g
    <3>1. p = q /\ At(f.loc) = At(g.loc) /\ f.name = g.name
      BY <1>1, <1>2, <1>3, <1>5, <2>2, SymbolOfFunction
    <3> QED BY <1>1, <3>1 DEF IsFilePayload
  <2> QED BY <2>1, <2>2, SymbolsInAre
<1> QED BY <1>4, <1>5 DEF q, g

----------------------------------------------------------------------------
(* Function by function.                                                   *)

InPlace(fs) ==
  \A m, n \in DOMAIN fs :
    m < n => Less(<<fs[m].place, Rank(fs[m].rule), m>>, <<fs[n].place, Rank(fs[n].rule), n>>)

OnceEach(fs) == \A m, n \in DOMAIN fs : SortKey(fs[m]) = SortKey(fs[n]) => m = n

\* How many of the selected functions are analysed.
Analysed == Len(Selected(unit)) - Len(todo)

\* The findings of X with the id of a function.
Of(X, id) == {f \in X : f.symbol = id}

\* The findings are what was found in the functions analysed so far, each as often, and in
\* the end they are in place.
FoundInv ==
  LET L == Selected(unit)
  IN  /\ IsFunctionList(unit)
      /\ phase = "waiting" => todo = <<>> /\ findings = <<>>
      /\ phase # "waiting" =>
           /\ Analysed \in 0 .. Len(L)
           /\ \A i \in DOMAIN todo : todo[i] = L[Analysed + i]
           /\ Range(findings) = UNION {Range(Found(L[i])) : i \in 1 .. Analysed}
           /\ \A i \in DOMAIN L : \A X :
                CountIn(findings, Of(X, L[i].id))
                  = IF i <= Analysed THEN CountIn(Found(L[i]), X) ELSE 0
      /\ phase \in {"sorted", "reported", "rendered"} => InPlace(findings)

\* Sorted findings are in place, and as many of each kind.
LEMMA SortedInPlace ==
  ASSUME NEW fs, IsFindingList(fs)
  PROVE  /\ InPlace(Sorted(fs))
         /\ Range(Sorted(fs)) = Range(fs)
         /\ \A X : CountIn(Sorted(fs), X) = CountIn(fs, X)
         /\ IsFindingList(Sorted(fs))
         /\ OnceEach(fs) => OnceEach(Sorted(fs))
<1> DEFINE major == [i \in DOMAIN fs |-> fs[i].place]
           minor == [i \in DOMAIN fs |-> Rank(fs[i].rule)]
           O == Origin(fs, major, minor)
           g == InOrder(fs, major, minor)
<1>1. Sorted(fs) = g
  BY DEF Sorted
<1>2. IsList(fs) /\ major \in [DOMAIN fs -> Int] /\ minor \in [DOMAIN fs -> Int]
  BY SortingKeysType DEF IsFindingList
<1>3. \A i \in DOMAIN fs : major[i] = fs[i].place /\ minor[i] = Rank(fs[i].rule)
  OBVIOUS
<1> HIDE DEF major, minor
<1>4. /\ IsList(g) /\ DOMAIN g = DOMAIN fs /\ Range(g) = Range(fs)
      /\ \A X : CountIn(g, X) = CountIn(fs, X)
  BY <1>2, InOrderPermutes
<1>5. /\ O \in Bijection(DOMAIN fs, DOMAIN fs)
      /\ g = [n \in DOMAIN fs |-> fs[O[n]]]
      /\ \A m, n \in DOMAIN fs : m < n =>
           Less(<<major[O[m]], minor[O[m]], O[m]>>, <<major[O[n]], minor[O[n]], O[n]>>)
  BY <1>2, InOrderSorts
<1>6. O \in [DOMAIN fs -> DOMAIN fs]
  BY <1>5 DEF Bijection, Injection
<1> HIDE DEF O, g
<1>7. \A n \in DOMAIN fs : /\ g[n].place = major[O[n]] /\ Rank(g[n].rule) = minor[O[n]]
  BY <1>3, <1>5, <1>6
<1>8. ASSUME NEW m \in DOMAIN g, NEW n \in DOMAIN g, m < n
      PROVE  Less(<<g[m].place, Rank(g[m].rule), m>>, <<g[n].place, Rank(g[n].rule), n>>)
  <2>1. Less(<<g[m].place, Rank(g[m].rule), O[m]>>, <<g[n].place, Rank(g[n].rule), O[n]>>)
    BY <1>4, <1>5, <1>7, <1>8
  <2> QED BY <1>8, <2>1 DEF Less
<1>9. InPlace(g)
  BY <1>8 DEF InPlace
<1>10. OnceEach(fs) => OnceEach(g)
  BY <1>4, <1>5, <1>6 DEF OnceEach, Bijection, Injection, IsInjective
<1>11. IsFindingList(g)
  BY <1>4, <1>5, <1>6 DEF IsFindingList
<1> QED BY <1>1, <1>4, <1>9, <1>10, <1>11

\* Of the findings with one function's id, those found in a function are all if it is that
\* function, and none if it is another.
LEMMA CountByFunction ==
  ASSUME NEW sym, IsFunction(sym), NEW id, NEW X
  PROVE  CountIn(Found(sym), Of(X, id))
           = IF id = sym.id THEN CountIn(Found(sym), X) ELSE 0
<1> DEFINE t == Found(sym)
           Y == Of(X, id)
<1>1. \A n \in DOMAIN t : t[n].symbol = sym.id
  BY FoundType
<1> HIDE DEF t
<1>2. CASE id = sym.id
  <2>1. {n \in DOMAIN t : t[n] \in Y} = {n \in DOMAIN t : t[n] \in X}
    BY <1>1, <1>2 DEF Of
  <2> QED BY <1>2, <2>1 DEF CountIn, t
<1>3. CASE id # sym.id
  <2>1. {n \in DOMAIN t : t[n] \in Y} = {}
    BY <1>1, <1>3 DEF Of
  <2> QED BY <1>3, <2>1, FS_EmptySet DEF CountIn, t
<1> QED BY <1>2, <1>3

\* Analysing the next function adds what is found in it.
LEMMA AnalyzeFinds ==
  ASSUME PipelineInv, FoundInv, Analyze
  PROVE  FoundInv'
<1> DEFINE L == Selected(unit)
           n == Analysed
           sym == Head(todo)
           t == Found(sym)
<1>1. phase = "analysing"
  BY DEF PipelineInv, FoundInv, Analyze
<1>2. /\ IsList(todo) /\ Len(todo) \in Nat /\ Len(todo) # 0 /\ DOMAIN todo = 1 .. Len(todo)
      /\ Head(todo) = todo[1]
      /\ Len(Tail(todo)) = Len(todo) - 1
      /\ DOMAIN Tail(todo) = 1 .. Len(todo) - 1
      /\ \A i \in 1 .. Len(todo) - 1 : Tail(todo)[i] = todo[i + 1]
  <2>1. /\ IsList(todo) /\ Len(todo) \in Nat /\ DOMAIN todo = 1 .. Len(todo)
        /\ todo \in Seq({todo[i] : i \in DOMAIN todo})
    BY ListDomain DEF PipelineInv, IsFunctionList, IsList
  <2>2. todo # <<>>
    BY DEF Analyze
  <2> DEFINE S == {todo[i] : i \in DOMAIN todo}
  <2> HIDE DEF S
  <2>3. todo \in Seq(S)
    BY <2>1 DEF S
  <2> QED BY <2>1, <2>2, <2>3
<1>3. /\ IsFunctionList(L)
      /\ \A i, j \in DOMAIN L : L[i].id = L[j].id => i = j
  BY SelectedType DEF FoundInv
<1>4. Len(L) \in Nat /\ DOMAIN L = 1 .. Len(L)
  BY <1>3, ListDomain DEF IsFunctionList
<1>5. /\ n \in 0 .. Len(L) /\ n = Len(L) - Len(todo)
      /\ \A i \in DOMAIN todo : todo[i] = L[n + i]
      /\ Range(findings) = UNION {Range(Found(L[i])) : i \in 1 .. n}
      /\ \A i \in DOMAIN L : \A X :
           CountIn(findings, Of(X, L[i].id))
             = IF i <= n THEN CountIn(Found(L[i]), X) ELSE 0
  BY <1>1 DEF FoundInv, Analysed
<1>6. n + 1 \in DOMAIN L /\ sym = L[n + 1] /\ IsFunction(sym)
  BY <1>2, <1>3, <1>4, <1>5 DEF IsFunctionList
<1>7. /\ unit' = unit /\ phase' = phase /\ findings' = findings \o t /\ todo' = Tail(todo)
  BY DEF Analyze
<1>8. IsFindingList(t) /\ IsList(t) /\ IsList(findings)
  BY <1>6, FoundType DEF IsFindingList, PipelineInv
<1>9. Analysed' = n + 1
  BY <1>2, <1>4, <1>5, <1>7 DEF Analysed
<1> HIDE DEF L, n, sym, t
<1>10. Selected(unit)' = L
  BY <1>7 DEF L
<1>11. ASSUME NEW i \in DOMAIN todo' PROVE todo'[i] = L[(n + 1) + i]
  <2>1. i \in 1 .. Len(todo) - 1 /\ todo'[i] = todo[i + 1]
    BY <1>2, <1>7
  <2>2. i + 1 \in DOMAIN todo
    BY <1>2, <2>1
  <2>3. n + (i + 1) = (n + 1) + i
    BY <1>4, <1>5, <2>1
  <2> QED BY <1>5, <2>1, <2>2, <2>3
<1>12. Range(findings') = UNION {Range(Found(L[i])) : i \in 1 .. n + 1}
  <2>1. Range(findings') = Range(findings) \cup Range(t)
    BY <1>7, <1>8, ListJoin
  <2>2. Range(t) = Range(Found(L[n + 1]))
    BY <1>6 DEF t
  <2>3. \A i : i \in 1 .. n + 1 <=> i \in 1 .. n \/ i = n + 1
    BY <1>4, <1>5
  <2> QED BY <1>5, <2>1, <2>2, <2>3
<1>13. ASSUME NEW i \in DOMAIN L, NEW X
       PROVE  CountIn(findings', Of(X, L[i].id))
                = IF i <= n + 1 THEN CountIn(Found(L[i]), X) ELSE 0
  <2> DEFINE Y == Of(X, L[i].id)
  <2>1. /\ CountIn(findings', Y) = CountIn(findings, Y) + CountIn(t, Y)
        /\ CountIn(findings, Y) \in Nat /\ CountIn(t, Y) \in Nat
    BY <1>7, <1>8, JoinCounts
  <2>2. CountIn(findings, Y) = IF i <= n THEN CountIn(Found(L[i]), X) ELSE 0
    BY <1>5
  <2>3. CountIn(t, Y) = IF L[i].id = sym.id THEN CountIn(t, X) ELSE 0
    BY <1>6, CountByFunction DEF t
  <2>4. L[i].id = sym.id <=> i = n + 1
    BY <1>3, <1>6
  <2>5. i = n + 1 => CountIn(t, X) = CountIn(Found(L[i]), X)
    BY <1>6 DEF t
  <2> DEFINE all == CountIn(findings', Y)
             before == CountIn(findings, Y)
             new == CountIn(t, Y)
             found == CountIn(Found(L[i]), X)
  <2>6. n \in Int /\ i \in Int
    BY <1>4, <1>5
  <2>7. /\ all = before + new /\ before \in Nat /\ new \in Nat
        /\ before = IF i <= n THEN found ELSE 0
        /\ new = IF i = n + 1 THEN found ELSE 0
    <3>1. new = IF i = n + 1 THEN found ELSE 0
      BY <2>3, <2>4, <2>5
    <3> QED BY <2>1, <2>2, <3>1
  <2> HIDE DEF all, before, new, found
  <2>8. all = IF i <= n + 1 THEN found ELSE 0
    BY <2>6, <2>7
  <2> QED BY <2>8 DEF all, found, Y
<1>14. n + 1 \in 0 .. Len(L)
  BY <1>4, <1>5, <1>6
<1> QED BY <1>1, <1>7, <1>9, <1>10, <1>11, <1>12, <1>13, <1>14 DEF FoundInv

LEMMA FoundStep == PipelineInv /\ FoundInv /\ [Next]_vars => FoundInv'
<1> SUFFICES ASSUME PipelineInv, FoundInv, [Next]_vars PROVE FoundInv'
  OBVIOUS
<1>1. CASE HandOver
  <2> DEFINE L == Selected(UnitSymbols)
  <2>1. /\ IsFunctionList(UnitSymbols)
        /\ IsFunctionList(L)
    BY UnitType, SelectedType DEF PipelineInv
  <2>2. phase = "waiting" /\ unit' = UnitSymbols /\ todo' = L /\ findings' = <<>> /\ phase' = "analysing"
    BY <1>1 DEF HandOver, TakeUnit, FoundInv
  <2>3. Len(L) \in Nat /\ DOMAIN L = 1 .. Len(L)
    BY <2>1, ListDomain DEF IsFunctionList
  <2>4. Selected(unit)' = L
    BY <2>2
  <2> HIDE DEF L
  <2>5. Analysed' = 0
    BY <2>2, <2>3, <2>4 DEF Analysed
  <2>6. \A X : CountIn(findings', X) = 0
    BY <2>2, FS_EmptySet DEF CountIn
  <2>7. Range(findings') = {} /\ 1 .. 0 = {}
    BY <2>2 DEF Range
  <2>8. \A i \in DOMAIN L : ~(i <= 0) /\ 0 + i = i
    BY <2>3
  <2>9. UNION {Range(Found(L[i])) : i \in 1 .. 0} = {}
    BY <2>7
  <2> QED BY <2>1, <2>2, <2>3, <2>4, <2>5, <2>6, <2>7, <2>8, <2>9 DEF FoundInv
<1>2. CASE Analyze
  BY <1>2, AnalyzeFinds
<1>3. CASE Finish
  <2>1. /\ phase = "analysing" /\ phase' = "sorted"
        /\ unit' = unit /\ todo' = todo /\ findings' = Sorted(findings)
    BY <1>3 DEF Finish
  <2>2. /\ InPlace(Sorted(findings))
        /\ Range(Sorted(findings)) = Range(findings)
        /\ \A X : CountIn(Sorted(findings), X) = CountIn(findings, X)
    BY SortedInPlace DEF PipelineInv
  <2>3. Analysed' = Analysed /\ Selected(unit)' = Selected(unit)
    BY <2>1 DEF Analysed
  <2> QED BY <2>1, <2>2, <2>3 DEF FoundInv
<1>4. CASE UNCHANGED findingsVars
  BY <1>4 DEF FoundInv, findingsVars, Analysed
<1>5. CASE WriteReport \/ Rerender
  <2>1. /\ UNCHANGED <<unit, todo, findings>>
        /\ phase # "waiting" /\ phase' # "waiting"
        /\ phase \in {"sorted", "reported", "rendered"}
    BY <1>5 DEF WriteReport, Rerender
  <2> QED BY <2>1 DEF FoundInv, Analysed
<1> QED BY <1>1, <1>2, <1>3, <1>4, <1>5 DEF Next, Normalize, AnalyzeUnit, FindingsNext, vars

LEMMA FoundInit == Init => FoundInv
BY ShortLists DEF Init, FindingsInit, FoundInv, IsFunctionList

THEOREM FoundInvariant == Spec => []FoundInv
BY PipelineInvariant, FoundInit, FoundStep, PTL DEF Spec

\* When nothing is left to do, what was found in the selected functions is all there is,
\* and in place.
LEMMA AllFound ==
  ASSUME PipelineInv, FoundInv, phase = "sorted"
  PROVE  LET L == Selected(unit)
         IN  /\ Len(L) \in Nat /\ DOMAIN L = 1 .. Len(L)
             /\ \A i \in DOMAIN L : IsFunction(L[i])
             /\ \A i, j \in DOMAIN L : L[i].id = L[j].id => i = j
             /\ Range(findings) = UNION {Range(Found(L[i])) : i \in DOMAIN L}
             /\ \A i \in DOMAIN L : \A X :
                  CountIn(findings, Of(X, L[i].id)) = CountIn(Found(L[i]), X)
             /\ IsFindingList(findings) /\ InPlace(findings)
<1> DEFINE L == Selected(unit)
<1>1. /\ IsFunctionList(L)
      /\ \A i, j \in DOMAIN L : L[i].id = L[j].id => i = j
  BY SelectedType DEF FoundInv
<1>2. Len(L) \in Nat /\ DOMAIN L = 1 .. Len(L)
  BY <1>1, ListDomain DEF IsFunctionList
<1>3. Len(todo) = 0
  BY ShortLists DEF PipelineInv
<1>4. /\ Analysed = Len(L) - Len(todo)
      /\ Range(findings) = UNION {Range(Found(L[i])) : i \in 1 .. Analysed}
      /\ \A i \in DOMAIN L : \A X :
           CountIn(findings, Of(X, L[i].id)) = IF i <= Analysed THEN CountIn(Found(L[i]), X) ELSE 0
      /\ IsFindingList(findings) /\ InPlace(findings)
  BY DEF FoundInv, PipelineInv, Analysed
<1>5. Analysed = Len(L)
  BY <1>2, <1>3, <1>4
<1> HIDE DEF L
<1>6. \A i \in DOMAIN L : i <= Analysed
  BY <1>2, <1>5
<1> QED BY <1>1, <1>2, <1>4, <1>5, <1>6 DEF L, IsFunctionList

----------------------------------------------------------------------------
(* What follows.                                                           *)

\* In the end every site at which some path sees a risk has one finding of its function,
\* and no other has any.
THEOREM AlwaysOnePerSite == Spec => []OneFindingPerRiskySite
<1>1. ASSUME PipelineInv, FoundInv PROVE OneFindingPerRiskySite
  <2> DEFINE own(s, rule) == {n \in DOMAIN findings : findings[n].rule = rule /\ findings[n].symbol = s.id}
             risky(s, rule) == {e.site : e \in {x \in Range(s.events[rule]) : Risky(rule, x)}}
             Again(s, i) == \E j \in 1 .. i - 1 : unit[j].id = s.id /\ Eligible(unit[j])
  <2> SUFFICES ASSUME phase = "sorted", NEW i \in DOMAIN unit, NEW rule \in RuleNames,
                      unit[i].body = "located", Looks(rule, unit[i]), ~Again(unit[i], i)
               PROVE  Cardinality(own(unit[i], rule)) = Cardinality(risky(unit[i], rule))
    BY RuleNamesAreRules DEF OneFindingPerRiskySite
  <2> DEFINE L == Selected(unit)
             s == unit[i]
             X == {f \in Range(findings) : f.rule = rule}
  <2>1. i \in Chosen(unit)
    BY DEF Chosen, Eligible, Looks, AllowHigh, Ready
  <2>2. PICK n \in DOMAIN L : L[n] = s
    BY <1>1, <2>1, SelectedType DEF FoundInv
  <2>3. Found(s) = AllRules(s) /\ IsFunction(s)
    BY <1>1 DEF Found, FoundInv, IsFunctionList
  <2>4. CountIn(findings, Of(X, s.id)) = CountIn(AllRules(s), X)
    BY <1>1, <2>2, <2>3, AllFound
  <2>5. Range(AllRules(s)) \subseteq Range(findings)
    BY <1>1, <2>2, <2>3, AllFound
  <2>6. CountIn(AllRules(s), X) = Cardinality(risky(s, rule))
    BY <2>3, <2>5, OnePerSite
  <2>7. own(s, rule) = {m \in DOMAIN findings : findings[m] \in Of(X, s.id)}
    BY DEF Of, Range
  <2> QED BY <2>4, <2>6, <2>7 DEF CountIn
<1> QED BY <1>1, PipelineInvariant, FoundInvariant, PTL

\* Whichever way round the paths of the functions are taken, the findings say the same.
THEOREM AlwaysEitherWay == Spec => []PathOrderIrrelevant
<1>1. ASSUME PipelineInv, FoundInv PROVE PathOrderIrrelevant
  <2> DEFINE L == Selected(unit)
             located == {s \in Range(L) : s.body = "located"}
             other == UNION {Range(AllRules(Backwards(s))) : s \in located}
  <2> SUFFICES ASSUME phase = "sorted"
               PROVE  {Verdict(f) : f \in Range(findings)} = {Verdict(f) : f \in other}
    BY DEF PathOrderIrrelevant
  <2>1. \A s \in located : IsFunction(s)
    BY <1>1, AllFound DEF Range
  <2>2. Range(findings) = UNION {Range(AllRules(s)) : s \in located}
    <3>1. Range(findings) = UNION {Range(Found(L[i])) : i \in DOMAIN L}
      BY <1>1, AllFound
    <3>2. Range(<<>>) = {}
      BY DEF Range
    <3> QED BY <3>1, <3>2 DEF Found, Range
  <2>3. \A s \in located : {Verdict(f) : f \in Range(AllRules(s))} = {Verdict(f) : f \in Range(AllRules(Backwards(s)))}
    BY <2>1, PathOrderIsIdle
  <2> HIDE DEF located
  <2>4. ASSUME NEW f \in Range(findings) PROVE \E g \in other : Verdict(f) = Verdict(g)
    <3>1. PICK s \in located : f \in Range(AllRules(s))
      BY <2>2
    <3>2. \E g \in Range(AllRules(Backwards(s))) : Verdict(f) = Verdict(g)
      BY <2>3, <3>1
    <3> QED BY <3>2
  <2>5. ASSUME NEW g \in other PROVE \E f \in Range(findings) : Verdict(f) = Verdict(g)
    <3>1. PICK s \in located : g \in Range(AllRules(Backwards(s)))
      OBVIOUS
    <3>2. \E f \in Range(AllRules(s)) : Verdict(f) = Verdict(g)
      BY <2>3, <3>1
    <3> QED BY <2>2, <3>2
  <2> HIDE DEF other
  <2> QED BY <2>4, <2>5
<1> QED BY <1>1, PipelineInvariant, FoundInvariant, PTL

\* The keys by which a set of findings has one order, if no two have the same.
ByKey(P) == [f \in P |-> <<f.place, Rank(f.rule), 0>>]

\* There is one way to have findings in place that all differ in their place or rule.
LEMMA OneOrder ==
  ASSUME NEW fs, IsFindingList(fs), InPlace(fs), OnceEach(fs)
  PROVE  fs = Listing(Range(fs), ByKey(Range(fs)))
<1> DEFINE P == Range(fs)
           key == ByKey(P)
           m == Len(fs)
<1>1. m \in Nat /\ DOMAIN fs = 1 .. m /\ fs = [i \in 1 .. m |-> fs[i]]
  BY ListDomain DEF IsFindingList
<1>2. fs \in [1 .. m -> P] /\ \A p \in P : \E n \in 1 .. m : fs[n] = p
  BY <1>1 DEF Range
<1>3. \A f \in P : f.place \in Int /\ Rank(f.rule) \in Int /\ IsFinding(f)
  BY RankType DEF IsFindingList, IsFinding, Range
<1>4. key \in [P -> Key] /\ \A f \in P : key[f] = <<f.place, Rank(f.rule), 0>>
  BY <1>3 DEF ByKey, Key
<1> HIDE DEF P, key, m
<1>5. \A i, j \in 1 .. m : fs[i].place = fs[j].place /\ Rank(fs[i].rule) = Rank(fs[j].rule) => i = j
  BY <1>1 DEF OnceEach, SortKey
<1>6. IsFiniteSet(P)
  <2>1. fs \in Surjection(1 .. m, P)
    BY <1>2 DEF Surjection
  <2> QED BY <1>1, <2>1, FS_Interval, FS_Surjection
<1>7. Keyed(P, key)
  <2> SUFFICES ASSUME NEW p \in P, NEW q \in P, key[p] = key[q] PROVE p = q
    BY <1>4, <1>6 DEF Keyed
  <2>1. PICK i \in 1 .. m, j \in 1 .. m : fs[i] = p /\ fs[j] = q
    BY <1>2
  <2>2. p.place = q.place /\ Rank(p.rule) = Rank(q.rule)
    BY <1>4
  <2> QED BY <1>5, <2>1, <2>2
<1>8. ASSUME NEW i \in 1 .. m, NEW j \in 1 .. m, i < j PROVE Less(key[fs[i]], key[fs[j]])
  <2>1. Less(<<fs[i].place, Rank(fs[i].rule), i>>, <<fs[j].place, Rank(fs[j].rule), j>>)
    BY <1>1, <1>8 DEF InPlace
  <2>2. ~(fs[i].place = fs[j].place /\ Rank(fs[i].rule) = Rank(fs[j].rule))
    BY <1>1, <1>5, <1>8
  <2>3. key[fs[i]] = <<fs[i].place, Rank(fs[i].rule), 0>> /\ key[fs[j]] = <<fs[j].place, Rank(fs[j].rule), 0>>
    BY <1>2, <1>4
  <2> QED BY <2>1, <2>2, <2>3 DEF Less
<1> QED BY <1>1, <1>2, <1>7, <1>8, ListingIsTheOnlyOne DEF P, key

\* If no two symbols have the same id, all eligible ones are selected.
LEMMA SelectedAll ==
  ASSUME NEW ss, IsFunctionList(ss), \A i, j \in DOMAIN ss : ss[i].id = ss[j].id => i = j
  PROVE  Range(Selected(ss)) = {s \in Range(ss) : Eligible(s)}
<1>1. DOMAIN ss \subseteq Int
  BY ListDomain DEF IsFunctionList
<1>2. \A i \in DOMAIN ss : i \in Chosen(ss) <=> Eligible(ss[i])
  <2> SUFFICES ASSUME NEW i \in DOMAIN ss, NEW j \in 1 .. i - 1, ss[j].id = ss[i].id PROVE FALSE
    BY DEF Chosen
  <2>1. Len(ss) \in Nat /\ DOMAIN ss = 1 .. Len(ss)
    BY ListDomain DEF IsFunctionList
  <2>2. j \in DOMAIN ss /\ j # i
    BY <2>1
  <2> QED BY <2>2
<1>3. Chosen(ss) \subseteq DOMAIN ss
  BY DEF Chosen
<1> QED BY <1>2, <1>3, SelectedType DEF Range

\* Where all findings differ in their place or rule, no finding is there twice in what any
\* list of the functions gives, if it has no function twice.
LEMMA FoundOnce ==
  ASSUME PipelineInv, FoundInv, phase = "sorted", OnceEach(findings),
         NEW ss, IsFunctionList(ss), Range(ss) = Range(Selected(unit)),
         \A i, j \in DOMAIN ss : ss[i].id = ss[j].id => i = j
  PROVE  LET other == Concatenated([i \in DOMAIN ss |-> Found(ss[i])])
         IN  /\ IsFindingList(other)
             /\ Range(other) = Range(findings)
             /\ OnceEach(other)
<1> DEFINE L == Selected(unit)
           parts == [i \in DOMAIN ss |-> Found(ss[i])]
           other == Concatenated(parts)
<1>1. Len(ss) \in Nat /\ DOMAIN ss = 1 .. Len(ss)
  BY ListDomain DEF IsFunctionList
<1>2. IsList(parts) /\ DOMAIN parts = DOMAIN ss /\ \A i \in DOMAIN ss : parts[i] = Found(ss[i])
  BY <1>1, ListIntro
<1>3. \A i \in DOMAIN ss : /\ IsFindingList(parts[i]) /\ IsList(parts[i])
                           /\ \A j \in DOMAIN parts[i] : parts[i][j].symbol = ss[i].id
  BY <1>2, FoundType DEF IsFunctionList, IsFindingList
<1> HIDE DEF parts
<1>4. /\ IsList(other)
      /\ \A n \in DOMAIN other : \E i \in DOMAIN ss : \E j \in DOMAIN parts[i] : other[n] = parts[i][j]
      /\ \A i \in DOMAIN ss : \A j \in DOMAIN parts[i] : \E n \in DOMAIN other : other[n] = parts[i][j]
  BY <1>2, <1>3, ConcatenatedHasAll
<1>5. PICK B \in Bijection(DOMAIN other, Places(parts)) :
        \A n \in DOMAIN other : other[n] = parts[B[n][1]][B[n][2]]
  BY <1>2, <1>3, ConcatenatedPlaces
<1> HIDE DEF other
<1>6. IsFindingList(other)
  BY <1>3, <1>4 DEF IsFindingList
<1>7. Range(other) = Range(findings)
  <2>1. Range(findings) = UNION {Range(Found(L[k])) : k \in DOMAIN L}
    BY AllFound
  <2>2. Range(findings) = UNION {Range(Found(f)) : f \in Range(ss)}
    BY <2>1 DEF Range
  <2>3. Range(other) = UNION {Range(parts[i]) : i \in DOMAIN ss}
    BY <1>4 DEF Range
  <2>4. UNION {Range(parts[i]) : i \in DOMAIN ss} = UNION {Range(Found(ss[i])) : i \in DOMAIN ss}
    BY <1>2
  <2>5. UNION {Range(Found(f)) : f \in Range(ss)} = UNION {Range(Found(ss[i])) : i \in DOMAIN ss}
    BY DEF Range
  <2> QED BY <2>2, <2>3, <2>4, <2>5
<1>8. ASSUME NEW m \in DOMAIN other, NEW n \in DOMAIN other, SortKey(other[m]) = SortKey(other[n])
      PROVE  m = n
  <2> DEFINE f == other[m]
  <2>1. PICK q \in DOMAIN findings : findings[q] = f /\ other[n] = f
    <3>1. PICK q \in DOMAIN findings, r \in DOMAIN findings : findings[q] = f /\ findings[r] = other[n]
      BY <1>7 DEF Range
    <3>2. q = r
      BY <1>8, <3>1 DEF OnceEach
    <3> QED BY <3>1, <3>2
  <2>2. PICK i, j, a, b : /\ i \in DOMAIN ss /\ a \in DOMAIN parts[i] /\ j \in DOMAIN ss /\ b \in DOMAIN parts[j]
                          /\ B[m] = <<i, a>> /\ B[n] = <<j, b>> /\ f = parts[i][a] /\ f = parts[j][b]
    <3>1. ASSUME NEW x \in DOMAIN other
          PROVE  \E i, a : i \in DOMAIN ss /\ a \in DOMAIN parts[i] /\ B[x] = <<i, a>> /\ other[x] = parts[i][a]
      <4>1. B[x] \in Places(parts)
        BY <1>5 DEF Bijection, Injection
      <4>2. B[x] = <<B[x][1], B[x][2]>> /\ B[x][1] \in DOMAIN ss /\ B[x][2] \in DOMAIN parts[B[x][1]]
        BY <1>2, <1>3, <4>1, PlacesAre
      <4>3. other[x] = parts[B[x][1]][B[x][2]]
        BY <1>5
      <4> WITNESS B[x][1], B[x][2]
      <4> QED BY <4>2, <4>3
    <3> QED BY <2>1, <3>1
  <2> HIDE DEF f
  <2>3. f.symbol = ss[i].id /\ f.symbol = ss[j].id
    <3>1. parts[i][a].symbol = ss[i].id
      BY <1>3, <2>2
    <3>2. parts[j][b].symbol = ss[j].id
      BY <1>3, <2>2
    <3> QED BY <2>2, <3>1, <3>2
  <2>4. i = j
    BY <2>2, <2>3
  <2> DEFINE t == parts[i]
  <2>5. a = b
    <3>1. PICK k \in DOMAIN L : L[k] = ss[i]
      BY <2>2 DEF Range
    <3>2. CountIn(findings, Of({f}, ss[i].id)) = CountIn(t, {f})
      BY <1>2, <2>2, <3>1, AllFound
    <3>3. f.symbol = ss[i].id
      BY <2>3
    <3>4. {x \in DOMAIN findings : findings[x] \in Of({f}, ss[i].id)} = {q}
      <4>1. \A x \in DOMAIN findings : findings[x] = f => x = q
        BY <2>1 DEF OnceEach
      <4> QED BY <2>1, <3>3, <4>1 DEF Of
    <3>5. CountIn(t, {f}) = 1
      BY <3>2, <3>4, FS_Singleton DEF CountIn
    <3>6. IsFiniteSet({x \in DOMAIN t : t[x] \in {f}})
      BY <1>3, <2>2, ListFinite, FS_Subset
    <3>7. PICK x : {y \in DOMAIN t : t[y] \in {f}} = {x}
      BY <3>5, <3>6, FS_Singleton DEF CountIn
    <3>8. a \in {y \in DOMAIN t : t[y] \in {f}} /\ b \in {y \in DOMAIN t : t[y] \in {f}}
      BY <2>2, <2>4
    <3> QED BY <3>7, <3>8
  <2>6. B[m] = B[n]
    BY <2>2, <2>4, <2>5
  <2> QED BY <1>5, <2>6 DEF Bijection, Injection, IsInjective
<1> QED BY <1>6, <1>7, <1>8 DEF OnceEach, other, parts

\* The files the other way round give the same report, unless an id is shared.
THEOREM AlwaysAnyFileOrder == Spec => []FileOrderIrrelevant
<1>1. ASSUME PipelineInv, FoundInv PROVE FileOrderIrrelevant
  <2> DEFINE listed == Selected(Reverse(unit))
             other == Concatenated([i \in DOMAIN listed |-> Found(listed[i])])
  <2> SUFFICES ASSUME phase = "sorted", OnceEach(findings),
                      \A i, j \in DOMAIN unit : unit[i].id = unit[j].id => i = j
               PROVE  findings = Sorted(other)
    BY DEF FileOrderIrrelevant, OnceEach
  <2>1. IsFunctionList(unit) /\ Len(unit) \in Nat /\ DOMAIN unit = 1 .. Len(unit)
    BY <1>1, ListDomain DEF FoundInv, IsFunctionList
  <2>2. /\ IsList(Reverse(unit)) /\ DOMAIN Reverse(unit) = DOMAIN unit
        /\ \A i \in DOMAIN unit : /\ (Len(unit) - i) + 1 \in DOMAIN unit
                                 /\ Reverse(unit)[i] = unit[(Len(unit) - i) + 1]
        /\ Range(Reverse(unit)) = Range(unit)
    BY <2>1, ReversedList DEF IsFunctionList
  <2> DEFINE back == Reverse(unit)
  <2> HIDE DEF back
  <2>3. IsFunctionList(back)
    BY <2>1, <2>2 DEF IsFunctionList, back
  <2>4. ASSUME NEW i \in DOMAIN back, NEW j \in DOMAIN back, back[i].id = back[j].id PROVE i = j
    <3>1. (Len(unit) - i) + 1 = (Len(unit) - j) + 1
      BY <2>2, <2>4 DEF back
    <3> QED BY <2>1, <2>2, <3>1 DEF back
  <2>5. Range(listed) = Range(Selected(unit))
    <3>1. Range(Selected(back)) = {s \in Range(back) : Eligible(s)}
      BY <2>3, <2>4, SelectedAll
    <3>2. Range(Selected(unit)) = {s \in Range(unit) : Eligible(s)}
      BY <2>1, SelectedAll
    <3> QED BY <2>2, <3>1, <3>2 DEF back
  <2>6. /\ IsFunctionList(listed)
        /\ \A i, j \in DOMAIN listed : listed[i].id = listed[j].id => i = j
    BY <2>3, SelectedType DEF back
  <2> HIDE DEF listed
  <2>7. IsFindingList(other) /\ Range(other) = Range(findings) /\ OnceEach(other)
    BY <1>1, <2>5, <2>6, FoundOnce
  <2> HIDE DEF other
  <2>8. /\ IsFindingList(Sorted(other)) /\ InPlace(Sorted(other)) /\ OnceEach(Sorted(other))
        /\ Range(Sorted(other)) = Range(findings)
    BY <2>7, SortedInPlace
  <2>9. IsFindingList(findings) /\ InPlace(findings)
    BY <1>1, AllFound
  <2> QED BY <2>8, <2>9, OneOrder
<1> QED BY <1>1, PipelineInvariant, FoundInvariant, PTL

----------------------------------------------------------------------------
(* How a function is seen.                                                 *)

\* A function of the payload as the rules see it.
SeenAs(k) == Seen(DoneOf(BuiltOf(payload[k[1]]), SymbolOf(payload[k[1]], Fn(k))))

\* What is seen of a symbol of a file, from whether the file was parsed, whether the symbol
\* has a body, and what counts against it.
LEMMA SeenIs ==
  ASSUME NEW p, IsFilePayload(p), NEW x, IsSymbol(x)
  PROVE  LET u == Seen(DoneOf(BuiltOf(p), x))
             records == RecordsOf(BuiltOf(p))
             valid == x.body # NoBody /\ IsValid(x.body)
         IN  /\ u.id = x.id /\ u.warnings = 0
             /\ u.state = DoneOf(BuiltOf(p), x).eligibility.state
             /\ u.unsupported = Cardinality({i \in DOMAIN records : records[i].owner = x.id})
             /\ u.body = "none" <=> x.body = NoBody
             /\ u.body = "located" <=> valid
             /\ ~p.parse_ok => u.state = "skipped"
             /\ p.parse_ok /\ x.body = NoBody => u.state = "normalized"
             /\ p.parse_ok /\ x.body # NoBody /\ ~IsValid(x.body) => u.state = "skipped"
             /\ p.parse_ok /\ valid => u.state \in Ready
<1> DEFINE d == DoneOf(BuiltOf(p), x)
           u == Seen(d)
           records == RecordsOf(BuiltOf(p))
           e == ClassifySymbol(p.parse_ok, x, records)
<1>1. d.id = x.id /\ d.body = x.body /\ d.eligibility = e
  BY DoneIs DEF BuiltOf
<1>2. /\ u.id = d.id /\ u.state = d.eligibility.state
      /\ u.unsupported = d.eligibility.unsupported /\ u.warnings = d.eligibility.warnings
      /\ u.body = CASE d.body = NoBody -> "none"
                    [] d.body # NoBody /\ IsValid(d.body) -> "located"
                    [] OTHER -> "unlocated"
  BY DEF Seen
<1>3. /\ e.warnings = 0
      /\ e.unsupported = Cardinality({i \in DOMAIN records : records[i].owner = x.id})
  BY DEF ClassifySymbol, Eligibility
<1>4. /\ ~p.parse_ok => e.state = "skipped"
      /\ p.parse_ok /\ x.body = NoBody => e.state = "normalized"
      /\ p.parse_ok /\ x.body # NoBody /\ ~IsValid(x.body) => e.state = "skipped"
      /\ p.parse_ok /\ x.body # NoBody /\ IsValid(x.body) => e.state \in {"cfg-ready", "partially-analyzed"}
  BY DEF ClassifySymbol, Eligibility
<1> HIDE DEF d, u, records, e
<1>5. (u.body = "none" <=> x.body = NoBody) /\ (u.body = "located" <=> x.body # NoBody /\ IsValid(x.body))
  BY <1>1, <1>2
<1> QED BY <1>1, <1>2, <1>3, <1>4, <1>5 DEF Ready, d, u, records

\* What is selected is in the list and eligible; and of an eligible function some is
\* selected with its id.
LEMMA SelectedHas ==
  ASSUME NEW ss, IsFunctionList(ss)
  PROVE  /\ \A n \in DOMAIN Selected(ss) : Selected(ss)[n] \in Range(ss) /\ Eligible(Selected(ss)[n])
         /\ \A u \in Range(ss) : Eligible(u) => \E n \in DOMAIN Selected(ss) : Selected(ss)[n].id = u.id
<1>1. \A n \in DOMAIN Selected(ss) : Selected(ss)[n] \in Range(ss) /\ Eligible(Selected(ss)[n])
  BY SelectedType DEF Chosen, Range
<1>2. ASSUME NEW i \in DOMAIN ss, Eligible(ss[i])
      PROVE  \E n \in DOMAIN Selected(ss) : Selected(ss)[n].id = ss[i].id
  <2> DEFINE Same == {j \in DOMAIN ss : Eligible(ss[j]) /\ ss[j].id = ss[i].id}
  <2>1. IsFiniteSet(DOMAIN ss) /\ DOMAIN ss = 1 .. Len(ss) /\ Len(ss) \in Nat
    BY ListFinite, ListDomain DEF IsFunctionList
  <2>2. IsFiniteSet(Same) /\ Same \subseteq Int /\ Same # {}
    BY <1>2, <2>1, FS_Subset
  <2>3. PICK m \in Same : \A j \in Same : m <= j
    BY <2>2, LeastExists
  <2>4. m \in Chosen(ss)
    <3> SUFFICES ASSUME NEW j \in 1 .. m - 1, Eligible(ss[j]), ss[j].id = ss[m].id PROVE FALSE
      BY DEF Chosen
    <3>1. m \in Int /\ m \in 1 .. Len(ss)
      BY <2>1
    <3>2. j \in Same /\ ~(m <= j)
      BY <2>1, <3>1
    <3> QED BY <2>3, <3>2
  <2> QED BY <2>3, <2>4, SelectedType
<1> QED BY <1>1, <1>2 DEF Range

\* A selected function with the id of one of the payload is that function as it is seen.
LEMMA SelectedIsSeen ==
  ASSUME PipelineInv, TraceInv, FoundInv, phase # "waiting",
         NEW k \in Functions, NEW n \in DOMAIN Selected(unit), IsOf(Selected(unit)[n].id, k)
  PROVE  Selected(unit)[n] = SeenAs(k) /\ Fn(k).body # NoBody
<1> DEFINE u == Selected(unit)[n]
<1>1. u \in Range(unit) /\ Eligible(u)
  BY SelectedHas DEF FoundInv
<1>2. PICK p, x : p \in Range(payload) /\ x \in SymbolsIn(p) /\ u = Seen(DoneOf(BuiltOf(p), x))
  BY <1>1, UnitHas
<1>3. IsFilePayload(p) /\ payload \in Payloads
  BY <1>2, FunctionsAre DEF PipelineInv
<1>4. IsSymbol(x)
  BY <1>2, <1>3, SymbolsInAre, SymbolOfType, SymbolOfFunction
<1>5. u.id = x.id /\ (u.body = "none" <=> x.body = NoBody)
  <2> DEFINE v == Seen(DoneOf(BuiltOf(p), x))
  <2>1. v.id = x.id /\ (v.body = "none" <=> x.body = NoBody)
    BY <1>3, <1>4, SeenIs
  <2> HIDE DEF u, v
  <2>2. u = v
    BY <1>2 DEF v
  <2> QED BY <2>1, <2>2
<1>6. IsOf(u.id, k)
  OBVIOUS
<1> HIDE DEF u
<1>7. p = payload[k[1]] /\ x = SymbolOf(p, Fn(k))
  BY <1>2, <1>3, <1>5, <1>6, IdsTell
<1>8. x.body = Fn(k).body
  BY <1>3, <1>7, FunctionsAre, SymbolOfFunction
<1> QED BY <1>1, <1>2, <1>5, <1>7, <1>8 DEF SeenAs, Eligible, u

\* A function that can be analysed is selected.
LEMMA SelectedSees ==
  ASSUME PipelineInv, TraceInv, FoundInv, phase # "waiting", NEW k \in Functions, HasBody(k)
  PROVE  \E n \in DOMAIN Selected(unit) : IsOf(Selected(unit)[n].id, k)
<1> DEFINE p == payload[k[1]]
           x == SymbolOf(p, Fn(k))
           u == SeenAs(k)
<1>1. /\ payload \in Payloads /\ p \in Range(payload) /\ IsFilePayload(p)
      /\ Fn(k) \in Range(p.functions)
  BY FunctionsAre DEF PipelineInv
<1>2. IsSymbol(x) /\ x \in SymbolsIn(p) /\ x.body = Fn(k).body
  BY <1>1, SymbolOfFunction
<1>3. u = Seen(DoneOf(BuiltOf(p), x))
  BY DEF SeenAs
<1>4. p.parse_ok /\ Fn(k).body # NoBody /\ IsValid(Fn(k).body)
  BY DEF HasBody
<1> HIDE DEF p, x, u
<1>5. u.id = x.id /\ u.body = "located" /\ u.state \in Ready
  BY <1>1, <1>2, <1>3, <1>4, SeenIs
<1>6. u \in Range(unit)
  BY <1>1, <1>2, <1>3, UnitHas
<1>7. Eligible(u)
  BY <1>5 DEF Eligible
<1>8. PICK n \in DOMAIN Selected(unit) : Selected(unit)[n].id = u.id
  BY <1>6, <1>7, SelectedHas DEF FoundInv
<1>9. IsOf(x.id, k)
  BY <1>1, <1>2, IdsTell DEF p, x
<1> QED BY <1>5, <1>8, <1>9

\* Each function that can be analysed is handed to the rules once.
THEOREM AlwaysOnce == Spec => []EachFunctionOnce
<1>1. ASSUME PipelineInv, TraceInv, FoundInv PROVE EachFunctionOnce
  <2> DEFINE L == Selected(unit)
  <2> SUFFICES ASSUME phase = "analysing", NEW k \in Functions, HasBody(k)
               PROVE  Cardinality({i \in DOMAIN L : IsOf(L[i].id, k)}) = 1
    BY DEF EachFunctionOnce
  <2>1. PICK n \in DOMAIN L : IsOf(L[n].id, k)
    BY <1>1, SelectedSees
  <2>2. \A m \in DOMAIN L : IsOf(L[m].id, k) => L[m] = SeenAs(k)
    BY <1>1, SelectedIsSeen
  <2>3. \A m \in DOMAIN L : IsOf(L[m].id, k) => m = n
    BY <1>1, <2>1, <2>2, SelectedType DEF FoundInv
  <2> HIDE DEF L
  <2>4. {i \in DOMAIN L : IsOf(L[i].id, k)} = {n}
    BY <2>1, <2>3
  <2> QED BY <2>4, FS_Singleton
<1> QED BY <1>1, PipelineInvariant, TraceInvariant, FoundInvariant, PTL

----------------------------------------------------------------------------
(* What counts against a function.                                         *)

\* Of two places the one that does not come later is on no later line.
LEMMA LineFirst ==
  ASSUME NEW a \in Int, NEW b \in Int, NEW c \in 0 .. Width - 1, NEW d \in 0 .. Width - 1,
         a * Width + c <= b * Width + d
  PROVE  a <= b
<1> SUFFICES ASSUME b + 1 <= a PROVE FALSE
  OBVIOUS
<1>1. Width \in Nat /\ c \in Int /\ d \in Int /\ 0 <= c /\ d < Width
  BY FrontendAssumption
<1> DEFINE m == a - (b + 1)
<1>2. m \in Nat /\ a = (b + 1) + m
  OBVIOUS
<1> HIDE DEF m
<1>3. a * Width = (b * Width + Width) + m * Width
  BY <1>1, <1>2
<1>4. m * Width \in Nat /\ b * Width \in Int /\ a * Width \in Int
  BY <1>1, <1>2
<1> QED BY <1>1, <1>3, <1>4

\* What lies within a location by lines and columns does so by lines.
LEMMA HoldsEncloses ==
  ASSUME NEW loc, NEW place, IsLoc(loc), IsLoc(place), Holds(loc, place)
  PROVE  Encloses(loc, place)
<1>1. loc.line <= place.line
  <2>1. loc.line * Width + loc.col <= place.line * Width + place.col
    BY DEF Holds, At
  <2> QED BY <2>1, LineFirst DEF IsLoc
<1>2. place.end <= loc.end
  <2>1. place.end * Width + place.endcol <= loc.end * Width + loc.endcol
    BY DEF Holds
  <2> QED BY <2>1, LineFirst DEF IsLoc
<1> QED BY <1>1, <1>2 DEF Encloses, IsLoc

\* A construct is owned by the symbol around it that has fewer lines than any other.
LEMMA OwnerIs ==
  ASSUME NEW flat, IsList(flat), NEW loc, NEW n \in DOMAIN flat,
         Encloses(Extent(flat[n]), loc),
         \A i \in DOMAIN flat : Height(Extent(flat[i])) \in Int,
         \A i \in DOMAIN flat : Encloses(Extent(flat[i]), loc) /\ flat[i] # flat[n] =>
           Height(Extent(flat[i])) > Height(Extent(flat[n]))
  PROVE  Owner(loc, flat) = flat[n].id
<1> DEFINE around == {i \in DOMAIN flat : Encloses(Extent(flat[i]), loc)}
           extents == [i \in DOMAIN flat |-> Extent(flat[i])]
           m == FirstNarrowest(extents, around)
<1>1. Owner(loc, flat) = IF around = {} THEN Nobody ELSE flat[m].id
  BY DEF Owner
<1>2. n \in around /\ \A i \in around : i \in DOMAIN flat /\ extents[i] = Extent(flat[i])
  OBVIOUS
<1>3. IsFiniteSet(around) /\ around \subseteq Int
  <2>1. IsFiniteSet(DOMAIN flat) /\ DOMAIN flat \subseteq Int
    BY ListFinite, ListDomain
  <2> QED BY <2>1, FS_Subset
<1>4. \A i \in around : Height(extents[i]) \in Int
  BY <1>2
<1>5. \A i \in around : flat[i] # flat[n] => Height(extents[i]) > Height(extents[n])
  BY <1>2
<1> HIDE DEF around, extents
<1>6. m \in around /\ Height(extents[m]) <= Height(extents[n])
  BY <1>2, <1>3, <1>4, NarrowestIs
<1>7. flat[m] = flat[n]
  <2> SUFFICES ASSUME flat[m] # flat[n] PROVE FALSE
    OBVIOUS
  <2> DEFINE a == Height(extents[m])
             b == Height(extents[n])
  <2>1. a > b /\ a <= b /\ a \in Int /\ b \in Int
    BY <1>2, <1>4, <1>5, <1>6
  <2> HIDE DEF a, b
  <2> QED BY <2>1
<1> QED BY <1>1, <1>2, <1>7

\* A construct within the body of a function counts against it, if all else around the
\* construct has more lines.
LEMMA DoubtCounts ==
  ASSUME payload \in Payloads, NEW k \in Functions,
         NEW r \in Range(payload[k[1]].unsupported),
         Fn(k).body # NoBody, Holds(Fn(k).body, r.loc),
         \A other \in Extents(payload[k[1]], Fn(k)) :
           Encloses(other, r.loc) => Height(other) > Height(Fn(k).body)
  PROVE  LET p == payload[k[1]]
             records == RecordsOf(BuiltOf(p))
         IN  Cardinality({i \in DOMAIN records : records[i].owner = SymbolOf(p, Fn(k)).id}) # 0
<1> DEFINE p == payload[k[1]]
           f == Fn(k)
           x == SymbolOf(p, f)
           flat == Flat(BuiltOf(p).top)
           records == RecordsOf(BuiltOf(p))
           mine == {i \in DOMAIN records : records[i].owner = x.id}
<1>1. IsFilePayload(p) /\ f \in Range(p.functions) /\ r \in Range(p.unsupported)
  BY FunctionsAre
<1>2. /\ f.body # NoBody /\ Holds(f.body, r.loc)
      /\ \A other \in Extents(p, f) : Encloses(other, r.loc) => Height(other) > Height(f.body)
  OBVIOUS
<1>3. records = [i \in DOMAIN p.unsupported |->
                   [category |-> p.unsupported[i].category, impact |-> Impact(p.unsupported[i].category),
                    owner |-> Owner(p.unsupported[i].loc, flat)]]
  BY DEF RecordsOf, BuiltOf, Attached
<1>4. IsTop(BuiltOf(p).top) /\ Range(flat) = SymbolsIn(p)
  BY <1>1, FinishedSymbols
<1>5. IsList(flat)
  BY <1>4, FlatType DEF IsSymbolList
<1> HIDE DEF p, f, flat, records, mine
<1>6. x \in SymbolsIn(p) /\ x.body = f.body /\ Extent(x) = f.body
  BY <1>1, <1>2, SymbolOfFunction DEF Extent
<1>7. PICK n \in DOMAIN flat : flat[n] = x
  BY <1>4, <1>6 DEF Range
<1>8. Encloses(f.body, r.loc)
  <2>1. IsLoc(f.body) /\ IsLoc(r.loc)
    BY <1>1, <1>2 DEF IsFilePayload
  <2> QED BY <1>2, <2>1, HoldsEncloses
<1>9. ASSUME NEW y \in SymbolsIn(p)
      PROVE  Height(Extent(y)) \in Int /\ (y # x => Extent(y) \in Extents(p, f))
  <2>1. CASE \E t \in Range(p.types) : y = TypeSymbol(p.path, t)
    <3>1. PICK t \in Range(p.types) : y = TypeSymbol(p.path, t)
      BY <2>1
    <3>2. Extent(y) = t.loc /\ IsLoc(t.loc)
      BY <1>1, <3>1, SymbolOfType DEF Extent, IsFilePayload
    <3> QED BY <3>2 DEF Extents, Height, IsLoc
  <2>2. CASE \E g \in Range(p.functions) : y = SymbolOf(p, g)
    <3>1. PICK g \in Range(p.functions) : y = SymbolOf(p, g)
      BY <2>2
    <3>2. Extent(y) = IF g.body = NoBody THEN g.loc ELSE g.body
      BY <1>1, <3>1, SymbolOfFunction DEF Extent
    <3>3. IsLoc(Extent(y))
      BY <1>1, <3>2 DEF IsFilePayload
    <3>4. y # x => g # f
      BY <3>1
    <3>5. g # f => Extent(y) \in Extents(p, f)
      BY <3>2 DEF Extents
    <3> QED BY <3>3, <3>4, <3>5 DEF Height, IsLoc
  <2> QED BY <2>1, <2>2, SymbolsInAre
<1>10. \A i \in DOMAIN flat : flat[i] \in SymbolsIn(p)
  BY <1>4 DEF Range
<1>11. Owner(r.loc, flat) = flat[n].id
  <2>1. \A i \in DOMAIN flat : Height(Extent(flat[i])) \in Int
    BY <1>9, <1>10
  <2>2. ASSUME NEW i \in DOMAIN flat, Encloses(Extent(flat[i]), r.loc), flat[i] # flat[n]
        PROVE  Height(Extent(flat[i])) > Height(Extent(flat[n]))
    <3>1. Extent(flat[i]) \in Extents(p, f)
      BY <1>7, <1>9, <1>10, <2>2
    <3> QED BY <1>2, <1>6, <1>7, <2>2, <3>1
  <2>3. Encloses(Extent(flat[n]), r.loc)
    BY <1>6, <1>7, <1>8
  <2> HIDE DEF x
  <2> QED BY <1>5, <2>1, <2>2, <2>3, OwnerIs
<1>12. PICK q \in DOMAIN p.unsupported : p.unsupported[q] = r
  BY <1>1 DEF Range
<1>13. q \in mine
  BY <1>3, <1>7, <1>11, <1>12 DEF mine
<1>14. IsFiniteSet(mine)
  <2>1. IsFiniteSet(DOMAIN p.unsupported)
    BY <1>1, ListFinite DEF IsFilePayload
  <2>2. mine \in SUBSET DOMAIN p.unsupported
    BY <1>3 DEF mine
  <2> QED BY <2>1, <2>2, FS_Subset
<1>15. Cardinality(mine) # 0
  BY <1>13, <1>14, FS_EmptySet
<1> QED BY <1>15 DEF mine, p, f, records

\* A construct within a function costs it its high findings.
THEOREM AlwaysDoubted == Spec => []DoubtsReachTheirFunction
<1>1. ASSUME PipelineInv, TraceInv, FoundInv PROVE DoubtsReachTheirFunction
  <2> DEFINE L == Selected(unit)
  <2> SUFFICES ASSUME NEW k \in Functions, NEW r \in Range(payload[k[1]].unsupported),
                      Holds(Fn(k).body, r.loc),
                      \A other \in Extents(payload[k[1]], Fn(k)) :
                        Encloses(other, r.loc) => Height(other) > Height(Fn(k).body),
                      NEW f \in Range(findings), IsOf(f.symbol, k), f.severity = "high"
               PROVE  FALSE
    BY DEF DoubtsReachTheirFunction
  <2>1. phase # "waiting"
    BY <1>1 DEF FoundInv, Range
  <2>2. PICK i \in DOMAIN L : f \in Range(Found(L[i]))
    <3>1. Range(findings) = UNION {Range(Found(L[i])) : i \in 1 .. Analysed} /\ Analysed \in 0 .. Len(L)
      BY <1>1, <2>1 DEF FoundInv
    <3>2. Len(L) \in Nat /\ DOMAIN L = 1 .. Len(L)
      BY <1>1, SelectedType, ListDomain DEF FoundInv, IsFunctionList
    <3>3. 1 .. Analysed \subseteq DOMAIN L
      BY <3>1, <3>2
    <3> HIDE DEF L
    <3>4. PICK i \in 1 .. Analysed : f \in Range(Found(L[i]))
      BY <3>1
    <3> QED BY <3>3, <3>4
  <2>3. IsFunction(L[i])
    BY <1>1, SelectedType DEF FoundInv, IsFunctionList
  <2>4. f.symbol = L[i].id /\ f.unsupported = L[i].unsupported
    BY <2>2, <2>3, FoundType DEF Range
  <2>5. L[i] = SeenAs(k) /\ Fn(k).body # NoBody
    BY <1>1, <2>1, <2>4, SelectedIsSeen
  <2>6. f.unsupported = 0
    BY <1>1 DEF PipelineInv, IsFindingList, IsFinding, Earned, Range
  <2> DEFINE x == SymbolOf(payload[k[1]], Fn(k))
             records == RecordsOf(BuiltOf(payload[k[1]]))
             mine == {j \in DOMAIN records : records[j].owner = x.id}
  <2>7. payload \in Payloads /\ IsFilePayload(payload[k[1]]) /\ IsSymbol(x)
    BY <1>1, FunctionsAre, SymbolOfFunction DEF PipelineInv
  <2>8. SeenAs(k).unsupported = Cardinality(mine)
    BY <2>7, SeenIs DEF SeenAs
  <2>9. Cardinality(mine) # 0
    BY <2>5, <2>7, DoubtCounts
  <2> HIDE DEF L, mine
  <2> QED BY <2>4, <2>5, <2>6, <2>8, <2>9
<1> QED BY <1>1, PipelineInvariant, TraceInvariant, FoundInvariant, PTL

----------------------------------------------------------------------------
(* Whom a call means.                                                      *)

\* The symbol of a function of the payload.
SymOf(k) == SymbolOf(payload[k[1]], Fn(k))

\* What identifies a function of the payload.
LEMMA SymOfIs ==
  ASSUME payload \in Payloads, NEW k \in Functions
  PROVE  /\ IsSymbol(SymOf(k)) /\ SymOf(k) \in SymbolsIn(payload[k[1]])
         /\ SymOf(k).kind \in Callable /\ SymOf(k).body = Fn(k).body /\ SymOf(k).code = Fn(k).code
         /\ SymOf(k).name = <<Fn(k).name>>
         /\ SymOf(k).qname # <<>> /\ Last(SymOf(k).qname) = Fn(k).name
         /\ SymOf(k).id[3] = SymOf(k).qname
         /\ IsOf(SymOf(k).id, k)
         /\ \A l \in Functions : IsOf(SymOf(k).id, l) => Fn(k) = Fn(l) /\ payload[k[1]] = payload[l[1]]
<1> DEFINE p == payload[k[1]]
           f == Fn(k)
           x == SymbolOf(p, f)
<1>1. p \in Range(payload) /\ IsFilePayload(p) /\ f \in Range(p.functions)
  BY FunctionsAre
<1>2. /\ IsSymbol(x) /\ x \in SymbolsIn(p) /\ x.kind \in Callable /\ x.body = f.body /\ x.code = f.code
      /\ x.name = <<f.name>> /\ x.qname # <<>> /\ Last(x.qname) = f.name
      /\ x.id[3] = x.qname /\ x.id[4] = At(f.loc)
  BY <1>1, SymbolOfFunction
<1>3. IsOf(x.id, k)
  BY <1>1, <1>2, IdsTell
<1>4. ASSUME NEW l \in Functions, IsOf(x.id, l) PROVE f = Fn(l) /\ p = payload[l[1]]
  <2>1. p = payload[l[1]]
    BY <1>1, <1>2, <1>4, IdsTell
  <2>2. Fn(l) \in Range(p.functions)
    BY <2>1, FunctionsAre
  <2>3. At(Fn(l).loc) = At(f.loc) /\ Fn(l).name = f.name
    BY <1>2, <1>4 DEF IsOf
  <2> QED BY <1>1, <2>1, <2>2, <2>3 DEF IsFilePayload
<1> HIDE DEF x, p, f
<1>5. x = SymOf(k)
  BY DEF SymOf, x, p, f
<1> QED BY <1>2, <1>3, <1>4, <1>5 DEF p, f

\* What is listed under a name are the functions of the payload called so.
LEMMA ListedIs ==
  ASSUME PipelineInv, TraceInv, stage = "resolving", NEW text, NEW id
  PROVE  id \in Listed(text) <=>
           \E k \in Functions : id = SymOf(k).id /\ (text = SymOf(k).name \/ text = SymOf(k).qname)
<1> DEFINE tops == {file.top : file \in Range(built)}
           all == UNION {Range(Flat(top)) : top \in tops}
           Names(s) == {<<s.name, s.id>>, <<s.qname, s.id>>}
<1>1. payload \in Payloads
  BY DEF PipelineInv
<1>2. \A x : x \in all <=> \E p \in Range(payload) : x \in SymbolsIn(p)
  <2>1. \A file : file \in Range(built) <=> \E p \in Range(payload) : file = BuiltOf(p)
    <3>1. /\ DOMAIN built = 1 .. Len(built) /\ Len(built) = Len(payload)
          /\ DOMAIN payload = 1 .. Len(payload)
      BY FrontendAssumption, ListDomain DEF PipelineInv, TraceInv, IsPayload
    <3>2. DOMAIN InPathOrder = DOMAIN built /\ Range(InPathOrder) = Range(payload)
      BY <1>1, <3>1, OrderKeeps
    <3>3. \A i \in DOMAIN built : built[i] = BuiltOf(InPathOrder[i])
      BY DEF TraceInv
    <3> QED BY <3>2, <3>3 DEF Range
  <2>2. \A p \in Range(payload) : Range(Flat(BuiltOf(p).top)) = SymbolsIn(p)
    BY <1>1, FunctionsAre, FinishedSymbols
  <2>3. \A x : x \in all <=> \E file \in Range(built) : x \in Range(Flat(file.top))
    OBVIOUS
  <2> HIDE DEF all
  <2> QED BY <2>1, <2>2, <2>3
<1>3. ASSUME NEW x PROVE x \in all /\ x.kind \in Callable <=> \E k \in Functions : x = SymOf(k)
  <2>1. ASSUME NEW k \in Functions, x = SymOf(k) PROVE x \in all /\ x.kind \in Callable
    BY <1>1, <1>2, <2>1, SymOfIs, FunctionsAre
  <2>2. ASSUME x \in all, x.kind \in Callable PROVE \E k \in Functions : x = SymOf(k)
    <3>1. PICK p \in Range(payload) : x \in SymbolsIn(p)
      BY <1>2, <2>2
    <3>2. IsFilePayload(p)
      BY <1>1, FunctionsAre
    <3>3. PICK f \in Range(p.functions) : x = SymbolOf(p, f)
      BY <2>2, <3>1, <3>2, SymbolsInAre, SymbolOfType
    <3>4. PICK k \in Functions : payload[k[1]] = p /\ Fn(k) = f
      BY <1>1, FunctionsAre
    <3> QED BY <3>3, <3>4 DEF SymOf
  <2> HIDE DEF all
  <2> QED BY <2>1, <2>2
<1>4. \A entry : entry \in index <=> \E s \in {x \in all : x.kind \in Callable} : entry \in Names(s)
  BY DEF TraceInv, CallableNames
<1> HIDE DEF all
<1>5. \A entry : entry \in index <=> \E k \in Functions : entry \in Names(SymOf(k))
  BY <1>3, <1>4
<1>6. id \in Listed(text) <=> \E entry \in index : entry[1] = text /\ entry[2] = id
  BY DEF Listed
<1>7. ASSUME NEW k \in Functions
      PROVE  (\E entry \in Names(SymOf(k)) : entry[1] = text /\ entry[2] = id)
               <=> id = SymOf(k).id /\ (text = SymOf(k).name \/ text = SymOf(k).qname)
  OBVIOUS
<1> HIDE DEF Names
<1> QED BY <1>5, <1>6, <1>7

\* There are only so many functions to be meant.
LEMMA MeantFinite ==
  ASSUME PipelineInv, TraceInv, stage = "resolving", NEW text
  PROVE  IsFiniteSet(Meant(text))
<1> DEFINE flats == [i \in DOMAIN payload |-> payload[i].functions]
           places == Places(flats)
           ids == [k \in places |-> SymOf(k).id]
<1>1. payload \in Payloads
  BY DEF PipelineInv
<1>2. IsList(payload) /\ \A i \in DOMAIN payload : IsList(payload[i].functions)
  BY <1>1, FrontendAssumption DEF IsPayload, IsFilePayload
<1>3. IsList(flats) /\ DOMAIN flats = DOMAIN payload /\ \A i \in DOMAIN flats : IsList(flats[i])
  <2>1. Len(payload) \in Nat /\ DOMAIN payload = 1 .. Len(payload)
    BY <1>2, ListDomain
  <2> QED BY <1>2, <2>1, ListIntro
<1>4. places = Functions
  BY DEF Places, Functions
<1>5. IsFiniteSet(places)
  <2> HIDE DEF flats
  <2> QED BY <1>3, PlacesAre
<1> HIDE DEF places, flats
<1>6. IsFiniteSet(Range(ids))
  <2>1. ids \in Surjection(places, Range(ids))
    BY DEF Surjection, Range
  <2> QED BY <1>5, <2>1, FS_Surjection
<1>7. \A k \in Functions : SymOf(k).id \in Range(ids)
  BY <1>4 DEF Range
<1> HIDE DEF ids
<1>8. \A t : Listed(t) \subseteq Range(ids)
  BY <1>7, ListedIs
<1>9. Meant(text) \in SUBSET Range(ids)
  BY <1>8 DEF Meant
<1> QED BY <1>6, <1>9, FS_Subset

\* The name a call ends with, and the functions of that name.
NameOf(text) == IF text = <<>> THEN "" ELSE Bare(Last(text))
Named(name) == {k \in Functions : name # "" /\ Fn(k).name = name}

\* A call of a function of the payload means functions of the name it ends with, and some
\* if there are any: all of them, or only those whose qualified name it is.
LEMMA MeantIs ==
  ASSUME PipelineInv, TraceInv, stage = "resolving",
         NEW k \in Functions, NEW text \in Range(Fn(k).code.calls)
  PROVE  LET same == Named(NameOf(text))
         IN  /\ \A id \in Meant(text) : \E l \in same :
                  /\ id = SymOf(l).id
                  /\ text = SymOf(l).qname \/ \A m \in same : SymOf(m).id \in Meant(text)
             /\ Meant(text) = {} => same = {}
<1> DEFINE name == NameOf(text)
           same == Named(name)
<1>1. payload \in Payloads
  BY DEF PipelineInv
<1>2. CASE name = ""
  <2>1. Meant(text) = {}
    BY <1>2 DEF Meant, NameOf
  <2>2. same = {}
    BY <1>2 DEF Named
  <2> HIDE DEF same
  <2> QED BY <2>1, <2>2 DEF same
<1>3. CASE name # ""
  <2>1. text # <<>> /\ name = Bare(Last(text))
    BY <1>3 DEF NameOf
  <2>2. \A l \in Functions : l \in same <=> Fn(l).name = name
    BY <1>3 DEF Named
  <2>3. same \subseteq Functions
    BY DEF Named
  <2> HIDE DEF same, name
  <2>4. ASSUME NEW l \in Functions, Last(text) = Fn(l).name PROVE l \in same
    <3>1. Bare(Last(text)) \in {"", Fn(l).name}
      <4>1. IsPayload(payload)
        BY <1>1, FrontendAssumption
      <4>2. /\ k[1] \in DOMAIN payload /\ Fn(k) \in Range(payload[k[1]].functions)
            /\ l[1] \in DOMAIN payload /\ Fn(l) \in Range(payload[l[1]].functions)
        BY <1>1, FunctionsAre DEF Functions
      <4> QED BY <2>1, <2>4, <4>1, <4>2 DEF IsPayload
    <3> QED BY <1>3, <2>1, <2>2, <3>1
  <2>5. Last(<<name>>) = name
    BY DEF Last
  <2>6. ASSUME NEW l \in Functions
        PROVE  /\ <<name>> = SymOf(l).name <=> Fn(l).name = name
               /\ <<name>> = SymOf(l).qname => Fn(l).name = name
               /\ text = SymOf(l).name => text = <<Fn(l).name>> /\ Last(text) = Fn(l).name
               /\ text = SymOf(l).qname => Last(text) = Fn(l).name
    <3>1. SymOf(l).name = <<Fn(l).name>> /\ Last(SymOf(l).qname) = Fn(l).name
      BY <1>1, SymOfIs
    <3>2. Last(<<Fn(l).name>>) = Fn(l).name
      BY DEF Last
    <3> QED BY <2>5, <3>1, <3>2
  <2>7. ASSUME NEW id
        PROVE  id \in Listed(<<name>>) <=> \E l \in same : id = SymOf(l).id
    BY <2>2, <2>3, <2>6, ListedIs
  <2>8. ASSUME NEW id \in Listed(text)
        PROVE  \E l \in same : id = SymOf(l).id /\ (text = SymOf(l).qname \/ text = <<name>>)
    <3>1. PICK l \in Functions : id = SymOf(l).id /\ (text = SymOf(l).name \/ text = SymOf(l).qname)
      BY ListedIs
    <3>2. l \in same
      BY <2>4, <2>6, <3>1
    <3> QED BY <2>2, <2>6, <3>1, <3>2
  <2>9. Meant(text) = IF Listed(text) # {} THEN Listed(text) ELSE Listed(<<name>>)
    BY <1>3, <2>1 DEF Meant
  <2>10. ASSUME NEW id \in Meant(text)
         PROVE  \E l \in same : /\ id = SymOf(l).id
                                /\ text = SymOf(l).qname \/ \A m \in same : SymOf(m).id \in Meant(text)
    <3>1. CASE Listed(text) = {}
      <4>1. Meant(text) = Listed(<<name>>)
        BY <2>9, <3>1
      <4>2. \A m \in same : SymOf(m).id \in Meant(text)
        BY <2>7, <4>1
      <4> QED BY <2>7, <4>1, <4>2
    <3>2. CASE Listed(text) # {}
      <4>1. Meant(text) = Listed(text)
        BY <2>9, <3>2
      <4>2. PICK l \in same : id = SymOf(l).id /\ (text = SymOf(l).qname \/ text = <<name>>)
        BY <2>8, <4>1
      <4>3. text = <<name>> => \A m \in same : SymOf(m).id \in Meant(text)
        BY <2>7, <4>1
      <4> QED BY <4>2, <4>3
    <3> QED BY <3>1, <3>2
  <2>11. ASSUME Meant(text) = {} PROVE same = {}
    BY <2>7, <2>9, <2>11
  <2> QED BY <2>10, <2>11 DEF same, name
<1> QED BY <1>2, <1>3

\* A call is resolved to a function it can mean, and to no other it cannot tell from it; it
\* is unresolved just if there is none.
LEMMA ResolvedIs ==
  ASSUME PipelineInv, TraceInv, stage = "resolving",
         NEW k \in Functions, NEW text \in Range(Fn(k).code.calls)
  PROVE  LET c == Resolved(text)
             same == Named(NameOf(text))
         IN  /\ c.text = text
             /\ c.status = "unresolved" <=> same = {}
             /\ c.status = "resolved" =>
                  \E l \in same : /\ IsOf(c.callee, l)
                                  /\ \A m \in same \ {l} : Fn(m) # Fn(l) => text = c.callee[3]
<1> DEFINE same == Named(NameOf(text))
           meant == Meant(text)
           c == Resolved(text)
<1>1. payload \in Payloads /\ same \subseteq Functions
  BY DEF PipelineInv, Named
<1>2. /\ \A id \in meant : \E l \in same :
           /\ id = SymOf(l).id
           /\ text = SymOf(l).qname \/ \A m \in same : SymOf(m).id \in meant
      /\ meant = {} => same = {}
  BY MeantIs
<1>3. IsFiniteSet(meant)
  BY MeantFinite
<1>4. /\ c.text = text
      /\ c.status = IF meant = {} THEN "unresolved"
                    ELSE IF Cardinality(meant) = 1 THEN "resolved" ELSE "ambiguous"
      /\ Cardinality(meant) = 1 => c.callee = CHOOSE id \in meant : TRUE
  BY DEF Resolved
<1> HIDE DEF c, meant, same
<1>5. ASSUME c.status = "resolved"
      PROVE  \E l \in same : /\ IsOf(c.callee, l)
                             /\ \A m \in same \ {l} : Fn(m) # Fn(l) => text = c.callee[3]
  <2>1. Cardinality(meant) = 1 /\ c.callee = CHOOSE id \in meant : TRUE
    BY <1>4, <1>5
  <2>2. PICK id : meant = {id}
    BY <1>3, <2>1, FS_Singleton
  <2>3. c.callee = id /\ id \in meant
    BY <2>1, <2>2
  <2>4. PICK l \in same : /\ id = SymOf(l).id
                          /\ text = SymOf(l).qname \/ \A m \in same : SymOf(m).id \in meant
    BY <1>2, <2>3
  <2>5. l \in Functions /\ IsOf(id, l) /\ id[3] = SymOf(l).qname
    BY <1>1, <2>4, SymOfIs
  <2>6. ASSUME NEW m \in same, Fn(m) # Fn(l) PROVE text = id[3]
    <3> SUFFICES ASSUME SymOf(m).id \in meant PROVE FALSE
      BY <2>4, <2>5
    <3>1. SymOf(m).id = SymOf(l).id
      BY <2>2, <2>4
    <3>2. m \in Functions /\ IsOf(SymOf(l).id, m)
      BY <1>1, <3>1, SymOfIs
    <3>3. Fn(l) = Fn(m)
      BY <1>1, <2>5, <3>2, SymOfIs
    <3> QED BY <2>6, <3>3
  <2> QED BY <2>3, <2>4, <2>5, <2>6
<1>6. c.status = "unresolved" <=> same = {}
  <2>1. c.status = "unresolved" <=> meant = {}
    BY <1>4
  <2> QED BY <1>2, <2>1
<1> QED BY <1>4, <1>5, <1>6 DEF c, same

\* The calls of a function with a body are those resolved; other symbols have none.
LEMMA CallsOf ==
  ASSUME payload \in Payloads, NEW p \in Range(payload), NEW x \in SymbolsIn(p),
         NEW c \in Range(DoneOf(BuiltOf(p), x).code.calls)
  PROVE  \E k \in Functions : \E text \in Range(Fn(k).code.calls) :
           p = payload[k[1]] /\ x = SymOf(k) /\ c = Resolved(text)
<1> DEFINE calls == IF x.body = NoBody THEN <<>>
                    ELSE [i \in DOMAIN x.code.calls |-> Resolved(x.code.calls[i])]
<1>1. IsFilePayload(p)
  BY FunctionsAre
<1>2. IsSymbol(x)
  BY <1>1, SymbolsInAre, SymbolOfType, SymbolOfFunction
<1>3. c \in Range(calls)
  BY <1>2, DoneIs
<1>4. x.body # NoBody
  <2>1. Range(<<>>) = {}
    BY DEF Range
  <2> QED BY <1>3, <2>1
<1>5. PICK f \in Range(p.functions) : x = SymbolOf(p, f)
  BY <1>1, <1>4, SymbolsInAre, SymbolOfType
<1>6. PICK k \in Functions : payload[k[1]] = p /\ Fn(k) = f
  BY FunctionsAre
<1>7. x = SymOf(k) /\ x.code = Fn(k).code
  BY <1>1, <1>5, <1>6, SymbolOfFunction DEF SymOf
<1>8. PICK i \in DOMAIN x.code.calls : c = Resolved(x.code.calls[i])
  BY <1>3, <1>4 DEF Range
<1>9. x.code.calls[i] \in Range(Fn(k).code.calls)
  BY <1>7 DEF Range
<1> QED BY <1>6, <1>7, <1>8, <1>9

\* Whom a call means is found over all files.
THEOREM AlwaysEveryFile == Spec => []CallsSeeEveryFile
<1>1. ASSUME PipelineInv, TraceInv PROVE CallsSeeEveryFile
  <2> SUFFICES ASSUME NEW i \in DOMAIN files, NEW s \in Range(SymbolsOf(files[i])), NEW c \in Range(s.code.calls)
               PROVE  LET same == Named(NameOf(c.text))
                      IN  /\ c.status = "resolved" =>
                               \E k \in same : /\ IsOf(c.callee, k)
                                               /\ \A l \in same \ {k} : Fn(l) # Fn(k) => c.text = c.callee[3]
                          /\ c.status = "unresolved" <=> same = {}
    BY DEF CallsSeeEveryFile, Named, NameOf
  <2>1. payload \in Payloads /\ stage = "resolving"
    <3>1. files # <<>>
      OBVIOUS
    <3> QED BY <1>1, <3>1 DEF PipelineInv, TraceInv
  <2>2. PICK p \in Range(payload) : files[i] = Finished(BuiltOf(p)) /\ IsFilePayload(p)
    BY <1>1, FilesFrom
  <2>3. PICK x \in SymbolsIn(p) : s = DoneOf(BuiltOf(p), x)
    BY <2>2, FinishedSymbols
  <2>4. PICK k, text : k \in Functions /\ text \in Range(Fn(k).code.calls) /\ c = Resolved(text)
    BY <2>1, <2>3, CallsOf
  <2> QED BY <1>1, <2>1, <2>4, ResolvedIs
<1> QED BY <1>1, PipelineInvariant, TraceInvariant, PTL

----------------------------------------------------------------------------
(* What the notes tell.                                                    *)

\* A finite set has a number of elements, and some if the number is not 0.
LEMMA CountTells ==
  ASSUME NEW S, IsFiniteSet(S)
  PROVE  Cardinality(S) \in Nat /\ (Cardinality(S) > 0 <=> S # {})
<1>1. Cardinality(S) \in Nat /\ (Cardinality(S) = 0 <=> S = {})
  BY FS_CardinalityType, FS_EmptySet
<1> QED BY <1>1

\* Files and symbols of a state are counted just if there are some.
LEMMA CountsTell ==
  ASSUME NEW fs, IsList(fs), \A i \in DOMAIN fs : IsFile(fs[i]), NEW state \in States
  PROVE  EligibilityCounts(fs)[state] > 0 <=>
           \/ \E i \in DOMAIN fs : fs[i].eligibility.state = state
           \/ \E i \in DOMAIN fs : \E s \in Range(SymbolsOf(fs[i])) : s.eligibility.state = state
<1> DEFINE A == {i \in DOMAIN fs : fs[i].eligibility.state = state}
           ss == [i \in DOMAIN fs |-> SymbolsOf(fs[i])]
           places == Places(ss)
           B == {k \in places : SymbolsOf(fs[k[1]])[k[2]].eligibility.state = state}
<1>1. EligibilityCounts(fs)[state] = Cardinality(A) + Cardinality(B)
  BY DEF EligibilityCounts, Places
<1>2. IsFiniteSet(A)
  <2>1. IsFiniteSet(DOMAIN fs)
    BY ListFinite
  <2>2. A \in SUBSET DOMAIN fs
    OBVIOUS
  <2> QED BY <2>1, <2>2, FS_Subset
<1>3. IsList(ss) /\ DOMAIN ss = DOMAIN fs /\ \A i \in DOMAIN ss : IsList(ss[i])
  <2>1. Len(fs) \in Nat /\ DOMAIN fs = 1 .. Len(fs)
    BY ListDomain
  <2>2. IsList(ss) /\ DOMAIN ss = DOMAIN fs
    BY <2>1, ListIntro
  <2>3. ASSUME NEW i \in DOMAIN fs PROVE IsList(SymbolsOf(fs[i]))
    BY FlatType DEF IsFile, SymbolsOf, IsSymbolList
  <2> QED BY <2>2, <2>3
<1>4. \A i \in DOMAIN fs : ss[i] = SymbolsOf(fs[i])
  OBVIOUS
<1> HIDE DEF ss
<1>5. /\ IsFiniteSet(places)
      /\ \A k \in places : k[1] \in DOMAIN fs /\ k[2] \in DOMAIN SymbolsOf(fs[k[1]])
      /\ \A i \in DOMAIN fs : \A j \in DOMAIN SymbolsOf(fs[i]) : <<i, j>> \in places
  BY <1>3, <1>4, PlacesAre
<1> HIDE DEF places
<1>6. IsFiniteSet(B)
  <2>1. B \in SUBSET places
    OBVIOUS
  <2> QED BY <1>5, <2>1, FS_Subset
<1>7. A # {} <=> \E i \in DOMAIN fs : fs[i].eligibility.state = state
  OBVIOUS
<1>8. B # {} <=> \E i \in DOMAIN fs : \E s \in Range(SymbolsOf(fs[i])) : s.eligibility.state = state
  <2>1. ASSUME NEW k \in B
        PROVE  \E i \in DOMAIN fs : \E s \in Range(SymbolsOf(fs[i])) : s.eligibility.state = state
    BY <1>5 DEF Range
  <2>2. ASSUME NEW i \in DOMAIN fs, NEW s \in Range(SymbolsOf(fs[i])), s.eligibility.state = state
        PROVE  B # {}
    <3>1. PICK j \in DOMAIN SymbolsOf(fs[i]) : SymbolsOf(fs[i])[j] = s
      BY DEF Range
    <3>2. <<i, j>> \in B
      BY <1>5, <2>2, <3>1
    <3> QED BY <3>2
  <2> QED BY <2>1, <2>2
<1> HIDE DEF A, B
<1>9. /\ Cardinality(A) \in Nat /\ (Cardinality(A) > 0 <=> A # {})
      /\ Cardinality(B) \in Nat /\ (Cardinality(B) > 0 <=> B # {})
  BY <1>2, <1>6, CountTells
<1> DEFINE a == Cardinality(A)
           b == Cardinality(B)
<1>10. a + b > 0 <=> a > 0 \/ b > 0
  <2>1. a \in Nat /\ b \in Nat
    BY <1>9
  <2> HIDE DEF a, b
  <2> QED BY <2>1
<1> QED BY <1>1, <1>7, <1>8, <1>9, <1>10

\* What counts against the symbols of a file is a list, one for each construct.
LEMMA RecordsAre ==
  ASSUME NEW p, IsFilePayload(p)
  PROVE  LET records == RecordsOf(BuiltOf(p))
         IN  IsList(records) /\ DOMAIN records = DOMAIN p.unsupported
<1>1. Len(p.unsupported) \in Nat /\ DOMAIN p.unsupported = 1 .. Len(p.unsupported)
  BY ListDomain DEF IsFilePayload
<1> DEFINE records == RecordsOf(BuiltOf(p))
<1>2. records = [i \in 1 .. Len(p.unsupported) |->
                   [category |-> p.unsupported[i].category, impact |-> Impact(p.unsupported[i].category),
                    owner |-> Owner(p.unsupported[i].loc, Flat(BuiltOf(p).top))]]
  BY <1>1 DEF RecordsOf, Attached, BuiltOf
<1>3. records = [i \in 1 .. Len(p.unsupported) |-> records[i]]
  BY <1>2
<1> HIDE DEF records
<1> QED BY <1>1, <1>3, ListIntro DEF records

\* If no construct is counted, no file has one.
LEMMA NoneUnsupported ==
  ASSUME NEW fs, IsList(fs), \A i \in DOMAIN fs : IsList(fs[i].records), ~(UnsupportedTotal(fs) > 0),
         NEW i \in DOMAIN fs
  PROVE  DOMAIN fs[i].records = {}
<1> DEFINE ss == [j \in DOMAIN fs |-> fs[j].records]
           places == Places(ss)
<1>1. UnsupportedTotal(fs) = Cardinality(places)
  BY DEF UnsupportedTotal, Places
<1>2. Len(fs) \in Nat /\ DOMAIN fs = 1 .. Len(fs)
  BY ListDomain
<1>3. IsList(ss) /\ DOMAIN ss = DOMAIN fs
  BY <1>2, ListIntro
<1>4. \A j \in DOMAIN fs : ss[j] = fs[j].records
  OBVIOUS
<1> HIDE DEF ss
<1>5. IsFiniteSet(places) /\ \A j \in DOMAIN fs[i].records : <<i, j>> \in places
  BY <1>3, <1>4, PlacesAre
<1> HIDE DEF places
<1> QED BY <1>1, <1>5, CountTells

\* If no call is counted as unresolved or ambiguous, no symbol has one.
LEMMA AllSure ==
  ASSUME NEW fs, IsList(fs), \A i \in DOMAIN fs : IsFile(fs[i]), ~Unsure(CallResolution(fs)),
         NEW i \in DOMAIN fs, NEW s \in Range(SymbolsOf(fs[i])), NEW c \in Range(s.code.calls)
  PROVE  c.status \notin {"unresolved", "ambiguous"}
<1> DEFINE calls(j) == [n \in DOMAIN SymbolsOf(fs[j]) |-> SymbolsOf(fs[j])[n].code.calls]
           ss == [j \in DOMAIN fs |-> Concatenated(calls(j))]
<1>1. Len(fs) \in Nat /\ DOMAIN fs = 1 .. Len(fs)
  BY ListDomain
<1>2. IsList(ss) /\ DOMAIN ss = DOMAIN fs
  BY <1>1, ListIntro
<1>3. ASSUME NEW j \in DOMAIN fs
      PROVE  /\ IsList(calls(j)) /\ DOMAIN calls(j) = DOMAIN SymbolsOf(fs[j])
             /\ \A n \in DOMAIN calls(j) : /\ IsList(calls(j)[n])
                                           /\ calls(j)[n] = SymbolsOf(fs[j])[n].code.calls
  <2>1. IsSymbolList(SymbolsOf(fs[j]))
    BY FlatType DEF IsFile, SymbolsOf
  <2>2. Len(SymbolsOf(fs[j])) \in Nat /\ DOMAIN SymbolsOf(fs[j]) = 1 .. Len(SymbolsOf(fs[j]))
    BY <2>1, ListDomain DEF IsSymbolList
  <2>3. IsList(calls(j)) /\ DOMAIN calls(j) = DOMAIN SymbolsOf(fs[j])
    BY <2>2, ListIntro
  <2>4. \A n \in DOMAIN SymbolsOf(fs[j]) : IsList(SymbolsOf(fs[j])[n].code.calls)
    BY <2>1 DEF IsSymbolList, IsSymbol, IsCode
  <2> QED BY <2>3, <2>4
<1>4. \A j \in DOMAIN fs : ss[j] = Concatenated(calls(j))
  OBVIOUS
<1>5. CallSites(fs) = Concatenated(ss)
  BY DEF CallSites
<1> HIDE DEF calls, ss
<1>6. ASSUME NEW j \in DOMAIN fs
      PROVE  /\ IsList(ss[j])
             /\ \A n \in DOMAIN calls(j) : \A m \in DOMAIN calls(j)[n] :
                  \E q \in DOMAIN ss[j] : ss[j][q] = calls(j)[n][m]
  BY <1>3, <1>4, ConcatenatedHasAll
<1>7. /\ IsList(CallSites(fs))
      /\ \A j \in DOMAIN ss : \A n \in DOMAIN ss[j] :
           \E q \in DOMAIN CallSites(fs) : CallSites(fs)[q] = ss[j][n]
  BY <1>2, <1>5, <1>6, ConcatenatedHasAll
<1>8. PICK n \in DOMAIN SymbolsOf(fs[i]) : SymbolsOf(fs[i])[n] = s
  BY DEF Range
<1>9. PICK m \in DOMAIN s.code.calls : s.code.calls[m] = c
  BY DEF Range
<1>10. PICK q \in DOMAIN ss[i] : ss[i][q] = c
  BY <1>3, <1>6, <1>8, <1>9
<1>11. PICK r \in DOMAIN CallSites(fs) : CallSites(fs)[r] = c
  BY <1>2, <1>7, <1>10
<1>12. ASSUME NEW status \in {"unresolved", "ambiguous"}, c.status = status PROVE FALSE
  <2> DEFINE S == {x \in DOMAIN CallSites(fs) : CallSites(fs)[x].status = status}
  <2>1. CallResolution(fs)[status] = Cardinality(S)
    BY DEF CallResolution
  <2>2. IsFiniteSet(S)
    <3>1. IsFiniteSet(DOMAIN CallSites(fs))
      BY <1>7, ListFinite
    <3>2. S \in SUBSET DOMAIN CallSites(fs)
      OBVIOUS
    <3> QED BY <3>1, <3>2, FS_Subset
  <2>3. S # {}
    BY <1>11, <1>12
  <2> HIDE DEF S
  <2>4. CallResolution(fs)[status] > 0
    BY <2>1, <2>2, <2>3, CountTells
  <2> QED BY <1>12, <2>4 DEF Unsure
<1> QED BY <1>12

\* The report notes a partial analysis just if a file or a symbol was not fully analysed; if
\* it notes nothing else, there is nothing unsupported, and each call is resolved.
LEMMA NotesTell ==
  ASSUME PipelineInv, TraceInv, phase \in {"reported", "rendered"}
  PROVE  LET Bad(state) == state \in {"partially-analyzed", "skipped"}
         IN  /\ "partial" \in report.notes <=>
                  \/ \E i \in DOMAIN files : Bad(files[i].eligibility.state)
                  \/ \E i \in DOMAIN files : \E s \in Range(SymbolsOf(files[i])) : Bad(s.eligibility.state)
             /\ "unsupported" \notin report.notes => \A i \in DOMAIN files : DOMAIN files[i].records = {}
             /\ "calls" \notin report.notes =>
                  \A i \in DOMAIN files : \A s \in Range(SymbolsOf(files[i])) : \A c \in Range(s.code.calls) :
                    c.status \notin {"unresolved", "ambiguous"}
<1> DEFINE counts == EligibilityCounts(files)
<1>1. IsList(files) /\ \A i \in DOMAIN files : IsFile(files[i])
  BY DEF PipelineInv
<1>2. report.notes = CoverageNotes(counts, UnsupportedTotal(files), CallResolution(files))
  BY DEF PipelineInv, ReportOf
<1>3. /\ "partial" \in report.notes <=> counts["partially-analyzed"] > 0 \/ counts["skipped"] > 0
      /\ "unsupported" \notin report.notes => ~(UnsupportedTotal(files) > 0)
      /\ "calls" \notin report.notes => ~Unsure(CallResolution(files))
  <2> HIDE DEF counts
  <2> QED BY <1>2 DEF CoverageNotes, HasPartialAnalysis
<1>4. ASSUME NEW state \in {"partially-analyzed", "skipped"}
      PROVE  counts[state] > 0 <=>
               \/ \E i \in DOMAIN files : files[i].eligibility.state = state
               \/ \E i \in DOMAIN files : \E s \in Range(SymbolsOf(files[i])) : s.eligibility.state = state
  <2>1. state \in States
    BY DEF States
  <2> QED BY <1>1, <2>1, CountsTell
<1>5. \A i \in DOMAIN files : IsList(files[i].records)
  <2> SUFFICES ASSUME NEW i \in DOMAIN files PROVE IsList(files[i].records)
    OBVIOUS
  <2>1. PICK p \in Range(payload) : files[i] = Finished(BuiltOf(p)) /\ IsFilePayload(p)
    BY FilesFrom
  <2>2. files[i].records = RecordsOf(BuiltOf(p))
    BY <2>1, FinishedSymbols, FinishedHas
  <2> QED BY <2>1, <2>2, RecordsAre
<1> HIDE DEF counts
<1>6. "unsupported" \notin report.notes => \A i \in DOMAIN files : DOMAIN files[i].records = {}
  BY <1>1, <1>3, <1>5, NoneUnsupported
<1>7. "calls" \notin report.notes =>
        \A i \in DOMAIN files : \A s \in Range(SymbolsOf(files[i])) : \A c \in Range(s.code.calls) :
          c.status \notin {"unresolved", "ambiguous"}
  BY <1>1, <1>3, AllSure
<1>8. "partial" \in report.notes <=>
        \/ \E i \in DOMAIN files : files[i].eligibility.state \in {"partially-analyzed", "skipped"}
        \/ \E i \in DOMAIN files : \E s \in Range(SymbolsOf(files[i])) :
             s.eligibility.state \in {"partially-analyzed", "skipped"}
  BY <1>3, <1>4
<1> QED BY <1>6, <1>7, <1>8

\* A list without elements is the empty one.
LEMMA EmptyList ==
  ASSUME NEW s, IsList(s), DOMAIN s = {}
  PROVE  s = <<>>
<1> DEFINE S == {s[i] : i \in DOMAIN s}
           n == Len(s)
<1>1. s \in Seq(S) /\ n \in Nat /\ 1 .. n = {}
  BY ListDomain DEF IsList
<1> HIDE DEF S, n
<1>2. 1 \notin 1 .. n
  BY <1>1
<1>3. n = 0
  BY <1>1, <1>2
<1> QED BY <1>1, <1>3 DEF n

\* What is finished of a file when the report is written.
LEMMA FinishedIs ==
  ASSUME PipelineInv, TraceInv, phase # "waiting", NEW p \in Range(payload)
  PROVE  \E i \in DOMAIN files :
           /\ files[i].records = RecordsOf(BuiltOf(p))
           /\ files[i].eligibility = ClassifyFile(p.parse_ok, files[i].top, RecordsOf(BuiltOf(p)))
           /\ Range(SymbolsOf(files[i])) = {DoneOf(BuiltOf(p), x) : x \in SymbolsIn(p)}
<1>1. payload \in Payloads /\ Normalized
  BY DEF PipelineInv
<1>2. IsFilePayload(p)
  BY <1>1, FunctionsAre
<1>3. PICK i \in DOMAIN files : files[i] = Finished(BuiltOf(p))
  BY <1>1, AllFinished
<1>4. /\ files[i].records = RecordsOf(BuiltOf(p))
      /\ files[i].eligibility = ClassifyFile(BuiltOf(p).parse_ok, files[i].top, RecordsOf(BuiltOf(p)))
  BY <1>2, <1>3, FinishedSymbols, FinishedHas
<1>5. BuiltOf(p).parse_ok = p.parse_ok
  BY DEF BuiltOf
<1>6. Range(SymbolsOf(files[i])) = {DoneOf(BuiltOf(p), x) : x \in SymbolsIn(p)}
  BY <1>2, <1>3, FinishedSymbols
<1> QED BY <1>4, <1>5, <1>6

\* A report without notes is one of an analysis that understood everything.
THEOREM AlwaysSilent == Spec => []SilenceMeansUnderstood
<1>1. ASSUME PipelineInv, TraceInv, FoundInv PROVE SilenceMeansUnderstood
  <2> SUFFICES ASSUME phase \in {"reported", "rendered"}, report.notes = {}
               PROVE  /\ \A i \in DOMAIN payload : payload[i].parse_ok /\ payload[i].unsupported = <<>>
                      /\ \A k \in Functions : Fn(k).body # NoBody =>
                           /\ \E s \in Range(Selected(unit)) : IsOf(s.id, k) /\ s.body = "located" /\ AllowHigh(s)
                           /\ \A c \in Range(Fn(k).code.calls) :
                                c # <<>> /\ \E l \in Functions : Fn(l).name = Bare(Last(c))
    BY DEF SilenceMeansUnderstood
  <2>1. payload \in Payloads /\ phase # "waiting" /\ stage = "resolving"
    BY <1>1 DEF PipelineInv, Normalized
  <2>2. /\ \A i \in DOMAIN files :
             /\ files[i].eligibility.state \notin {"partially-analyzed", "skipped"}
             /\ DOMAIN files[i].records = {}
        /\ \A i \in DOMAIN files : \A s \in Range(SymbolsOf(files[i])) :
             /\ s.eligibility.state \notin {"partially-analyzed", "skipped"}
             /\ \A c \in Range(s.code.calls) : c.status \notin {"unresolved", "ambiguous"}
    BY <1>1, NotesTell
  <2>3. ASSUME NEW p \in Range(payload)
        PROVE  /\ p.parse_ok /\ p.unsupported = <<>>
               /\ DOMAIN RecordsOf(BuiltOf(p)) = {}
               /\ \A x \in SymbolsIn(p) :
                    /\ DoneOf(BuiltOf(p), x).eligibility.state \notin {"partially-analyzed", "skipped"}
                    /\ \A c \in Range(DoneOf(BuiltOf(p), x).code.calls) : c.status \notin {"unresolved", "ambiguous"}
    <3>1. PICK i \in DOMAIN files :
            /\ files[i].records = RecordsOf(BuiltOf(p))
            /\ files[i].eligibility = ClassifyFile(p.parse_ok, files[i].top, RecordsOf(BuiltOf(p)))
            /\ Range(SymbolsOf(files[i])) = {DoneOf(BuiltOf(p), x) : x \in SymbolsIn(p)}
      BY <1>1, <2>1, FinishedIs
    <3>2. p.parse_ok
      <4> SUFFICES ASSUME ~p.parse_ok PROVE files[i].eligibility.state = "skipped"
        BY <2>2
      <4> QED BY <3>1 DEF ClassifyFile, Eligibility
    <3>3. DOMAIN RecordsOf(BuiltOf(p)) = {}
      BY <2>2, <3>1
    <3>4. p.unsupported = <<>>
      <4>1. IsFilePayload(p)
        BY <2>1, FunctionsAre
      <4>2. DOMAIN p.unsupported = {} /\ IsList(p.unsupported)
        BY <3>3, <4>1, RecordsAre DEF IsFilePayload
      <4> QED BY <4>2, EmptyList
    <3> QED BY <2>2, <3>1, <3>2, <3>3, <3>4
  <2>4. ASSUME NEW k \in Functions, Fn(k).body # NoBody
        PROVE  /\ \E s \in Range(Selected(unit)) : IsOf(s.id, k) /\ s.body = "located" /\ AllowHigh(s)
               /\ \A c \in Range(Fn(k).code.calls) :
                    c # <<>> /\ \E l \in Functions : Fn(l).name = Bare(Last(c))
    <3> DEFINE p == payload[k[1]]
               x == SymOf(k)
               d == DoneOf(BuiltOf(p), x)
    <3>1. p \in Range(payload) /\ IsFilePayload(p)
      BY <2>1, FunctionsAre
    <3>2. IsSymbol(x) /\ x \in SymbolsIn(p) /\ x.body = Fn(k).body /\ x.code = Fn(k).code
      BY <2>1, SymOfIs
    <3>3. /\ p.parse_ok /\ DOMAIN RecordsOf(BuiltOf(p)) = {}
          /\ d.eligibility.state \notin {"partially-analyzed", "skipped"}
          /\ \A c \in Range(d.code.calls) : c.status \notin {"unresolved", "ambiguous"}
      BY <2>3, <3>1, <3>2
    <3>4. SeenAs(k) = Seen(d)
      BY DEF SeenAs, SymOf
    <3>5. d.code.calls = [i \in DOMAIN x.code.calls |-> Resolved(x.code.calls[i])]
      BY <2>4, <3>2, DoneIs
    <3> DEFINE records == RecordsOf(BuiltOf(p))
               mine == {i \in DOMAIN records : records[i].owner = x.id}
    <3>6. /\ SeenAs(k).state = d.eligibility.state
          /\ SeenAs(k).unsupported = Cardinality(mine)
          /\ SeenAs(k).body = "located" <=> x.body # NoBody /\ IsValid(x.body)
          /\ p.parse_ok /\ x.body # NoBody /\ ~IsValid(x.body) => SeenAs(k).state = "skipped"
          /\ p.parse_ok /\ x.body # NoBody /\ IsValid(x.body) => SeenAs(k).state \in Ready
      BY <3>1, <3>2, <3>4, SeenIs
    <3>7. mine = {} /\ Cardinality({}) = 0
      BY <3>3, FS_EmptySet
    <3> HIDE DEF d, mine, x
    <3>8. /\ IsValid(Fn(k).body) /\ SeenAs(k).body = "located"
          /\ SeenAs(k).state = "cfg-ready" /\ SeenAs(k).unsupported = 0
      BY <2>4, <3>2, <3>3, <3>6, <3>7 DEF Ready
    <3>9. HasBody(k)
      BY <2>4, <3>3, <3>8 DEF HasBody
    <3>10. PICK n \in DOMAIN Selected(unit) : IsOf(Selected(unit)[n].id, k)
      BY <1>1, <2>1, <3>9, SelectedSees
    <3>11. Selected(unit)[n] = SeenAs(k)
      BY <1>1, <2>1, <3>10, SelectedIsSeen
    <3>12. Selected(unit)[n] \in Range(Selected(unit)) /\ AllowHigh(Selected(unit)[n])
      BY <3>8, <3>11 DEF AllowHigh, Range
    <3>13. ASSUME NEW c \in Range(Fn(k).code.calls)
           PROVE  c # <<>> /\ \E l \in Functions : Fn(l).name = Bare(Last(c))
      <4>1. Resolved(c) \in Range(d.code.calls)
        BY <3>2, <3>5 DEF Range
      <4>2. Resolved(c).status # "unresolved"
        BY <3>3, <4>1
      <4>3. Named(NameOf(c)) # {}
        BY <1>1, <2>1, <4>2, ResolvedIs
      <4> QED BY <4>3 DEF Named, NameOf
    <3> QED BY <3>8, <3>10, <3>11, <3>12, <3>13
  <2>5. \A i \in DOMAIN payload : payload[i].parse_ok /\ payload[i].unsupported = <<>>
    BY <2>3 DEF Range
  <2> QED BY <2>4, <2>5
<1> QED BY <1>1, PipelineInvariant, TraceInvariant, FoundInvariant, PTL

----------------------------------------------------------------------------
(* What makes an analysis partial.                                         *)

Bad == {"partially-analyzed", "skipped"}

\* The state of a symbol of a file when the frontend is done with it.
StateOf(p, x) == DoneOf(BuiltOf(p), x).eligibility.state

\* The functions of a file that belong to no type.
FreeOf(p) == {f \in Range(p.functions) : Parent(f, p) = 0}

\* What can be analysed at the top level of a file are its functions of no type.
LEMMA AnalyzableAre ==
  ASSUME NEW p, IsFilePayload(p)
  PROVE  LET top == Finished(BuiltOf(p)).top
         IN  {top[i].symbol : i \in Analyzable(top)} = {DoneOf(BuiltOf(p), SymbolOf(p, f)) : f \in FreeOf(p)}
<1> DEFINE file == BuiltOf(p)
           old == file.top
           top == Finished(file).top
<1>1. IsTop(old) /\ old = FileSymbols(p)
  BY FinishedSymbols, FileSymbolsType DEF BuiltOf
<1>2. DOMAIN top = DOMAIN old /\ \A i \in DOMAIN top : top[i].symbol = DoneOf(file, old[i].symbol)
  BY <1>1, FinishedHas
<1>3. {e.symbol : e \in Range(old)} = TypesOf(p) \cup FunctionsIn(p, FreeOf(p))
  BY <1>1, FileSymbolsType DEF FreeOf
<1>4. \A i \in DOMAIN old : IsSymbol(old[i].symbol)
  BY <1>1 DEF IsTop, IsEntry
<1> HIDE DEF file, old, top
<1>5. ASSUME NEW i \in DOMAIN top PROVE top[i].symbol.kind = old[i].symbol.kind
  <2> DEFINE d == DoneOf(file, old[i].symbol)
  <2>1. IsSymbol(old[i].symbol) /\ top[i].symbol = d
    BY <1>2, <1>4
  <2>2. d.kind = old[i].symbol.kind
    BY <2>1, DoneIs
  <2> HIDE DEF d
  <2> QED BY <2>1, <2>2
<1>6. \A x : (\E i \in DOMAIN old : x = old[i].symbol) <=>
               \/ \E t \in Range(p.types) : x = TypeSymbol(p.path, t)
               \/ \E f \in FreeOf(p) : x = SymbolOf(p, f)
  BY <1>3 DEF TypesOf, FunctionsIn, SymbolOf, Range
<1>7. ASSUME NEW i \in Analyzable(top) PROVE \E f \in FreeOf(p) : top[i].symbol = DoneOf(file, SymbolOf(p, f))
  <2>1. i \in DOMAIN top /\ old[i].symbol.kind \in Callable
    BY <1>5 DEF Analyzable
  <2>2. PICK f \in FreeOf(p) : old[i].symbol = SymbolOf(p, f)
    BY <1>2, <1>6, <2>1, SymbolOfType
  <2> QED BY <1>2, <2>1, <2>2
<1>8. ASSUME NEW f \in FreeOf(p) PROVE \E i \in Analyzable(top) : top[i].symbol = DoneOf(file, SymbolOf(p, f))
  <2>1. PICK i \in DOMAIN old : old[i].symbol = SymbolOf(p, f)
    BY <1>6
  <2>2. SymbolOf(p, f).kind \in Callable
    BY SymbolOfFunction DEF FreeOf
  <2>3. i \in Analyzable(top)
    BY <1>2, <1>5, <2>1, <2>2 DEF Analyzable
  <2> QED BY <1>2, <2>1, <2>3
<1> QED BY <1>7, <1>8 DEF file, top

\* Of a file that was parsed, and in which no symbol was analysed in part or skipped, the
\* analysis is partial just if something in it is ready but not all that counts.
LEMMA FileIsBad ==
  ASSUME NEW p, IsFilePayload(p), p.parse_ok, \A x \in SymbolsIn(p) : StateOf(p, x) \notin Bad
  PROVE  Finished(BuiltOf(p)).eligibility.state \in Bad <=>
           /\ \E x \in SymbolsIn(p) : StateOf(p, x) = "cfg-ready"
           /\ FreeOf(p) = {} \/ \E f \in FreeOf(p) : StateOf(p, SymbolOf(p, f)) # "cfg-ready"
<1> DEFINE top == Finished(BuiltOf(p)).top
           records == RecordsOf(BuiltOf(p))
           state(i) == top[i].symbol.eligibility.state
           below == {s.eligibility.state : s \in Range(Flat(top))}
           all == Analyzable(top) # {} /\ \A i \in Analyzable(top) : state(i) = "cfg-ready"
           skipped == \A i \in DOMAIN top : state(i) = "skipped"
           ready == \E x \in SymbolsIn(p) : StateOf(p, x) = "cfg-ready"
           file == ClassifyFile(p.parse_ok, top, records)
<1>1. BuiltOf(p).parse_ok = p.parse_ok
  BY DEF BuiltOf
<1>2. Finished(BuiltOf(p)).eligibility = file
  BY <1>1, FinishedSymbols, FinishedHas
<1>3. Range(Flat(top)) = {DoneOf(BuiltOf(p), x) : x \in SymbolsIn(p)}
  BY FinishedSymbols DEF SymbolsOf
<1>4. IsTop(top)
  BY FinishedSymbols, FinishedType DEF IsFile
<1>5. \A i \in DOMAIN top : top[i].symbol \in Range(Flat(top))
  BY <1>4, FlatHasEach
<1>6. below = {StateOf(p, x) : x \in SymbolsIn(p)}
  BY <1>3 DEF StateOf
<1>7. \A i \in DOMAIN top : state(i) \in below
  BY <1>5
<1>8. {top[i].symbol : i \in Analyzable(top)} = {DoneOf(BuiltOf(p), SymbolOf(p, f)) : f \in FreeOf(p)}
  BY AnalyzableAre
<1>9. all <=> FreeOf(p) # {} /\ \A f \in FreeOf(p) : StateOf(p, SymbolOf(p, f)) = "cfg-ready"
  <2>1. \A i \in Analyzable(top) : \E f \in FreeOf(p) : state(i) = StateOf(p, SymbolOf(p, f))
    BY <1>8 DEF StateOf
  <2>2. \A f \in FreeOf(p) : \E i \in Analyzable(top) : state(i) = StateOf(p, SymbolOf(p, f))
    BY <1>8 DEF StateOf
  <2> HIDE DEF state, top
  <2> QED BY <2>1, <2>2
<1>10. file.state = CASE ~p.parse_ok -> "skipped"
                      [] p.parse_ok /\ top = <<>> -> "normalized"
                      [] p.parse_ok /\ top # <<>> /\ skipped -> "skipped"
                      [] OTHER -> IF "partially-analyzed" \in below THEN "partially-analyzed"
                                  ELSE IF all THEN "cfg-ready"
                                  ELSE IF "cfg-ready" \in below THEN "partially-analyzed"
                                  ELSE "normalized"
  BY DEF ClassifyFile, Eligibility
<1>11. "cfg-ready" \in below <=> ready
  BY <1>6
<1>12. "partially-analyzed" \notin below /\ "skipped" \notin below
  BY <1>6 DEF Bad
<1>13. top = <<>> => below = {}
  <2> SUFFICES ASSUME top = <<>> PROVE Range(Flat(top)) = {}
    OBVIOUS
  <2>1. DOMAIN top = {}
    OBVIOUS
  <2> HIDE DEF top
  <2> QED BY <1>4, <2>1, FlatHasEach
<1>14. top # <<>> => ~skipped
  <2> SUFFICES ASSUME top # <<>> PROVE DOMAIN top # {}
    BY <1>7, <1>12
  <2> HIDE DEF top
  <2> QED BY <1>4, EmptyList DEF IsTop
<1> HIDE DEF file, top, below, all, skipped, ready
<1>15. file.state \in Bad <=> ready /\ ~all
  <2>1. CASE top = <<>>
    BY <1>10, <1>11, <1>13, <2>1 DEF Bad
  <2>2. CASE top # <<>>
    <3>1. file.state = IF all THEN "cfg-ready" ELSE IF ready THEN "partially-analyzed" ELSE "normalized"
      BY <1>10, <1>11, <1>12, <1>14, <2>2
    <3> QED BY <3>1 DEF Bad
  <2> QED BY <2>1, <2>2
<1> QED BY <1>2, <1>9, <1>15 DEF ready

\* The states in the unit, and those in the files, are those of the symbols of the payload.
LEMMA BadSymbols ==
  ASSUME PipelineInv, TraceInv, phase # "waiting"
  PROVE  LET bad == \E p \in Range(payload) : \E x \in SymbolsIn(p) : StateOf(p, x) \in Bad
         IN  /\ (\E i \in DOMAIN unit : unit[i].state \in Bad) <=> bad
             /\ (\E i \in DOMAIN files : \E s \in Range(SymbolsOf(files[i])) : s.eligibility.state \in Bad) <=> bad
<1>1. payload \in Payloads
  BY DEF PipelineInv
<1>2. ASSUME NEW p \in Range(payload), NEW x \in SymbolsIn(p)
      PROVE  Seen(DoneOf(BuiltOf(p), x)).state = StateOf(p, x)
  BY DEF Seen, StateOf
<1>3. (\E i \in DOMAIN unit : unit[i].state \in Bad) <=> \E u \in Range(unit) : u.state \in Bad
  BY DEF Range
<1>4. \A u : u \in Range(unit) <=>
         \E p \in Range(payload) : \E x \in SymbolsIn(p) : u = Seen(DoneOf(BuiltOf(p), x))
  BY UnitHas
<1>5. (\E u \in Range(unit) : u.state \in Bad) <=>
         \E p \in Range(payload) : \E x \in SymbolsIn(p) : StateOf(p, x) \in Bad
  BY <1>2, <1>4
<1>6. ASSUME NEW i \in DOMAIN files, NEW s \in Range(SymbolsOf(files[i])), s.eligibility.state \in Bad
      PROVE  \E p \in Range(payload) : \E x \in SymbolsIn(p) : StateOf(p, x) \in Bad
  <2>1. PICK p \in Range(payload) : files[i] = Finished(BuiltOf(p)) /\ IsFilePayload(p)
    BY FilesFrom
  <2>2. PICK x \in SymbolsIn(p) : s = DoneOf(BuiltOf(p), x)
    BY <2>1, FinishedSymbols
  <2> QED BY <1>6, <2>2 DEF StateOf
<1>7. ASSUME NEW p \in Range(payload), NEW x \in SymbolsIn(p), StateOf(p, x) \in Bad
      PROVE  \E i \in DOMAIN files : \E s \in Range(SymbolsOf(files[i])) : s.eligibility.state \in Bad
  <2>1. PICK i \in DOMAIN files : Range(SymbolsOf(files[i])) = {DoneOf(BuiltOf(p), y) : y \in SymbolsIn(p)}
    BY FinishedIs
  <2>2. DoneOf(BuiltOf(p), x) \in Range(SymbolsOf(files[i]))
    BY <2>1
  <2> QED BY <1>7, <2>2 DEF StateOf
<1> QED BY <1>3, <1>5, <1>6, <1>7

\* The functions of the payload that the unit has at the top level are those of no type.
LEMMA TopOf ==
  ASSUME PipelineInv, TraceInv, phase # "waiting", NEW l \in Functions
  PROVE  (\E i \in DOMAIN unit : IsOf(unit[i].id, l) /\ Len(unit[i].id[3]) = 1)
           <=> Fn(l) \in FreeOf(payload[l[1]])
<1> DEFINE p == payload[l[1]]
           f == Fn(l)
           x == SymbolOf(p, f)
<1>1. /\ payload \in Payloads /\ p \in Range(payload) /\ IsFilePayload(p)
      /\ f \in Range(p.functions)
  BY FunctionsAre DEF PipelineInv
<1>2. /\ IsSymbol(x) /\ x \in SymbolsIn(p) /\ x.id[3] = x.qname
      /\ Len(x.qname) = 1 <=> Parent(f, p) = 0
  BY <1>1, SymbolOfFunction
<1>3. Len(x.id[3]) = 1 <=> f \in FreeOf(p)
  BY <1>1, <1>2 DEF FreeOf
<1>4. ASSUME NEW i \in DOMAIN unit, IsOf(unit[i].id, l) PROVE unit[i].id = x.id
  <2>1. unit[i] \in Range(unit)
    BY DEF Range
  <2>2. PICK q, y : q \in Range(payload) /\ y \in SymbolsIn(q) /\ unit[i] = Seen(DoneOf(BuiltOf(q), y))
    BY <2>1, UnitHas
  <2>3. IsFilePayload(q)
    BY <1>1, <2>2, FunctionsAre
  <2>4. IsSymbol(y)
    BY <2>2, <2>3, SymbolsInAre, SymbolOfType, SymbolOfFunction
  <2> DEFINE v == Seen(DoneOf(BuiltOf(q), y))
  <2>5. unit[i].id = y.id
    <3>1. v.id = y.id
      BY <2>3, <2>4, SeenIs
    <3> HIDE DEF v
    <3>2. unit[i] = v
      BY <2>2 DEF v
    <3> QED BY <3>1, <3>2
  <2>6. y = SymbolOf(q, Fn(l)) /\ q = payload[l[1]]
    BY <1>1, <1>4, <2>2, <2>5, IdsTell
  <2> QED BY <2>5, <2>6
<1>5. \E i \in DOMAIN unit : IsOf(unit[i].id, l) /\ unit[i].id = x.id
  <2> DEFINE v == Seen(DoneOf(BuiltOf(p), x))
  <2>1. v \in Range(unit)
    BY <1>1, <1>2, UnitHas
  <2>2. v.id = x.id
    <3>1. IsFilePayload(p) /\ IsSymbol(x)
      BY <1>1, <1>2
    <3> HIDE DEF p, x
    <3> QED BY <3>1, SeenIs
  <2> HIDE DEF v
  <2>3. PICK i \in DOMAIN unit : unit[i] = v
    BY <2>1 DEF Range
  <2>4. IsOf(x.id, l)
    BY <1>1, <1>2, IdsTell
  <2> QED BY <2>2, <2>3, <2>4
<1> HIDE DEF p, f, x
<1>6. (\E i \in DOMAIN unit : IsOf(unit[i].id, l) /\ Len(unit[i].id[3]) = 1) <=> f \in FreeOf(p)
  BY <1>3, <1>4, <1>5
<1> QED BY <1>6 DEF p, f

\* A report that warns of a partial analysis has a reason.
THEOREM AlwaysExplained == Spec => []PartialExplained
<1>1. ASSUME PipelineInv, TraceInv PROVE PartialExplained
  <2> DEFINE unparsed == \E i \in DOMAIN payload : ~payload[i].parse_ok
             doubted == \E i \in DOMAIN unit : unit[i].state \in Bad
             top(k) == {l \in Functions : l[1] = k[1] /\ \E i \in DOMAIN unit :
                          IsOf(unit[i].id, l) /\ Len(unit[i].id[3]) = 1}
             uneven == \E k \in Functions : /\ HasBody(k)
                                            /\ top(k) = {} \/ \E l \in top(k) : ~HasBody(l)
             some == \E p \in Range(payload) : \E x \in SymbolsIn(p) : StateOf(p, x) \in Bad
             file(p) == Finished(BuiltOf(p)).eligibility.state
             files1 == \E p \in Range(payload) : file(p) \in Bad
  <2> SUFFICES ASSUME phase \in {"reported", "rendered"}
               PROVE  "partial" \in report.notes <=> unparsed \/ doubted \/ uneven
    BY DEF PartialExplained, Bad
  <2>1. payload \in Payloads /\ phase # "waiting" /\ Normalized
    BY <1>1 DEF PipelineInv
  <2>2. \A p \in Range(payload) : IsFilePayload(p)
    BY <2>1, FunctionsAre
  <2>3. "partial" \in report.notes <=> some \/ files1
    <3>1. "partial" \in report.notes <=>
            \/ \E i \in DOMAIN files : files[i].eligibility.state \in Bad
            \/ \E i \in DOMAIN files : \E s \in Range(SymbolsOf(files[i])) : s.eligibility.state \in Bad
      BY <1>1, NotesTell DEF Bad
    <3>2. (\E i \in DOMAIN files : \E s \in Range(SymbolsOf(files[i])) : s.eligibility.state \in Bad) <=> some
      BY <1>1, <2>1, BadSymbols
    <3>3. (\E i \in DOMAIN files : files[i].eligibility.state \in Bad) <=> files1
      <4>1. \A i \in DOMAIN files : \E p \in Range(payload) : files[i] = Finished(BuiltOf(p))
        BY <1>1, FilesFrom
      <4>2. \A p \in Range(payload) : \E i \in DOMAIN files : files[i] = Finished(BuiltOf(p))
        BY <1>1, <2>1, AllFinished
      <4> QED BY <4>1, <4>2
    <3> HIDE DEF some, files1
    <3> QED BY <3>1, <3>2, <3>3
  <2>4. doubted <=> some
    BY <1>1, <2>1, BadSymbols
  <2>5. ASSUME unparsed PROVE files1
    <3>1. PICK p \in Range(payload) : ~p.parse_ok
      BY <2>5 DEF Range
    <3>2. Finished(BuiltOf(p)).eligibility
            = ClassifyFile(BuiltOf(p).parse_ok, Finished(BuiltOf(p)).top, RecordsOf(BuiltOf(p)))
      BY <2>2, FinishedSymbols, FinishedHas
    <3>3. BuiltOf(p).parse_ok = p.parse_ok
      BY DEF BuiltOf
    <3>4. file(p) = "skipped"
      BY <3>1, <3>2, <3>3 DEF ClassifyFile, Eligibility
    <3> QED BY <3>4 DEF Bad
  <2>6. ASSUME ~unparsed, ~some PROVE files1 <=> uneven
    <3>1. ASSUME NEW p \in Range(payload)
          PROVE  p.parse_ok /\ \A x \in SymbolsIn(p) : StateOf(p, x) \notin Bad
      BY <2>6 DEF Range
    <3> DEFINE st(k) == StateOf(payload[k[1]], SymOf(k))
    <3>2. ASSUME NEW k \in Functions
          PROVE  st(k) = "cfg-ready" <=> HasBody(k)
      <4> DEFINE p == payload[k[1]]
                 x == SymOf(k)
                 v == Seen(DoneOf(BuiltOf(p), x))
      <4>1. /\ IsFilePayload(p) /\ p.parse_ok /\ st(k) \notin Bad
            /\ IsSymbol(x) /\ x.body = Fn(k).body
        <5>1. p \in Range(payload) /\ IsFilePayload(p) /\ IsSymbol(x) /\ x \in SymbolsIn(p) /\ x.body = Fn(k).body
          BY <2>1, FunctionsAre, SymOfIs
        <5> QED BY <3>1, <5>1
      <4>2. v.state = st(k)
        BY <4>1, SeenIs DEF StateOf
      <4>3. /\ x.body = NoBody => v.state = "normalized"
            /\ x.body # NoBody /\ ~IsValid(x.body) => v.state = "skipped"
            /\ x.body # NoBody /\ IsValid(x.body) => v.state \in Ready
        BY <4>1, SeenIs
      <4>4. HasBody(k) <=> x.body # NoBody /\ IsValid(x.body)
        BY <4>1 DEF HasBody
      <4> HIDE DEF v, x, st
      <4> QED BY <4>1, <4>2, <4>3, <4>4 DEF Bad, Ready
    <3>3. ASSUME NEW p \in Range(payload), NEW x \in SymbolsIn(p), StateOf(p, x) = "cfg-ready"
          PROVE  \E k \in Functions : payload[k[1]] = p /\ HasBody(k)
      <4>1. IsFilePayload(p)
        BY <2>2
      <4>2. ASSUME NEW t \in Range(p.types), x = TypeSymbol(p.path, t) PROVE FALSE
        <5> DEFINE v == Seen(DoneOf(BuiltOf(p), x))
        <5>1. IsSymbol(x) /\ x.body = NoBody
          BY <4>1, <4>2, SymbolOfType
        <5>2. p.parse_ok
          BY <3>1
        <5>3. v.state = "normalized" /\ v.state = StateOf(p, x)
          BY <4>1, <5>1, <5>2, SeenIs DEF StateOf
        <5> HIDE DEF v
        <5> QED BY <3>3, <5>3
      <4>3. PICK f \in Range(p.functions) : x = SymbolOf(p, f)
        BY <4>2, SymbolsInAre
      <4>4. PICK k \in Functions : payload[k[1]] = p /\ Fn(k) = f
        BY <2>1, FunctionsAre
      <4>5. st(k) = "cfg-ready"
        BY <3>3, <4>3, <4>4 DEF SymOf
      <4> QED BY <3>2, <4>4, <4>5
    <3>4. ASSUME NEW k \in Functions, NEW l \in Functions
          PROVE  l \in top(k) <=> payload[l[1]] = payload[k[1]] /\ Fn(l) \in FreeOf(payload[k[1]])
      <4>1. l \in top(k) <=> l[1] = k[1] /\ Fn(l) \in FreeOf(payload[l[1]])
        BY <1>1, <2>1, TopOf
      <4>2. payload[l[1]] = payload[k[1]] => l[1] = k[1]
        <5>1. l[1] \in DOMAIN payload /\ k[1] \in DOMAIN payload
          BY DEF Functions
        <5>2. IsPayload(payload)
          BY <2>1, FrontendAssumption
        <5> QED BY <5>1, <5>2 DEF IsPayload
      <4> QED BY <4>1, <4>2
    <3>5. ASSUME NEW p \in Range(payload), NEW f \in FreeOf(p)
          PROVE  \E l \in Functions : payload[l[1]] = p /\ Fn(l) = f
      BY <2>1, FunctionsAre DEF FreeOf
    <3>6. ASSUME NEW p \in Range(payload)
          PROVE  file(p) \in Bad <=>
                   /\ \E x \in SymbolsIn(p) : StateOf(p, x) = "cfg-ready"
                   /\ FreeOf(p) = {} \/ \E f \in FreeOf(p) : StateOf(p, SymbolOf(p, f)) # "cfg-ready"
      BY <2>2, <3>1, FileIsBad
    <3>7. ASSUME files1 PROVE uneven
      <4>1. PICK p \in Range(payload) : file(p) \in Bad
        BY <3>7
      <4>2. /\ \E x \in SymbolsIn(p) : StateOf(p, x) = "cfg-ready"
            /\ FreeOf(p) = {} \/ \E f \in FreeOf(p) : StateOf(p, SymbolOf(p, f)) # "cfg-ready"
        BY <3>6, <4>1
      <4>3. PICK k \in Functions : payload[k[1]] = p /\ HasBody(k)
        BY <3>3, <4>2
      <4>4. CASE FreeOf(p) = {}
        <5>1. top(k) \subseteq Functions
          OBVIOUS
        <5> HIDE DEF top
        <5>2. top(k) = {}
          BY <3>4, <4>3, <4>4, <5>1
        <5> QED BY <4>3, <5>2
      <4>5. ASSUME NEW f \in FreeOf(p), StateOf(p, SymbolOf(p, f)) # "cfg-ready" PROVE uneven
        <5>1. PICK l \in Functions : payload[l[1]] = p /\ Fn(l) = f
          BY <3>5
        <5>2. l \in top(k)
          BY <3>4, <4>3, <5>1
        <5>3. ~HasBody(l)
          BY <3>2, <4>5, <5>1 DEF SymOf
        <5> HIDE DEF top
        <5> QED BY <4>3, <5>2, <5>3
      <4> QED BY <4>2, <4>4, <4>5
    <3>8. ASSUME uneven PROVE files1
      <4>1. PICK k \in Functions : HasBody(k) /\ (top(k) = {} \/ \E l \in top(k) : ~HasBody(l))
        BY <3>8
      <4> DEFINE p == payload[k[1]]
      <4>2. p \in Range(payload)
        BY <2>1, FunctionsAre
      <4>3. \E x \in SymbolsIn(p) : StateOf(p, x) = "cfg-ready"
        <5>1. SymOf(k) \in SymbolsIn(p)
          BY <2>1, SymOfIs
        <5> QED BY <3>2, <4>1, <5>1
      <4>4. FreeOf(p) = {} \/ \E f \in FreeOf(p) : StateOf(p, SymbolOf(p, f)) # "cfg-ready"
        <5>1. CASE top(k) = {}
          <6>1. ASSUME NEW f \in FreeOf(p) PROVE FALSE
            <7>1. PICK l \in Functions : payload[l[1]] = p /\ Fn(l) = f
              BY <3>5, <4>2
            <7> QED BY <3>4, <5>1, <7>1
          <6> QED BY <6>1
        <5>2. ASSUME NEW l \in top(k), ~HasBody(l) PROVE \E f \in FreeOf(p) : StateOf(p, SymbolOf(p, f)) # "cfg-ready"
          <6>1. l \in Functions
            OBVIOUS
          <6>2. payload[l[1]] = p /\ Fn(l) \in FreeOf(p)
            BY <3>4, <6>1
          <6>3. st(l) # "cfg-ready"
            BY <3>2, <5>2, <6>1
          <6> QED BY <6>2, <6>3 DEF SymOf
        <5> HIDE DEF top
        <5> QED BY <4>1, <5>1, <5>2
      <4>5. file(p) \in Bad
        BY <3>6, <4>2, <4>3, <4>4
      <4> QED BY <4>2, <4>5
    <3> HIDE DEF files1, uneven
    <3> QED BY <3>7, <3>8
  <2> HIDE DEF unparsed, doubted, uneven, some, files1
  <2>7. CASE some
    BY <2>3, <2>4, <2>7
  <2>8. CASE ~some /\ unparsed
    BY <2>3, <2>5, <2>8
  <2>9. CASE ~some /\ ~unparsed
    BY <2>3, <2>4, <2>6, <2>9
  <2> QED BY <2>7, <2>8, <2>9
<1> QED BY <1>1, PipelineInvariant, TraceInvariant, PTL

\* Every finding of the analysis, before and after it is sorted, claims no more than its
\* proof and the frontend's understanding of the function allow.
THEOREM AlwaysEarned == Spec => []HighIsEarned
<1>1. PipelineInv => HighIsEarned
  BY DEF PipelineInv, IsFindingList, IsFinding, HighIsEarned, Range
<1> QED BY <1>1, PipelineInvariant, PTL

\* The stages hand on what the next one expects, and eligibility, kinds, severities and
\* confidences are always among those there are.
THEOREM AlwaysTyped == Spec => []TypeOK
<1>1. ASSUME PipelineInv PROVE TypeOK
  <2>1. \A i \in DOMAIN files : IsSymbolList(SymbolsOf(files[i]))
    BY <1>1, FlatType DEF PipelineInv, IsFile, SymbolsOf
  <2>2. \A i \in DOMAIN files : \A s \in Range(SymbolsOf(files[i])) :
          s.eligibility.state \in States /\ s.kind \in TypeKinds \cup Callable \cup {"closure"}
    BY <2>1 DEF IsSymbolList, IsSymbol, SymbolKinds, Range
  <2>3. \A f \in Range(findings) : /\ f.severity \in {"high", "medium", "low"}
                                   /\ f.confidence \in {"high", "medium", "low"}
    BY <1>1 DEF PipelineInv, IsFindingList, IsFinding, Range
  <2>4. {"high", "medium", "low"} \subseteq Range(Severities)
    <3>1. /\ DOMAIN Severities = 1 .. 4
          /\ Severities[2] = "high" /\ Severities[3] = "medium" /\ Severities[4] = "low"
      BY DEF Severities
    <3> QED BY <3>1 DEF Range
  <2> QED BY <1>1, <2>2, <2>3, <2>4 DEF PipelineInv, IsFile, TypeOK
<1> QED BY <1>1, PipelineInvariant, PTL

\* The report has every finding as often as there is one, the more severe first, and its
\* counts and recommendations are those of the findings it has.
THEOREM AlwaysComplete == Spec => []ReportIsComplete
<1>1. ASSUME PipelineInv, phase \in {"reported", "rendered"} PROVE ReportIsComplete
  <2> DEFINE fs == report.findings
  <2>1. /\ fs = SortFindings(findings)
        /\ report.by_severity = BySeverity(findings)
        /\ report.recommendations = Recommendations(findings)
    BY <1>1 DEF PipelineInv, ReportOf
  <2>2. /\ IsFindingList(fs)
        /\ Range(fs) = Range(findings)
        /\ \A X : CountIn(fs, X) = CountIn(findings, X)
        /\ \A i, j \in DOMAIN fs : i < j => SeverityRank(fs[i]) <= SeverityRank(fs[j])
    BY <1>1, <2>1, SortFindingsSorts DEF PipelineInv
  <2> HIDE DEF fs
  <2>3. ASSUME NEW f PROVE Cardinality({i \in DOMAIN fs : fs[i] = f}) = Cardinality({i \in DOMAIN findings : findings[i] = f})
    <3>1. CountIn(fs, {f}) = CountIn(findings, {f})
      BY <2>2
    <3>2. {i \in DOMAIN fs : fs[i] \in {f}} = {i \in DOMAIN fs : fs[i] = f}
          /\ {i \in DOMAIN findings : findings[i] \in {f}} = {i \in DOMAIN findings : findings[i] = f}
      OBVIOUS
    <3> QED BY <3>1, <3>2 DEF CountIn
  <2>4. ASSUME NEW f \in Range(fs)
        PROVE  report.by_severity[f.severity] = Cardinality({i \in DOMAIN fs : fs[i].severity = f.severity})
    <3> DEFINE X == {g \in Range(findings) : g.severity = f.severity}
    <3>1. CountIn(fs, X) = CountIn(findings, X)
      BY <2>2
    <3>2. {i \in DOMAIN fs : fs[i] \in X} = {i \in DOMAIN fs : fs[i].severity = f.severity}
      BY <2>2 DEF Range
    <3>3. {i \in DOMAIN findings : findings[i] \in X} = {i \in DOMAIN findings : findings[i].severity = f.severity}
      BY DEF Range
    <3>4. f.severity \in Range(Severities)
      <4>1. f.severity \in {"high", "medium", "low"}
        BY <2>2 DEF IsFindingList, IsFinding, Range
      <4>2. /\ DOMAIN Severities = 1 .. 4
            /\ Severities[2] = "high" /\ Severities[3] = "medium" /\ Severities[4] = "low"
        BY DEF Severities
      <4> QED BY <4>1, <4>2 DEF Range
    <3>5. report.by_severity[f.severity] = Cardinality({i \in DOMAIN findings : findings[i].severity = f.severity})
      BY <2>1, <3>4 DEF BySeverity
    <3> QED BY <3>1, <3>2, <3>3, <3>5 DEF CountIn
  <2>5. report.recommendations = {f.rule : f \in Range(fs)} \cup {"global"}
    BY <2>1, <2>2 DEF Recommendations
  <2> QED BY <2>2, <2>3, <2>4, <2>5 DEF ReportIsComplete, fs
<1>2. PipelineInv => ReportIsComplete
  BY <1>1 DEF ReportIsComplete
<1> QED BY <1>2, PipelineInvariant, PTL

\* Reading a report back and writing it again changes nothing.
THEOREM RerenderingIsIdle == Spec => RerenderingChangesNothing
<1>1. PipelineInv /\ [Next]_vars => [phase = "reported" => report' = report]_vars
  <2> SUFFICES ASSUME PipelineInv, Next, phase = "reported" PROVE report' = report
    OBVIOUS
  <2>1. CASE Rerender
    <3>1. report' = NormalizePayload(report) /\ report = ReportOf(files, findings)
      BY <2>1 DEF Rerender, PipelineInv
    <3> QED BY <3>1, NormalizeKeeps DEF PipelineInv
  <2>2. CASE ~Rerender
    BY <2>2 DEF Next, Normalize, HandOver, AnalyzeUnit, WriteReport
  <2> QED BY <2>1, <2>2
<1> QED BY <1>1, PipelineInvariant, PTL DEF Spec, RerenderingChangesNothing
=============================================================================
