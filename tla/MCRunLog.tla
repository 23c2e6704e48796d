------------------------------ MODULE MCRunLog ------------------------------
(***************************************************************************)
(* A rule text that only annotates, which every profile admits, a signal   *)
(* text with an indicator, a risk text with one, and a text that never     *)
(* passes, which only an edit of a log brings in; inputs of every kind,    *)
(* one that raises and one no loader accepts; before the run an older log, *)
(* a torn one, or none.                                                    *)
(***************************************************************************)
EXTENDS RunLog

CONSTANTS plain, smoothed, guard, broken, ema, rsi, bars, moreBars, quotes, chains,
          junk, day, nextDay, optionDay, chainDay

MCText == {plain, smoothed, guard, broken}
MCPacks == {{plain, smoothed}, {plain}, {guard}}

MCClean ==
  [p \in Profile |-> CASE p = "signal" -> {plain, smoothed}
                      [] p = "intent" -> {plain}
                      [] p = "risk"   -> {plain, guard}]

MCServes ==
  [t \in MCText |-> CASE t = plain -> Kind
                      [] t = guard -> {"underlying", "option"}
                      [] OTHER -> {"underlying"}]

MCUses ==
  [t \in MCText |-> CASE t = smoothed -> {ema} [] t = guard -> {rsi} [] OTHER -> {}]

MCReadAs ==
  [c \in {bars, moreBars, quotes, chains, junk} |->
     CASE c = bars -> day [] c = moreBars -> nextDay
       [] c = quotes -> optionDay [] c = chains -> chainDay [] c = junk -> None]

MCKindIn == [e \in {day, nextDay, optionDay, chainDay} |->
               CASE e = optionDay -> "option" [] e = chainDay -> "chain"
                 [] OTHER -> "underlying"]

MCEarlier ==
  {None, Torn,
   [schema |-> "older", profile |-> None, kind |-> "underlying",
    rules |-> {[text |-> plain, sha |-> plain]}, risk |-> {},
    sha |-> bars, rows |-> bars, events |-> day, referenced |-> {}]}

=============================================================================
