----------------------------- MODULE Indicators -----------------------------
(***************************************************************************)
(* The indicators of an underlying's bars (indicators.py: ema, rsi, atr,   *)
(* vwap) and the key their values are kept under (IndicatorCache).         *)
(*                                                                         *)
(* A number is a fraction; the rounding to 8 places (quantize_indicator)   *)
(* and the 28 digits of a Decimal are left out.                            *)
(***************************************************************************)
EXTENDS Integers, Sequences, FiniteSets

Num(n, d) ==
  [sort |-> "num", is |-> IF d < 0 THEN <<0 - n, 0 - d>> ELSE <<n, d>>]

Plus(x, y)  == Num(x.is[1] * y.is[2] + y.is[1] * x.is[2], x.is[2] * y.is[2])
Times(x, y) == Num(x.is[1] * y.is[1], x.is[2] * y.is[2])
Minus(x)    == Num(0 - x.is[1], x.is[2])
Over(x, y)  == Times(x, Num(y.is[2], y.is[1]))
Below(x, y) == x.is[1] * y.is[2] < y.is[1] * x.is[2]
Same(x, y)  == x.is[1] * y.is[2] = y.is[1] * x.is[2]

Zero == Num(0, 1)
One  == Num(1, 1)

Absolute(x) == IF Below(x, Zero) THEN Minus(x) ELSE x

Greatest(S) == CHOOSE x \in S : \A y \in S : ~ Below(x, y)
Smallest(S) == CHOOSE x \in S : \A y \in S : ~ Below(y, x)

Total(s) ==
  LET total[i \in 0 .. Len(s)] == IF i = 0 THEN Zero ELSE Plus(total[i - 1], s[i])
  IN  total[Len(s)]

Mean(s) == Over(Total(s), Num(Len(s), 1))

(* The last n of a sequence, all of it if it is shorter.                   *)
LastOf(s, n) == SubSeq(s, IF n < Len(s) THEN Len(s) - n + 1 ELSE 1, Len(s))

-----------------------------------------------------------------------------
(* series_from_history                                                     *)
SeriesOf(bars, field) == [i \in DOMAIN bars |-> bars[i][field]]

(* Smoothed from the first bar on, whatever the length.                    *)
Ema(series, n) ==
  LET weight == Num(2, n + 1)
      smooth(e, v) == Plus(Times(Plus(v, Minus(e)), weight), e)
      ema[i \in 0 .. Len(series) - 1] ==
        IF i = 0 THEN series[1] ELSE LET e == ema[i - 1] IN smooth(e, series[i + 1])
  IN  ema[Len(series) - 1]

(* The share of the gains among the changes of the last n bars, of one     *)
(* change at least; one half if nothing changed.                           *)
Rsi(series, n) ==
  LET diffs  == [i \in 1 .. Len(series) - 1 |-> Plus(series[i + 1], Minus(series[i]))]
      window == LastOf(diffs, IF n > 1 THEN n - 1 ELSE 1)
      gain   == Mean([i \in DOMAIN window |->
                        IF Below(Zero, window[i]) THEN window[i] ELSE Zero])
      loss   == Mean([i \in DOMAIN window |->
                        IF Below(window[i], Zero) THEN Minus(window[i]) ELSE Zero])
      strength == Over(gain, loss)
  IN  IF Len(series) < 2 \/ (Same(gain, Zero) /\ Same(loss, Zero)) THEN Num(1, 2)
      ELSE IF Same(loss, Zero) THEN One
      ELSE IF Same(gain, Zero) THEN Zero
      ELSE Plus(One, Minus(Over(One, Plus(One, strength))))

(* The mean of the true ranges of the last n bars; a bar's range reaches   *)
(* to the close of the bar before.                                         *)
Atr(bars, n) ==
  LET before(i) == bars[IF i > 1 THEN i - 1 ELSE 1].close
      range(i) == Greatest({Plus(bars[i].high, Minus(bars[i].low)),
                            Absolute(Plus(bars[i].high, Minus(before(i)))),
                            Absolute(Plus(bars[i].low, Minus(before(i))))})
  IN  Mean(LastOf([i \in DOMAIN bars |-> range(i)], n))

(* The mean close weighted by volume; the last close if nothing was        *)
(* traded.                                                                 *)
Vwap(bars) ==
  LET traded == Total(SeriesOf(bars, "volume"))
      worth  == Total([i \in DOMAIN bars |-> Times(bars[i].close, bars[i].volume)])
  IN  IF Same(traded, Zero) THEN bars[Len(bars)].close ELSE Over(worth, traded)

-----------------------------------------------------------------------------
(* What a value is kept under for the rest of the run: the indicator, its  *)
(* arguments as they stand, and the event, here by the number of bars up   *)
(* to it.  The first variant is wrong: the length is forgotten.            *)
KeyNoLength(fn, args, index) ==
  <<fn, IF Len(args) > 1 THEN <<args[1]>> ELSE args, index>>

CacheKey(fn, args, index) == <<fn, args, index>>
=============================================================================
