------------------------------- MODULE Pictures -------------------------------
(***************************************************************************)
(* What the client draws of a column and of its statistics: the cell of    *)
(* every render mode (lib/semantic-render.ts), the layers over it          *)
(* (lib/layers), the minimap (lib/minimap-render.ts), the satellite view   *)
(* (lib/profile-render.ts) and the header (ColumnHeader.tsx).              *)
(*                                                                         *)
(* A colour is the fraction of its scale, a bar its place in pixels.  Left *)
(* out: the scales themselves, opacity, fonts, text, the theme, infinite   *)
(* cells.  The extremes of a temporal column are numbers.                  *)
(* Name_Slip is Name with a slip.                                          *)
(***************************************************************************)
EXTENDS BrowserViews

CONSTANTS
  Samples,     \* sources of the one column "v", and no empty row group
  Heights,     \* of a panel or a canvas, in pixels
  CellSizes,   \* the width or the height of a cell, in pixels
  Skews        \* the skewness of a column, in tenths

-----------------------------------------------------------------------------
DataTypes == {"numeric", "temporal", "string", "boolean"}

(* A column as it is drawn: its cells, their statistics, its type, whether *)
(* the statistics and those of the source's listing have come.             *)
Columns ==
  {[cells |-> cells, st |-> ColumnStats(cells), dt |-> dt, full |-> full, quick |-> quick,
    q |-> IF Spread(NonNull(cells))
            THEN [p \in {1, 5, 25, 50, 75, 95, 99} |-> Percentile(NonNull(cells), p)] ELSE Null] :
     cells \in {Cells(s, "v") : s \in Samples}, dt \in DataTypes, full \in BOOLEAN, quick \in BOOLEAN}

Stats(col) == col.st
Quantile(col, p) == col.q[p]
HasQuantiles(col) == col.full /\ col.dt = "numeric" /\ col.q # Null

(* The fraction n / d, which no negative number divides.                   *)
Frac(n, d) == [n |-> n, d |-> d]
Half == Frac(1, 2)
AtMost(f, g) == f.n * g.d <= g.n * f.d
Proper(f) == 0 <= f.n /\ f.n <= f.d
Clamped(n, d) == IF d <= 0 THEN Half ELSE Frac(Max({0, Min({n, d})}), d)
Rounded(f, w) == (2 * f.n * w + f.d) \div (2 * f.d)

(* Of the statistics that came; of none, no cell is missing.               *)
NullRate(col) ==
  IF col.quick \/ col.full THEN Frac(Stats(col).null_count, Stats(col).count) ELSE Frac(0, 1)

ByExtremes(col, v) ==
  IF col.quick THEN Clamped(v - Stats(col).min, Stats(col).max - Stats(col).min) ELSE Half

normalizeByQuantiles_NotClamped(col, v) ==
  LET range == Quantile(col, 95) - Quantile(col, 5)
  IN  IF range <= 0 THEN Half ELSE Frac(100 * v - Quantile(col, 5), range)

normalizeByQuantiles(col, v) == Clamped(100 * v - Quantile(col, 5), Quantile(col, 95) - Quantile(col, 5))

Beyond(col, v, low, high) ==
  CASE 100 * v > Quantile(col, high) -> "high"
    [] 100 * v < Quantile(col, low) -> "low"
    [] OTHER -> "none"

outlierClass(col, v) == Beyond(col, v, 5, 95)

-----------------------------------------------------------------------------
(* A cell: t is its fraction of the scale, class its colour among classes, *)
(* or Null; mark the border or dot of an outlier.                          *)
Cell0 == [kind |-> "nothing", t |-> Null, class |-> Null, mark |-> "none"]
Missing == [Cell0 EXCEPT !.kind = "missing"]
Shade(t) == [Cell0 EXCEPT !.kind = "shade", !.t = t]

(* One grey for all values where there are too many.                       *)
Class(col, v) ==
  LET many == /\ col.full
              /\ CardinalityCategory(Stats(col).distinct_count, Stats(col).count)
                   \in {"high_cardinality", "unique"}
  IN  [Cell0 EXCEPT !.kind = "class", !.class = IF many /\ col.dt = "string" THEN Null ELSE v]

renderCellProfile(col, v) ==
  CASE v = Null -> Missing
    [] v # Null /\ col.dt \in {"numeric", "temporal"} -> Shade(ByExtremes(col, v))
    [] OTHER -> Class(col, v)

renderCellHeatmap(col, v) ==
  CASE v = Null -> Missing
    [] v # Null /\ HasQuantiles(col) ->
         [Shade(normalizeByQuantiles(col, v)) EXCEPT !.mark = outlierClass(col, v)]
    [] v # Null /\ ~ HasQuantiles(col) /\ col.dt \in {"numeric", "temporal"} ->
         Shade(ByExtremes(col, v))
    [] OTHER -> Class(col, v)

renderCellScan(col, v) ==
  IF v = Null THEN Missing
  ELSE [Cell0 EXCEPT !.kind = "text", !.mark = IF HasQuantiles(col) THEN outlierClass(col, v) ELSE "none"]

renderCellSemantic(mode, col, v) ==
  CASE mode = "satellite" -> Cell0
    [] mode = "profile" -> renderCellProfile(col, v)
    [] mode = "heatmap" -> renderCellHeatmap(col, v)
    [] mode = "scan" -> renderCellScan(col, v)
    [] mode = "read" -> IF v = Null THEN Missing ELSE [Cell0 EXCEPT !.kind = "text"]

Modes == {"satellite", "profile", "heatmap", "scan", "read"}

(* The layers: t is the strength of a tint.                                *)
renderNullMapCell(col, v) ==
  IF v = Null THEN Missing
  ELSE IF AtMost(NullRate(col), Frac(3, 10)) THEN Cell0 ELSE Shade(NullRate(col))

renderCompletenessCell(col, v) ==
  IF v = Null THEN Missing
  ELSE IF AtMost(NullRate(col), Frac(1, 20)) THEN Cell0 ELSE Shade(NullRate(col))

renderDistributionCell(col, v) ==
  CASE HasQuantiles(col) -> Shade(normalizeByQuantiles(col, v))
    [] ~ HasQuantiles(col) /\ col.quick /\ col.dt \in {"numeric", "temporal"} -> Shade(ByExtremes(col, v))
    [] OTHER -> Cell0

renderOutlierCell(col, v) ==
  IF HasQuantiles(col) THEN [Cell0 EXCEPT !.mark = Beyond(col, v, 1, 99)] ELSE Cell0

(* By the rank of the value among the top values.                          *)
renderClassBalanceCell(col, v) ==
  LET top == Stats(col).top_values
      ranks == {k \in DOMAIN top : top[k].value = v}
  IN  IF col.full /\ col.dt \in {"string", "boolean"} /\ ranks # {}
        THEN [Shade(Frac(top[Min(ranks)].count, top[1].count)) EXCEPT !.class = Min(ranks)]
        ELSE Cell0

Layers == {"null_map", "completeness", "distribution", "outlier", "quality_alerts", "class_balance"}

(* renderLayerCanvas, one layer of one cell.                               *)
LayerCell(layer, col, v) ==
  CASE layer = "null_map" -> renderNullMapCell(col, v)
    [] layer = "completeness" -> renderCompletenessCell(col, v)
    [] layer = "distribution" /\ v # Null -> renderDistributionCell(col, v)
    [] layer = "outlier" /\ v # Null -> renderOutlierCell(col, v)
    [] layer = "class_balance" /\ v # Null -> renderClassBalanceCell(col, v)
    [] OTHER -> Cell0

-----------------------------------------------------------------------------
(* The minimap: a strip of pixels for each column, in it the row groups.   *)

RowGroups(s) == RowGroupStats(s, "v")
RowsOf(s) == Len(Concat(s.groups))

(* The strip of the column number k of n.                                  *)
Strip(k, n, width) == (k * width) \div n .. ((k + 1) * width) \div n - 1

(* From the first pixel to before the last; no group is without a pixel.   *)
GroupPixels_Ceiling(s, g, height) ==
  LET rg == RowGroups(s)[g]
      y0 == (rg.row_offset * height + RowsOf(s) - 1) \div RowsOf(s)
      y1 == ((rg.row_offset + rg.row_count) * height) \div RowsOf(s)
  IN  y0 .. Max({y0 + 1, Min({y1, height})}) - 1

GroupPixels(s, g, height) ==
  LET rg == RowGroups(s)[g]
      y0 == (rg.row_offset * height) \div RowsOf(s)
      y1 == ((rg.row_offset + rg.row_count) * height) \div RowsOf(s)
  IN  y0 .. Max({y0 + 1, Min({y1, height})}) - 1

(* renderMinimapLayer: a later group paints over the earlier ones.         *)
PaintedWith(s, y, height) ==
  {g \in DOMAIN RowGroups(s) :
     /\ y \in GroupPixels(s, g, height)
     /\ \A h \in DOMAIN RowGroups(s) : h > g => y \notin GroupPixels(s, h, height)}

(* renderMinimapNeutral: the groups a pixel is the mean of.                *)
NeutralGroups(s, y, height) ==
  LET rowStart == (y * RowsOf(s)) \div height
      rowEnd == ((y + 1) * RowsOf(s) + height - 1) \div height
  IN  {g \in DOMAIN RowGroups(s) :
         /\ RowGroups(s)[g].row_offset < rowEnd
         /\ RowGroups(s)[g].row_offset + RowGroups(s)[g].row_count > rowStart}

(* The mean of a group is taken to be that of its extremes: twice it.      *)
Mean2(rg) == IF rg.min = Null THEN Null ELSE rg.min + rg.max
Extremes(rgs) == UNION {{rg.min, rg.max} : rg \in rgs} \ {Null}
GroupNulls(rg) == Frac(rg.null_count, rg.row_count)

(* Null where there is no data.                                            *)
computeLayerColor(s, layer, rg) ==
  LET rgs == ToSet(RowGroups(s))
      lo == IF Extremes(rgs) = {} THEN 0 ELSE Min(Extremes(rgs))
      hi == IF Extremes(rgs) = {} THEN 1 ELSE Max(Extremes(rgs))
      top == TopValues(NonNull(Cells(s, "v")))
  IN  CASE layer = "null_map" -> GroupNulls(rg)
        [] layer \in {"completeness", "quality_alerts"} -> Frac(rg.row_count - rg.null_count, rg.row_count)
        [] layer \in {"distribution", "outlier"} /\ rg.min = Null -> Null
        [] layer = "distribution" /\ rg.min # Null -> Clamped(Mean2(rg) - 2 * lo, 2 * (hi - lo))
        [] layer = "outlier" /\ rg.min # Null -> Clamped(rg.max - rg.min, hi - lo)
        [] layer = "class_balance" ->
             IF Len(top) < 2 THEN Frac(0, 1)
             ELSE Clamped(top[1].count - top[Len(top)].count, 19 * top[Len(top)].count)

-----------------------------------------------------------------------------
(* The satellite view: a band of the canvas for each row group.            *)
renderSatellitePass(s, g, cellH, scrollY, canvasH) ==
  LET rg == RowGroups(s)[g]
      rgY == rg.row_offset * cellH - scrollY
      rgH == Max({1, rg.row_count * cellH})
      clipY == Max({0, rgY})
      clipH == Min({rgH, canvasH - clipY}) + Min({0, rgY})
  IN  IF rgY + rgH < 0 \/ rgY > canvasH \/ clipH <= 0 THEN {} ELSE clipY .. clipY + clipH - 1

(* buildColorFn.                                                           *)
SatelliteColor(s, encoding, rg) ==
  LET spread(r) == IF r.min = Null THEN 0 ELSE r.max - r.min
      means == {Mean2(r) : r \in ToSet(RowGroups(s))} \ {Null}
  IN  CASE encoding = "null_rate" -> GroupNulls(rg)
        [] encoding # "null_rate" /\ rg.min = Null -> Null
        [] encoding = "mean_normalized" /\ rg.min # Null -> Clamped(Mean2(rg) - Min(means), Max(means) - Min(means))
        [] encoding = "spread" /\ rg.min # Null ->
             Clamped(spread(rg), Max({spread(r) : r \in ToSet(RowGroups(s))}))

Encodings == {"null_rate", "mean_normalized", "spread"}

(* The height of each point of the line of means in its box, or Null for   *)
(* no line: a group without a mean lies at the bottom.                     *)
buildDriftSparklinePoints(s) ==
  LET rgs == RowGroups(s)
      valid == SelectSeq([g \in DOMAIN rgs |-> Mean2(rgs[g])], LAMBDA m : m # Null)
      range == Max(ToSet(valid)) - Min(ToSet(valid))
      at(m) == IF range <= 0 THEN Half ELSE Frac((IF m = Null THEN Min(ToSet(valid)) ELSE m) - Min(ToSet(valid)), range)
  IN  IF Len(valid) < 2 THEN Null
      ELSE [g \in DOMAIN rgs |-> [px |-> Frac(g - 1, Len(rgs) - 1), py |-> at(Mean2(rgs[g]))]]

-----------------------------------------------------------------------------
(* The header of a column.                                                 *)

BarHeight(count, hist, h) == Max({1, Rounded(Frac(count, Max({b.count : b \in ToSet(hist)})), h)})

(* The bars: left edge, width and height.                                  *)
drawSparkline(hist, cellW, h) ==
  LET area == cellW - 4
  IN  [i \in DOMAIN hist |->
         [x |-> 2 + (i - 1) * (area \div Len(hist)), w |-> Max({1, area \div Len(hist) - 1}),
          h |-> BarHeight(hist[i].count, hist, h - 2)]]

drawInlineHistogram(hist, w, h) ==
  LET barW == Max({1, w \div Len(hist)})
  IN  [i \in DOMAIN hist |->
         [x |-> (i - 1) * barW, w |-> barW - 1, h |-> BarHeight(hist[i].count, hist, h)]]

(* The edges of the strip, as fractions of its width.                      *)
drawQuartileStrip(col) ==
  [k \in 1 .. 5 |->
     Clamped(Quantile(col, <<1, 25, 50, 75, 99>>[k]) - 100 * Stats(col).min,
             100 * (Stats(col).max - Stats(col).min))]

(* The filled part of the bar and the rest.                                *)
drawNullRateBar(col, cellW, hasFilter) ==
  LET fill == Max({2, Rounded(NullRate(col), cellW)})
  IN  IF hasFilter \/ AtMost(NullRate(col), Frac(1, 100)) THEN << >> ELSE <<fill, cellW - fill>>

(* zeros are counted of numbers that differ (computeColumnStats).          *)
classifyAlerts(col, skew, infinite) ==
  LET st == Stats(col)
      zeros == Len(SelectSeq(col.cells, LAMBDA v : v = 0))
      cardinality == CardinalityCategory(st.distinct_count, st.count)
  IN  {a \in {"constant", "high_null", "skewed", "infinite", "zeros", "high_cardinality", "low_cardinality_numeric"} :
         CASE a = "constant" -> col.full /\ st.distinct_count = 1
           [] a = "high_null" -> ~ AtMost(NullRate(col), Half)
           [] a = "skewed" -> HasQuantiles(col) /\ (skew > 20 \/ skew < -20)
           [] a = "infinite" -> HasQuantiles(col) /\ infinite > 0
           [] a = "zeros" -> HasQuantiles(col) /\ 2 * zeros > st.count
           [] a = "high_cardinality" ->
                col.full /\ col.dt = "string" /\ cardinality \in {"high_cardinality", "unique"}
           [] a = "low_cardinality_numeric" ->
                /\ col.full /\ col.dt = "numeric" /\ st.distinct_count <= 5
                /\ cardinality \in {"constant", "binary", "low_cardinality"}}

(* The parts of the score in hundredths of hundredths.                     *)
Score_NotConstancy(col, skew, infinite) ==
  LET st == Stats(col)
      part(weight, f) == (weight * 100 * (f.d - f.n)) \div f.d
      outliers == IF HasQuantiles(col) THEN Clamped(5 * st.outliers, st.count - st.null_count) ELSE Frac(0, 1)
      skewed == IF HasQuantiles(col) THEN Clamped(Max({skew, -skew}), 60) ELSE Frac(0, 1)
      infinites == IF HasQuantiles(col) THEN Clamped(infinite, st.count) ELSE Frac(0, 1)
      raw == part(40, NullRate(col)) + 2000 + part(15, skewed) + part(15, outliers) + part(10, infinites)
  IN  Rounded(Frac(raw, 10000), 100)

(* computeQualityScore: the parts in hundredths of hundredths.             *)
Score(col, skew, infinite) ==
  LET st == Stats(col)
      part(weight, f) == (weight * 100 * (f.d - f.n)) \div f.d
      constant == CardinalityCategory(st.distinct_count, st.count) = "constant"
      outliers == IF HasQuantiles(col) THEN Clamped(5 * st.outliers, st.count - st.null_count) ELSE Frac(0, 1)
      skewed == IF HasQuantiles(col) THEN Clamped(Max({skew, -skew}), 60) ELSE Frac(0, 1)
      infinites == IF HasQuantiles(col) THEN Clamped(infinite, st.count) ELSE Frac(0, 1)
      raw == part(40, NullRate(col)) + (IF constant THEN 0 ELSE 2000)
               + part(15, skewed) + part(15, outliers) + part(10, infinites)
  IN  Rounded(Frac(raw, 10000), 100)

qualityScoreColor(score) ==
  CASE score >= 80 -> "green" [] score >= 60 /\ score < 80 -> "amber" [] OTHER -> "red"

-----------------------------------------------------------------------------
(* Nothing here depends on the state: each property is looked at once.     *)
Once == OnceForAView /\ ops = << >> /\ source = CHOOSE s \in Sources : s.format = "parquet"

(* In every mode and layer, whatever statistics have come: a colour lies on*)
(* its scale, a greater value is never given a lesser colour, a missing    *)
(* cell is never drawn as a value nor a value as missing, and a cell the   *)
(* outlier layer marks is marked by the heatmap and the scan alike         *)
(* (semantic-render.ts, lib/layers).                                       *)
PicturesKeepOrder ==
  Once =>
    \A col \in Columns :
      LET cells == ToSet(col.cells)
          pictures(v) == [m \in Modes |-> renderCellSemantic(m, col, v)]
          layers(v) == [l \in Layers |-> LayerCell(l, col, v)]
          drawn(p, q) ==
            \A k \in DOMAIN p :
              p[k].kind = "shade" /\ q[k].kind = "shade" => Proper(p[k].t) /\ AtMost(p[k].t, q[k].t)
      IN  /\ \A v \in cells, k \in {"profile", "heatmap", "scan", "read"} :
               (pictures(v)[k].kind = "missing") = (v = Null)
          /\ Null \in cells => \A l \in Layers : layers(Null)[l].kind \in {"missing", "nothing"}
          /\ \A v, w \in cells \ {Null} :
               v <= w => /\ drawn(pictures(v), pictures(w))
                         /\ col.dt \in {"numeric", "temporal"} => drawn(layers(v), layers(w))
          /\ \A v \in cells \ {Null} :
               layers(v)["outlier"].mark # "none" =>
                 \A k \in {"heatmap", "scan"} : pictures(v)[k].mark = layers(v)["outlier"].mark

(* A pixel of the minimap has the colour of a row group that has a row     *)
(* there, and that the neutral map takes into its mean; the strips of the  *)
(* columns do not overlap and leave no pixel; the satellite view paints a  *)
(* group within its rows, and all of those that are on the canvas unless   *)
(* the group is taller; colours lie on their scale, and the line of means  *)
(* in its box (minimap-render.ts, profile-render.ts).                      *)
RowGroupsFillTheirPixels ==
  Once =>
    \A s \in {t \in Samples : t.format = "parquet"}, height \in Heights :
      LET rgs == RowGroups(s)
          line == buildDriftSparklinePoints(s)
      IN  /\ \A y \in 0 .. height - 1 :
               \E g \in PaintedWith(s, y, height) :
                 /\ g \in NeutralGroups(s, y, height)
                 /\ rgs[g].row_offset * height < (y + 1) * RowsOf(s)
                 /\ (rgs[g].row_offset + rgs[g].row_count) * height > y * RowsOf(s)
          /\ \A n \in 1 .. 4, x \in 0 .. height - 1 :
               Cardinality({k \in 0 .. n - 1 : x \in Strip(k, n, height)}) = 1
          /\ \A cellH \in CellSizes, scrollY \in 0 .. RowsOf(s) * 2, g \in DOMAIN rgs :
               LET top == rgs[g].row_offset * cellH - scrollY
                   rows == (top .. top + rgs[g].row_count * cellH - 1) \cap 0 .. height - 1
                   band == renderSatellitePass(s, g, cellH, scrollY, height)
               IN  /\ band \subseteq rows
                   /\ rgs[g].row_count * cellH <= height => band = rows
          /\ \A rg \in ToSet(rgs), l \in Layers, e \in Encodings :
               /\ computeLayerColor(s, l, rg) # Null => Proper(computeLayerColor(s, l, rg))
               /\ SatelliteColor(s, e, rg) # Null => Proper(SatelliteColor(s, e, rg))
          /\ line # Null =>
               \A g \in DOMAIN rgs :
                 /\ Proper(line[g].px) /\ Proper(line[g].py)
                 /\ \A h \in DOMAIN rgs :
                      Null \notin {Mean2(rgs[g]), Mean2(rgs[h])} /\ Mean2(rgs[g]) <= Mean2(rgs[h])
                        => AtMost(line[g].py, line[h].py)

(* The statistics of a column add up (StatsAddUp), and what the header says*)
(* of them fits together: a column with an alert for being constant or     *)
(* mostly missing has a score of 80 at most, one with neither alerts nor   *)
(* missing cells has a green score; bars stay in their place, the bar of   *)
(* the fullest bin is the full height, and the quartiles are in order      *)
(* (quality-alerts.ts, quality-score.ts, ColumnHeader.tsx).                *)
HeadersAgree ==
  /\ StatsAddUp
  /\ Once =>
    \A col \in {c \in Columns : c.full} :
      LET st == Stats(col)
          hist == st.histogram
          strip == drawQuartileStrip(col)
      IN  /\ \A skew \in Skews, infinite \in 0 .. 1 :
               LET alerts == classifyAlerts(col, skew, infinite)
                   score == Score(col, skew, infinite)
               IN  /\ score \in 0 .. 100
                   /\ {"constant", "high_null"} \cap alerts # {} => score <= 80
                   /\ alerts = {} /\ st.null_count = 0 => qualityScoreColor(score) = "green"
          /\ \A w \in CellSizes :
               LET bar == drawNullRateBar(col, w, FALSE)
               IN  w >= 2 /\ bar # << >> => bar[2] >= 0
          /\ HasQuantiles(col) =>
               /\ \A k \in 1 .. 5 : Proper(strip[k]) /\ (k > 1 => AtMost(strip[k - 1], strip[k]))
               /\ \A w \in CellSizes, h \in {3, 10} :
                    w >= 4 + Len(hist) =>
                      \A bars \in {drawSparkline(hist, w, h), drawInlineHistogram(hist, w, h - 2)} :
                        /\ \E i \in DOMAIN bars : bars[i].h = h - 2
                        /\ \A i \in DOMAIN bars :
                             /\ bars[i].h \in 1 .. h - 2 /\ bars[i].x + bars[i].w <= w
                             /\ i > 1 => bars[i - 1].x + bars[i - 1].w <= bars[i].x
=============================================================================
