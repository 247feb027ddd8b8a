# TLA+ models of the GRE heatmap core (`src/script/plot.py`)

This directory holds TLA+ models of the parts of `src/script/plot.py` that have algorithmic content. Those parts turn benchmark tables into "winner" heatmaps that compare learned and traditional index structures. TLC checks the models. `PROJECT.json` lists every component, run, mutant, finding and hazard.

## 1. Inventory

The program is a single-threaded Python script. Nothing runs concurrently and nothing is persisted, and there are no messages or timeouts. What makes it hard is the control inside a few functions: a recursive flood fill, several nested loops whose results depend on iteration order, numpy's behaviour on empty input and on nan, and flipped coordinate conventions between the functions.

| Component | Code | State it keeps | Operations | Interacts with |
|---|---|---|---|---|
| Heatmap Extractor | `extract_heatmap_data` (85-128) | `heatmap_mat` (best value per cell), `index_mat` (winner label per cell, dtype `<U14`) | one iteration per (candidate, i, j): aggregate (mean / min / max / 50percent), compare (`gt` / `lt`), overwrite value and label | called twice per figure (learned and traditional lists) by the plot functions |
| Region Labeler | `get_index_area` (130-174) | `edges` (4-bit mask per cell), `set_mat` (component id), `set_number`, the Python call stack of `point_index` | `check` per cell; row-major scan; recursive `point_index` with four neighbour tests in the order up, down, left, right | called by `plot_2d_heatmap_pgm` on the combined winner grid |
| Heatmap Renderer | `label_index` (176-210), `plot_2d_heatmap_pgm` (286-333) | drawn lines, texts, `set_flag_array` | one loop draws lines from the flipped edge masks; a second writes one text per component id | reads `edges` (flipped) and `set_mat`/`index_mat` (not flipped) |
| Winner combination | `plot_3d_heatmap` (335-493), `plot_2d_heatmap` (495-561), lines 298-308 | `heatmap_single` ratio grid, combined `index_mat` | ratio `(T-L)/max(T,L)`, traditional label where the ratio is > 0, tie sentinel `"T"` below `tied_perc`, one scatter point per cell with style and legend lookups | consumes two extractor results |
| Lookup tables | 9-57, `get_index_style` (235-284) | constant dicts | lookups, which raise on unknown keys | used by all renderers |
| Ingestion, other charts, `__main__` | 76-83, 215-233, 563-884 | none beyond pandas frames | CSV reading, bar and line charts | out of the spec's core |

### What each component must guarantee

- **Extractor.**
  - Each cell holds the extreme aggregate and the label of the first candidate that reached it.
  - nan never displaces a value.
  - A blank label should mean the cell has no data (spec.md 4.1).
  - An empty aggregation or an unknown option should not end mid-loop or go unnoticed (spec.md 7).
- **Region labeler.**
  - Ids partition the grid into maximal 4-connected regions of equal labels.
  - Ids are numbered 1..K in row-major order of the regions' first cells.
  - The fill terminates, and its recursion depth is bounded.
- **Renderer.**
  - Lines are drawn exactly at label borders of the displayed (flipped) image and around its frame.
  - Each region gets exactly one text, on its own cell, with its own label.
- **Winner combination.**
  - The label names the family with the better value.
  - A tie sentinel or a blank label must not break the renderer. spec.md 6 says a tie sentinel is "just another label value".

### Hazards

The hazards are listed in `PROJECT.json`, each at the line where it bites. The main ones:

- Recursion depth equal to the region size.
- Neighbour tests that read `set_mat` after nested calls have changed it.
- The flip between edges and texts.
- The tie-break given by the strict `>`.
- nan handling.
- The 0 start value.
- Exceptions raised on empty selections.
- The tie sentinel, which `get_index_style` does not know.
- The `* 5` zip alignment in the scatter plots.

## 2. Modules

| Module | Models | Notes |
|---|---|---|
| `LabelerSpec` | what `get_index_area` promises | One step assigns `ComponentIds(mat)`. Regions come from a fixpoint closure (`Grow`). Ids count the region leaders that come earlier in row-major order. |
| `RegionLabeler` | `get_index_area` + `label_index` | Phases `edges -> scan -> fill -> lines -> text -> done`. The recursion is an explicit stack of frames `[cell, dir]`, and each neighbour test is one step, so a test sees `set_mat` as nested calls left it. Lines use doubled coordinates, so the half-unit positions of `hlines`/`vlines` are integers. It instantiates `LabelerSpec` under the refinement mapping "ids are visible once the scan has finished". |
| `HeatmapExtractor` | `extract_heatmap_data` | The table is abstracted to the sorted attr3 values that each (candidate, cell) filter selects. Aggregates are exact rationals. `NaN` and `Raise` are model values. What `np.percentile` does on empty input depends on the numpy release, so it is chosen once per run (`empty_pct`). |
| `WinnerGrid` | lines 359-407 of `plot_3d_heatmap` (`plot_2d_heatmap` repeats them) | The inputs are two extraction results per cell: blank `<<0, "">>`, or a positive value with a family label, which is the shape `FirstBestSoFar` establishes. Ratios are exact `<<num, den>>`, and 0/0 is `NaN`. The phases are `winner -> tie -> scale -> plot -> done/error`, one cell per step. `Scale` is lines 400-403: a truthy `maximum_ratio`, or the largest `|heatmap_single|`, which is `NaN` if any cell is. `PlotRaise` is `get_index_style`'s `idx_index.index` or the `index_display[single_abbr2index[...]]` lookup failing. `Marker` is `get_index_style`'s marker, from `idx_index`, `LINE_MARKS` and `style_map`, translated from the code. `marks` records the `<<label, marker>>` pairs drawn. `NPoints` is the length of the `zip`. |
| `TableOrder` | the pandas operations the axes come from | The table is reduced to its measured `<<dataset, insert_ratio>>` pairs, in every order the CSV can list them (`Tables`). `read_ratio = 100 - insert_ratio`, in percent. `FirstSeen` is `Series.unique()`, built with `FoldLeft`. `StableSortBy` is a multi-key `sort_values`, which is stable: each row's rank is the count of rows before it. `Repeated` is `list * 5`. |
| `ScatterAxes` | where `plot_3d_heatmap` (348-352, 382-389, 404-462) and `plot_2d_heatmap` (498-499, 529-549) draw each cell | The variable `figure` says which function runs. `SortRows` (3D) sorts by `(insert_ratio, pgm)` only when `plot_on = "insert"`; `SortRows2D` always sorts. `PlotPoint2D` and `PlotRaise2D` are the 2D loop body: the dataset abbreviation is written on the write-ratio-1 row, and a missing one raises. `Xs`, `Ys`, `Zs` and `DsName` are the four lists, each derived separately from the row order. `PlotPoint` is one zip element: it draws the cell with its coordinates, and gives a dataset its text the first time it appears. `PlotRaise` is the `dataset_abbreviation` KeyError. |
| `PgmHeatmap` | `plot_2d_heatmap_pgm` (286-333) as a composition of the components it calls | The phases are `sort -> extract -> combine -> label -> annotate -> axes -> done`. `SortRows` sorts by `(order_val = pgm, insert_ratio)`. `Extract` stands for the two `extract_heatmap_data` calls through what `HeatmapExtractor` establishes: on a cell with no row of the table both families keep `<<0, "">>`, and on a measured cell each family is blank or one of its members. `Combine` is lines 298-308. `Label` is `get_index_area`, taken from `LabelerSpec` (which `RegionLabeler` is checked to refine), instantiated for the grid shape of the current table (`Area(r, c)`). `Annotate` is `label_index`'s text loop: one text per id at its first cell, at `(j, rows - i - 1)`, skipped only for the label `'nan'`. `DrawAxes` records Y per row, the x tick labels and the dataset name under each column. |
| `MCRegionLabeler`, `MCHeatmapExtractor`, `MCWinnerGrid`, `MCScatterAxes`, `MCPgmHeatmap` | model values and bounds for TLC | |

Each action is one iteration of a loop in the code, or one neighbour test or return of `point_index`. Guards come from the code's `if`s. For example, `FillDescend` is the conjunction `i != shape-1 and mat[n]==mat[c] and set_mat[n]==0`, and `FillSkip` is its negation. Plausible faults are defined next to the operators they replace, for the mutant checks.

## 3. Runs

| Run | Checks | Shows |
|---|---|---|
| `labeler` (pass) | `TypeOK`, `FillComplete`, `RegionsSound`, `RecursionDepthBound`, `RenderedBoundaries`, `AnnotatedOnce`, `LabelerRefinesSpec` | On all 512 3x3 grids over two labels: no fill returns while a reachable equal-label cell is unlabelled, and no id crosses a label border. The stack never exceeds the region size. The function terminates and refines `LabelerSpec`. `label_index` draws exactly the displayed borders and one correctly placed text per region; the two flips compensate each other. |
| `extractor` (pass) | `TypeOK`, `FirstBestSoFar` | Checked after every iteration against a reference: the first extreme candidate, with nan ignored. |
| `extractor_blank` (violation) | `BlankMeansNoData` | A cell whose only measurement is 0 stays blank (finding). |
| `extractor_empty` (violation) | `EmptyCellGivesNoData` | With `aggre` restricted to `min`/`max` (`MCMinMaxAggregators`), `np.min`/`np.max` of no rows raise out of the loop (finding). `50percent` is left out of this run, because what `np.percentile` does on no rows depends on the numpy release. |
| `winner` (pass) | `TypeOK`, `WinnerIsBetterFamily` | Every combined label names the family that is at least as good: traditional only when strictly faster, learned on equality, `"T"` only within `tied_perc`, blank only where neither family measured (0/0 = nan fails `> 0`). |
| `scatter_axes` (pass) | `TypeOK`, `PointsAtTheirCells` | Datasets have distinct pgm. For both scatter heatmaps and every table, in every CSV order, sorted or not (`plot_on` other than `"insert"`), each point is drawn at the pgm of its cell's column and the write ratio of its row, with that column's dataset and pgm_global. The separately built lists stay aligned because they all follow the same first-seen order. |
| `scatter_rows` (violation) | `AllCellsPlotted` | Six write ratios: the zip stops at `5 * C` points and the sixth row is never drawn (finding). |
| `pgm_heatmap` (pass) | `TypeOK`, `ColumnsOrderedAndLabelled`, `RegionsShowWinners` | For every table and every pair of extraction results, the hardness heatmap's columns ascend in pgm, and each column has its own tick label and dataset name. Every cell lies in the region of exactly one `label_index` text, and that text names the winning family of every cell of its region. This is read through the sort, both extractions, the ratio grid, `get_index_area` and the row flip. Blank (no-data) regions get the empty text, because the `'nan'` check never matches. |
| `pgm_rows` (violation) | `WriteRatioRowsAscending` | The easiest dataset lacks a write ratio. That ratio's row is appended last, so the rows are out of order under the fixed tick labels (finding). |
| `winner_tie` (violation) | `ScatterCompletes` | A tied cell's `"T"` is unknown to `get_index_style` and to `index_display`, so the scatter loop raises (finding). Blank cells raise the same way. |
| `winner_markers` (violation) | `MarkersIdentifyWinners` | Uses the index lists of `__main__`'s single-threaded 3D call. `get_index_style` gives finedex (`"F"`, no `style_map` entry, `LINE_MARKS[15 % 14]`) the marker `"o"` of lipp. The scatter colours points by ratio, so the two winners cannot be told apart (finding). |
| `winner_scale` (violation) | `ColourScaleDefined` | The inputs are measured cells only (`MCMeasuredLearned`, `MCMeasuredTrad`), so every label can be drawn. Without `maximum_ratio`, a grid of ties makes the colour scale `np.abs(...).max()` 0, and every point is drawn with `vmin = vmax = 0` (finding). An unmeasured cell would make the scale nan, but its blank label raises in `get_index_style` before anything is drawn. |

### Bounds

- **Labeler: 3x3 grid, two labels.** This grid has rings around the centre and U-shaped regions, where the fill must turn back up. It has snakes that drive the stack to the size of the region, and regions cut off from their row-major seed. Both the `R-1` border and an interior row occur. `StackBound` (depth <= R*C+1) only keeps faulty variants finite; the real code never reaches it.
- **Winner: a 2x1 grid, two labels per family at values 1..3 or blank, `tied_perc` None or 1/2, `maximum_ratio` None or 0.4.** `winner_markers` uses the nine abbreviations of `__main__`'s single-threaded 3D call, at values 1..2 or blank. These bounds give both strict orders, equality, a ratio of 1/3 under the threshold and 2/3 above it, blank-on-one-side and blank-on-both cells, and labels repeated across cells for the `exist_label` path. Cells do not interact except through `exist_label`.
- **Axes: three datasets and two insert ratios (0 and 100), so the 2D write-ratio-1 row exists.** The runs enumerate every non-empty subset of the 6 pairs in every order: 1956 tables. That covers datasets with missing ratios, ratio groups with missing datasets, and CSV orders that are not sorted. pgm is given in a different order from the dataset names, and pgm_global in a different order from pgm, so a mix-up of lists shows. One dataset has no abbreviation, which exercises `PlotRaise`. `scatter_rows` uses one dataset with six ratios, the smallest grid that goes past the `* 5`.
- **Pgm heatmap: two datasets (pgm 2 and 1, so the names are not in pgm order) and insert ratios 0 and 50; per measured cell each family is blank or one of two results.** The 64 tables give grids from 1x1 to 2x2, with missing cells wherever a dataset lacks a ratio. Learned results (1, "A") and (2, "L") against traditional (1, "b") and (2, "b") give both strict orders, equality, one-sided cells, and regions of 1 to 4 cells in every shape a 2x2 grid allows. The easiest dataset can lack a ratio, which is the case `pgm_rows` needs. The pass run reaches 50k states.
- **Extractor: two candidates, 1x2 grid, at most two rows of value 0, 1 or 2, all four aggregators, both comparators, abbreviation on and off.** These bounds give ties, a mean strictly between two values (3/2), empty selections and zero measurements. One candidate has an abbreviation and the other does not. Cells do not interact, so more cells add nothing. The constant `Big = 3` stands for `1e15` and is above every value.

### Fairness

Each function is a single sequential call that always continues until it returns or raises. So `WF_vars(Next)` is justified, and it is only needed for termination, which is part of `LabelerRefinesSpec`: the recursive fill is the one place where termination depends on the code (on the `set_mat[n] == 0` check). The other functions are `for` loops over finite lists, which end by construction, so no termination property is stated for them. The runs set `CHECK_DEADLOCK FALSE` because the program really does stop once it returns or raises.

## 4. Plan and what is not modelled

1. Done: `LabelerSpec`, `RegionLabeler`, `HeatmapExtractor`, and their runs.
2. Done: **WinnerGrid**, with the colour scale, `get_index_style`'s markers, and the runs `winner`, `winner_tie`, `winner_scale` and `winner_markers`.
3. Done: **axis derivation** (`TableOrder`, `ScatterAxes`) and its runs.
4. Done: **composition** of `plot_2d_heatmap_pgm` in `PgmHeatmap` (`pgm_heatmap`, `pgm_rows`).
5. Open: `plot_2d_heatmap`'s combination (502-527) is the same code as `plot_3d_heatmap`'s (359-380). `WinnerGrid` models it once and maps it to the 3D lines.

### Not modelled

- **Ingestion** (`read_data`, `generate_pgm`, `generate_outlier`). This is CSV reading and string clean-up of dataset names. It has no control state; its only effect, the `pgm` and `pgm_global` columns, enters the models as the constants `Pgm` and `PgmGlobal`.
- **The single-purpose charts** (`plot_scalability`, `plot_memory`, `plot_latency`, `plot_range_query`, `plot_datashift`, `OOMFormatter`). spec.md 1 puts them outside the core. Each is a fixed nest of loops over the lists it is given, with one matplotlib call per element. Their failure points are single lookups:
  - `indexes.index("artolc")` on the numpy array that `unique()` returns when no `indexes` is passed;
  - the `raise` of `plot_latency` for a `thread_num` below 1.
  
  They are listed as hazards with a note.
- **`__main__`**: a fixed call sequence without branches.
- **The `<U14` width of `index_mat`**. It would truncate a longer label, but no name the script uses is longer than 12 characters, so it is not a hazard of this code.
