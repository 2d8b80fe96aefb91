\* Two concurrent calls and two writers, which start, write and end at any await;
\* two contents of either kind, and two epochs for a result that is out of date.
CONSTANTS
  Gates = {g1, g2}
  Writers = {w1, w2}
  Visible = {v1, v2}
  Ignored = {i1, i2}
  Unknown = Unknown
  MaxEpoch = 2
SYMMETRY Perms
SPECIFICATION ReuseSpec
INVARIANTS ReuseSound
