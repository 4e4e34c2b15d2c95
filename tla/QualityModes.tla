----------------------------- MODULE QualityModes -----------------------------
(***************************************************************************)
(* The quality presets, what a phone's profile leaves of them (modes.rs)   *)
(* and what ffmpeg is told to make of the result (encode.rs, spawn).       *)
(***************************************************************************)
EXTENDS Integers, FiniteSets

Sync == 0
Balanced == 1
Quality == 2
Battery == 3
Modes == {Sync, Balanced, Quality, Battery}
FromU8(v) == {m \in Modes : m = v}

Least(a, b) == IF a <= b THEN a ELSE b
Most(a, b) == IF a >= b THEN a ELSE b

\* A tenth of a second of the stream, in bytes; a floor of 64 KiB.
SndbufFor(kbps) == Most(64 * 1024, (((kbps * 1000) \div 8) * 100) \div 1000)

Made(w, h, fps, kbps, gop, budget) ==
  [width |-> w, height |-> h, fps |-> fps, maxrate |-> kbps, gop |-> gop,
   budget |-> budget, sndbuf |-> SndbufFor(kbps)]
Preset(mode) ==
  CASE mode = Sync -> Made(1280, 720, 30, 6000, 8, 40)
    [] mode = Balanced -> Made(1920, 1080, 30, 8000, 15, 80)
    [] mode = Quality -> Made(1920, 1080, 30, 16000, 30, 150)
    [] mode = Battery -> Made(1280, 720, 20, 3000, 20, 120)

-----------------------------------------------------------------------------
(* Preset::clamped_to. *)

CredibleWidth(d) == Most(d.width, 320)
CredibleHeight(d) == Most(d.height, 240)
CredibleFps(d) == Most(Least(d.fps, d.refresh), 15)

\* (x * scale) as u32, made even, with scale = n / m.  The product is computed
\* in f64: one that is a whole number may come out just below it.
Scaled(x, n, m) ==
  LET whole == (x * n) \div m
  IN {2 * (v \div 2) : v \in IF (x * n) % m = 0 THEN {whole, whole - 1}
                                               ELSE {whole}}
\* The sizes that the tighter of the two ratios gives.
Sizes(p, d) ==
  LET w == CredibleWidth(d)
      h == CredibleHeight(d)
      byWidth == w * p.height <= h * p.width
      Fit(x) == IF byWidth THEN Scaled(x, w, p.width)
                           ELSE Scaled(x, h, p.height)
  IN IF p.width > w \/ p.height > h
     THEN {[width |-> a, height |-> b] : a \in Fit(p.width), b \in Fit(p.height)}
     ELSE {[width |-> p.width, height |-> p.height]}

\* Rounded to the nearest whole frame, halves up.
Rescaled(gop, fps, was) == Most((2 * gop * fps + was) \div (2 * was), 1)
Rate(p, d) ==
  LET fps == Least(p.fps, CredibleFps(d))
  IN [fps |-> fps, gop |-> Rescaled(p.gop, fps, p.fps)]

\* Mutant: a size that fits the screen is kept, whatever the decoder says.
ClampedToMutant(p, d) ==
  {[p EXCEPT !.fps = Rate(p, d).fps, !.gop = Rate(p, d).gop]}
ClampedTo(p, d) ==
  {[p EXCEPT !.width = s.width, !.height = s.height,
             !.fps = Rate(p, d).fps, !.gop = Rate(p, d).gop] : s \in Sizes(p, d)}

-----------------------------------------------------------------------------
(* spawn: a size equal to the source's needs no scale filter. *)

NoScale == [width |-> 0, height |-> 0]
Arguments(p, source) ==
  [size |-> source,
   scale |-> IF [width |-> p.width, height |-> p.height] # source
             THEN [width |-> p.width, height |-> p.height] ELSE NoScale,
   rate |-> p.fps, gop |-> p.gop,
   target |-> Most(p.maxrate \div 2, 1), maxrate |-> p.maxrate,
   bufsize |-> Most(p.maxrate \div 10, 1)]
\* The size of the pictures that ffmpeg then makes.
Encoded(a) == IF a.scale = NoScale THEN a.size ELSE a.scale
=============================================================================
