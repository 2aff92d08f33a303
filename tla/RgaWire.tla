------------------------------- MODULE RgaWire -------------------------------
(***************************************************************************)
(* src/core/Graphics/Rga and suUDS/suUdsMsg/part/graphics/rga: what a call *)
(* of RgaServiceClient means, on its way to the hardware: as a message, as *)
(* ids to be looked up, as a step of a chain, as a task of the hardware.   *)
(*                                                                         *)
(* A call is an operation and its arguments by position; the client's      *)
(* function, Build..., Create..., the table's slots, the parser's callback *)
(* and the service's callback all take them in the same order.  Buffers,   *)
(* what their configs say and rects are told apart, other arguments are    *)
(* not looked at.                                                          *)
(***************************************************************************)
EXTENDS Integers, Sequences

CONSTANTS
  NoBuffer,  \* a null shared_ptr
  Shape,     \* Shape[c]: width, height and format of config c
  Offset     \* Offset[c]: its x_offset and y_offset

-----------------------------------------------------------------------------
(* The tables of GraphicsMsg_ToRga: their fields in the order of the slots. *)

RgaCopy           == <<"src_fd", "dst_fd", "src_cfg", "dst_cfg">>
RgaRotate         == <<"src_fd", "dst_fd", "src_cfg", "dst_cfg", "angle">>
RgaFill           == <<"dst_fd", "dst_cfg", "color">>
RgaBlend          == <<"src_fd", "dst_fd", "src_cfg", "dst_cfg", "mode">>
RgaOsd            == <<"src_fd", "dst_fd", "dst_cfg", "osd_cfg">>
RgaResize         == <<"src_fd", "dst_fd", "src_cfg", "dst_cfg", "fx", "fy">>
RgaCrop           == <<"src_fd", "dst_fd", "src_cfg", "dst_cfg">>
RgaConvert        == <<"src_fd", "dst_fd", "src_cfg", "dst_cfg", "mode">>
RgaFlip           == <<"src_fd", "dst_fd", "src_cfg", "dst_cfg", "mode">>
RgaComposite      == <<"fg_fd", "bg_fd", "dst_fd", "fg_cfg", "bg_cfg", "dst_cfg", "mode">>
RgaColorKey       == <<"fg_fd", "bg_fd", "fg_cfg", "bg_dst_cfg", "range", "mode">>
RgaMosaic         == <<"dst_fd", "dst_cfg", "mode">>
RgaRectangle      == <<"dst_fd", "dst_cfg", "color", "thickness">>
RgaFillArray      == <<"dst_fd", "dst_cfg", "rects", "color">>
RgaRectangleArray == <<"dst_fd", "dst_cfg", "rects", "color", "thickness">>
RgaMosaicArray    == <<"dst_fd", "dst_cfg", "rects", "mode">>

\* The union ToRgaPayload.
Table ==
  [Copy |-> RgaCopy, Rotate |-> RgaRotate, Fill |-> RgaFill, Blend |-> RgaBlend,
   Osd |-> RgaOsd, Resize |-> RgaResize, Crop |-> RgaCrop, Convert |-> RgaConvert,
   Flip |-> RgaFlip, Composite |-> RgaComposite, ColorKey |-> RgaColorKey,
   Mosaic |-> RgaMosaic, Rectangle |-> RgaRectangle, FillArray |-> RgaFillArray,
   RectangleArray |-> RgaRectangleArray, MosaicArray |-> RgaMosaicArray]

Op == DOMAIN Table

\* The argument of a call that is the field f of its table.
Slot(op, f) == CHOOSE k \in DOMAIN Table[op] : Table[op][k] = f
Arg(op, args, f) == args[Slot(op, f)]

-----------------------------------------------------------------------------
(* The message.  FlatBuffers does not store a field that has its default,   *)
(* which is 0 for every scalar of these tables.                             *)

ToRgaEnvelope(op, payload) == [payload_type |-> op, payload |-> payload]

Build(op, args) ==
  LET stored == {Table[op][k] : k \in {i \in DOMAIN Table[op] : args[i] # 0}}
  IN ToRgaEnvelope(op, [f \in stored |-> Arg(op, args, f)])

Parse(m) ==
  [k \in DOMAIN Table[m.payload_type] |->
     LET f == Table[m.payload_type][k]
     IN IF f \in DOMAIN m.payload THEN m.payload[f] ELSE 0]

-----------------------------------------------------------------------------
(* RgaService: what its callbacks look up as s, d and p.                    *)

HasSource == {"Copy", "Rotate", "Blend", "Osd", "Resize", "Crop", "Convert", "Flip"}

\* A variant of Lookups that passes on the ids of a composition as they come.
LookupsInOrder(op, args) ==
  CASE op = "Composite" -> <<args[1], args[2], args[3]>>
    [] op = "ColorKey"  -> <<Arg(op, args, "fg_fd"), Arg(op, args, "bg_fd"), -1>>
    [] op \in HasSource -> <<Arg(op, args, "src_fd"), Arg(op, args, "dst_fd"), -1>>
    [] OTHER            -> <<-1, Arg(op, args, "dst_fd"), -1>>

Lookups(op, args) ==
  CASE op = "Composite" -> <<Arg(op, args, "fg_fd"), Arg(op, args, "dst_fd"), Arg(op, args, "bg_fd")>>
    [] op = "ColorKey"  -> <<Arg(op, args, "fg_fd"), Arg(op, args, "bg_fd"), -1>>
    [] op \in HasSource -> <<Arg(op, args, "src_fd"), Arg(op, args, "dst_fd"), -1>>
    [] OTHER            -> <<-1, Arg(op, args, "dst_fd"), -1>>

-----------------------------------------------------------------------------
(* RgaChain: the step that add... makes of the buffers found.  The shape of *)
(* a config that is not set has no initializer: Unset stands for what was   *)
(* there; the offsets have one.                                             *)

Unset == "unset"
Origin == <<0, 0>>
NoConfig == [shape |-> Unset, at |-> Origin]

OnArray == {"FillArray", "RectangleArray", "MosaicArray"}

\* A step of s and d.  What no operation sets is as RgaStep has it.
Pairwise(s, d, src_cfg, dst_cfg) ==
  [src |-> s, dst |-> d, pat |-> NoBuffer, src_cfg |-> src_cfg, dst_cfg |-> dst_cfg,
   pat_cfg |-> NoConfig, rects |-> <<>>]

\* The arrays are given as rects, and the offsets of their config are zeroed.
Step(op, args, s, d, p) ==
  LET cfg(f) == [shape |-> Shape[Arg(op, args, f)], at |-> Offset[Arg(op, args, f)]]
  IN CASE op = "Composite" -> [Pairwise(s, d, cfg("fg_cfg"), cfg("dst_cfg"))
                                 EXCEPT !.pat = p, !.pat_cfg = cfg("bg_cfg")]
       [] op = "ColorKey"  -> Pairwise(s, d, cfg("fg_cfg"), cfg("bg_dst_cfg"))
       [] op = "Osd"       -> Pairwise(s, d, NoConfig, cfg("dst_cfg"))
       [] op \in HasSource \ {"Osd"} -> Pairwise(s, d, cfg("src_cfg"), cfg("dst_cfg"))
       [] op \in OnArray   -> [Pairwise(NoBuffer, d, NoConfig, cfg("dst_cfg"))
                                 EXCEPT !.dst_cfg.at = Origin, !.rects = Arg(op, args, "rects")]
       [] OTHER            -> Pairwise(NoBuffer, d, NoConfig, cfg("dst_cfg"))

-----------------------------------------------------------------------------
(* RgaEngine: what the hardware is told to do with which buffer, in which   *)
(* shape and region.                                                        *)

Whole == <<"whole">>
Rects(rects) == <<"rects", rects>>

\* A variant of Rect from before RgaConfig had offsets.
RectAtOrigin(cfg) == <<"rect", [cfg EXCEPT !.at = Origin]>>

\* s_rect or d_rect.
Rect(cfg) == <<"rect", cfg>>

\* get_bundled_buffer, which takes the shape only; a null pointer gives the
\* hardware no buffer.
Bundled(b, cfg, region, does) ==
  IF b = NoBuffer THEN {}
  ELSE {[buffer |-> b, shape |-> cfg.shape, region |-> region, does |-> does]}

\* The switch of submit.  Five operations are given a rectangle and three an array of
\* them; the others work on the whole buffers.
Task(op, step) ==
  LET source == IF op = "Crop" THEN Rect(step.src_cfg) ELSE Whole
      target == CASE op \in {"Fill", "Osd", "Mosaic", "Rectangle"} -> Rect(step.dst_cfg)
                  [] op \in OnArray -> Rects(step.rects)
                  [] OTHER -> Whole
  IN Bundled(step.src, step.src_cfg, source, "read")
       \cup Bundled(step.pat, step.pat_cfg, Whole, "read")
       \cup Bundled(step.dst, step.dst_cfg, target, "write")

-----------------------------------------------------------------------------
(* What a caller means by the parameters of an operation, by GraphicsMsg_ToRga.fbs. *)

\* The operation writes its dst; a color key is applied to its background.
Target(op) == IF op = "ColorKey" THEN "bg_fd" ELSE "dst_fd"

\* The parameters that name buffers, and the config that goes with each.
Cfg(op, f) ==
  CASE f = "src_fd" -> "src_cfg"
    [] f = "dst_fd" -> "dst_cfg"
    [] f = "fg_fd"  -> "fg_cfg"
    [] f = "bg_fd"  -> IF op = "ColorKey" THEN "bg_dst_cfg" ELSE "bg_cfg"
Named(op) == {"src_fd", "dst_fd", "fg_fd", "bg_fd"}
               \cap {Table[op][k] : k \in DOMAIN Table[op]}

\* The source of an osd is the one buffer that has no config.
HasConfig(op, f) == ~(op = "Osd" /\ f = "src_fd")

\* Where an operation works on the buffer that f names.  A crop is a part of its
\* source, and what is drawn is drawn at the offsets or at the rects; the offsets of
\* all other configs mean nothing.
MeantRegion(op, args, f) ==
  LET c == Arg(op, args, Cfg(op, f))
      own == <<"rect", [shape |-> Shape[c], at |-> Offset[c]]>>
  IN CASE op = "Crop" -> IF f = "src_fd" THEN own ELSE Whole
       [] op \in {"Fill", "Osd", "Mosaic", "Rectangle"} -> IF f = "dst_fd" THEN own ELSE Whole
       [] op \in OnArray -> Rects(Arg(op, args, "rects"))
       [] OTHER -> Whole
=============================================================================
