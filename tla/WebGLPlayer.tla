----------------------------- MODULE WebGLPlayer -----------------------------
(***************************************************************************)
(* The page's WebGL player, ws-wasm-player/lib/webgl.js, as operators on   *)
(* the WebGL context of its canvas: getContext returns the same context to *)
(* every player of the page, with all that the earlier ones have left in   *)
(* it.  The context is external; its state is what activeTexture,          *)
(* bindTexture, uniform1i and texImage2D change and drawArrays reads.      *)
(* Shaders, vertices and texture parameters are the same for all players   *)
(* and left out; fullscreen() and exitFullscreen() have no caller.         *)
(***************************************************************************)
EXTENDS Integers

CONSTANTS
  MaxPlayers, (* bound: players made on the page                           *)
  Frames      (* the frames the decoder may call back: id, width, height   *)

Planes == {"y", "u", "v"}
Units == 0..2
Textures == (1..MaxPlayers) \X Planes
NoTexture == <<0, "none">>

(* Sizes of any parity, that the context's textures may have.              *)
ASSUME FramesAssumption ==
    /\ MaxPlayers \in Nat
    /\ \A f \in Frames : f.width \in Nat /\ f.height \in Nat

(* Of even width and height. *)
Even(f) == f.width = 2 * (f.width \div 2) /\ f.height = 2 * (f.height \div 2)

(* What a texture holds: a rectangle of bytes from an offset in a frame.   *)
Image(f, at, width, height) ==
    [frame |-> f, at |-> at, width |-> width, height |-> height]

NoFrame == [id |-> 0, width |-> 0, height |-> 0]
Blank == Image(NoFrame, 0, 0, 0)

Images == [frame : Frames \union {NoFrame}, at : Nat, width : Nat, height : Nat]

Contexts == [active : Units,
             bound : [Units -> Textures \union {NoTexture}],
             content : [Textures -> Images],
             sampler : [Planes -> Units],
             own : 0..MaxPlayers]

(* A new context: active is the active texture unit, bound the texture of  *)
(* each unit, sampler the unit that each sampler of the current program    *)
(* reads, and own the player whose textures are the context's y, u and v.  *)
NewContext == [active |-> 0,
               bound |-> [i \in Units |-> NoTexture],
               content |-> [t \in Textures |-> Blank],
               sampler |-> [p \in Planes |-> 0],
               own |-> 0]

CreateTexture(gl, t) == [gl EXCEPT !.bound[gl.active] = t, !.content[t] = Blank]

Bind(gl, t, n, name) ==
    [gl EXCEPT !.active = n, !.bound[n] = t, !.sampler[name] = n]

(* fill() binds its texture to whatever unit is active. *)
Bound(gl, t) == [gl EXCEPT !.bound[gl.active] = t]

(* texImage2D refuses an array that is too short (UNPACK_ALIGNMENT is 1),  *)
(* and leaves the texture as it was.                                       *)
Fill(gl, t, width, height, f, from, upto) ==
    IF upto - from < width * height THEN Bound(gl, t)
    ELSE [Bound(gl, t) EXCEPT !.content[t] = Image(f, from, width, height)]

(* The textures are made before any of them is bound to its unit. *)
MakeTextures(gl, n) ==
    CreateTexture(CreateTexture(CreateTexture([gl EXCEPT !.own = n],
        <<n, "y">>), <<n, "u">>), <<n, "v">>)

NewPlayer(gl, n) ==
    Bind(Bind(Bind(MakeTextures(gl, n),
        <<n, "y">>, 0, "y"), <<n, "u">>, 1, "u"), <<n, "v">>, 2, "v")

LenY(f) == f.width * f.height
LenU(f) == LenY(f) \div 4
LenUV(f) == LenY(f) \div 2

FillY(gl, f) ==
    Fill(gl, <<gl.own, "y">>, f.width, f.height, f, 0, LenY(f))

FillU(gl, f) ==
    Fill(gl, <<gl.own, "u">>, f.width \div 2, f.height \div 2,
         f, LenY(f), LenY(f) + LenU(f))

FillV(gl, f) ==
    Fill(gl, <<gl.own, "v">>, f.width \div 2, f.height \div 2,
         f, LenY(f) + LenU(f), LenY(f) + LenUV(f))

(* Mutant: the u plane is filled last. *)
FillPlanesUV(gl, f) == FillU(FillV(FillY(gl, f), f), f)

FillPlanes(gl, f) == FillV(FillU(FillY(gl, f), f), f)

(* What drawArrays reads through the program's samplers. *)
Sampled(gl) == [p \in Planes |-> gl.content[gl.bound[gl.sampler[p]]]]

Render(gl, f) == FillPlanes(gl, f)

(* What a render() that throws has done: nothing, or all up to the         *)
(* texImage2D of a plane.                                                  *)
RenderThrown(gl, f) ==
    {gl,
     Bound(gl, <<gl.own, "y">>),
     Bound(FillY(gl, f), <<gl.own, "u">>),
     Bound(FillU(FillY(gl, f), f), <<gl.own, "v">>)}

(* Where the planes of a frame are: av_image_fill_arrays without padding,  *)
(* with the chroma planes' sizes rounded up.                               *)
Plane(f, p) ==
    LET size == f.width * f.height
        width == (f.width + 1) \div 2
        height == (f.height + 1) \div 2
    IN  CASE p = "y" -> Image(f, 0, f.width, f.height)
          [] p = "u" -> Image(f, size, width, height)
          [] p = "v" -> Image(f, size + width * height, width, height)

(* A context that a player has been made on: y and u are on the units that *)
(* their samplers read, and the unit of v is the active one, through which *)
(* render() binds all three, v last.                                       *)
Ready(gl, n) ==
    /\ gl.own = n
    /\ gl.active = 2
    /\ gl.sampler["y"] = 0 /\ gl.bound[0] = <<n, "y">>
    /\ gl.sampler["u"] = 1 /\ gl.bound[1] = <<n, "u">>
    /\ gl.sampler["v"] = 2 /\ gl.bound[2] \in Textures
=============================================================================
