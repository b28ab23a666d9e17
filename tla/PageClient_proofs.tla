--------------------------- MODULE PageClient_proofs ---------------------------
(* Proofs about the player's operators, for any context they meet, and     *)
(* about the page: its button, its client and what it draws.               *)
EXTENDS PageClient, TLAPS

-----------------------------------------------------------------------------
(* The WebGL player *)

LEMMA UnitsAndPlanes ==
    /\ 0 \in Units /\ 1 \in Units /\ 2 \in Units
    /\ 0 # 1 /\ 0 # 2 /\ 1 # 2
    /\ "y" \in Planes /\ "u" \in Planes /\ "v" \in Planes
    /\ "y" # "u" /\ "y" # "v" /\ "u" # "v"
  BY DEF Units, Planes

(* A number is twice its half or one more, and rounding the half up is     *)
(* rounding it down for the even ones only.                                *)
LEMMA Halves ==
    ASSUME NEW a \in Nat
    PROVE  /\ a \div 2 \in Nat
           /\ a = 2 * (a \div 2) \/ a = 2 * (a \div 2) + 1
           /\ (a + 1) \div 2 = a \div 2 <=> a = 2 * (a \div 2)
  BY SMT

(* Of a product of two sizes, a quarter is no less than the product of     *)
(* their halves, and neither is what a half has more than a quarter.       *)
LEMMA Quarters ==
    ASSUME NEW a \in Nat, NEW b \in Nat, NEW r \in {0, 1}, NEW s \in {0, 1},
           NEW l, l = (2 * a + r) * (2 * b + s)
    PROVE  /\ l \in Nat /\ l \div 4 \in Nat /\ a * b \in Nat
           /\ l \div 4 >= a * b
           /\ l \div 2 - l \div 4 >= a * b
           /\ r = 0 /\ s = 0 => l \div 4 = a * b
<1> DEFINE k == a * b
           c == 2 * (a * s) + 2 * (b * r) + r * s
<1>1. k \in Nat
  BY SMT
<1>2. c \in Nat /\ (r = 0 /\ s = 0 => c = 0)
  BY SMT
<1>3. l = 4 * k + c
  BY SMT
<1> HIDE DEF k, c
<1>4. /\ l \in Nat /\ l \div 4 \in Nat
      /\ l \div 4 >= k /\ l \div 2 - l \div 4 >= k
      /\ c = 0 => l \div 4 = k
  BY <1>1, <1>2, <1>3, SMT
<1>5. QED
  BY <1>1, <1>2, <1>4 DEF k

LEMMA FrameSizes ==
    ASSUME NEW f \in Frames
    PROVE  LET w == f.width \div 2
               h == f.height \div 2
           IN  /\ f.width \in Nat /\ f.height \in Nat /\ w \in Nat /\ h \in Nat
               /\ LenY(f) \in Nat /\ LenU(f) \in Nat /\ w * h \in Nat
               /\ LenU(f) >= w * h
               /\ LenUV(f) - LenU(f) >= w * h
               /\ Even(f) => LenU(f) = w * h
<1> DEFINE w == f.width \div 2
           h == f.height \div 2
<1>1. f.width \in Nat /\ f.height \in Nat
  BY FramesAssumption
<1>2. w \in Nat /\ h \in Nat
  BY <1>1, Halves
<1>3. PICK r \in {0, 1} : f.width = 2 * w + r
  BY <1>1, Halves
<1>4. PICK s \in {0, 1} : f.height = 2 * h + s
  BY <1>1, Halves
<1>5. Even(f) => r = 0 /\ s = 0
  <2> HIDE DEF w, h
  <2>1. Even(f) => f.width = 2 * w /\ f.height = 2 * h
    BY DEF Even, w, h
  <2>2. QED
    BY <1>1, <1>2, <1>3, <1>4, <2>1
<1> HIDE DEF w, h
<1>6. LenY(f) = (2 * w + r) * (2 * h + s)
  BY <1>3, <1>4 DEF LenY
<1>7. /\ LenY(f) \in Nat /\ LenY(f) \div 4 \in Nat /\ w * h \in Nat
      /\ LenY(f) \div 4 >= w * h
      /\ LenY(f) \div 2 - LenY(f) \div 4 >= w * h
      /\ r = 0 /\ s = 0 => LenY(f) \div 4 = w * h
  BY <1>2, <1>6, Quarters
<1>8. QED
  BY <1>1, <1>2, <1>5, <1>7 DEF LenU, LenUV, w, h

(***************************************************************************)
(* The slices that render() takes of a frame's bytes are long enough for   *)
(* texImage2D at every size; that of y is its plane, and those of u and v  *)
(* are theirs exactly when width and height are even (webgl.js:150-156).   *)
(***************************************************************************)
THEOREM SlicesArePlanes ==
    ASSUME NEW f \in Frames
    PROVE  LET w == f.width \div 2
               h == f.height \div 2
           IN  /\ LenY(f) - 0 >= f.width * f.height
               /\ (LenY(f) + LenU(f)) - LenY(f) >= w * h
               /\ (LenY(f) + LenUV(f)) - (LenY(f) + LenU(f)) >= w * h
               /\ Image(f, 0, f.width, f.height) = Plane(f, "y")
               /\ Image(f, LenY(f), w, h) = Plane(f, "u") <=> Even(f)
               /\ Image(f, LenY(f) + LenU(f), w, h) = Plane(f, "v") <=> Even(f)
<1> DEFINE w == f.width \div 2
           h == f.height \div 2
           w1 == (f.width + 1) \div 2
           h1 == (f.height + 1) \div 2
<1>1. /\ f.width \in Nat /\ f.height \in Nat /\ w \in Nat /\ h \in Nat
      /\ LenY(f) \in Nat /\ LenU(f) \in Nat /\ w * h \in Nat
      /\ LenU(f) >= w * h /\ LenUV(f) - LenU(f) >= w * h
      /\ Even(f) => LenU(f) = w * h
  BY FrameSizes
<1>2. LenUV(f) \in Int
  BY <1>1 DEF LenUV
<1>3. Even(f) <=> w1 = w /\ h1 = h
  BY <1>1, Halves DEF Even
<1>4. /\ Plane(f, "y") = Image(f, 0, f.width, f.height)
      /\ Plane(f, "u") = Image(f, LenY(f), w1, h1)
      /\ Plane(f, "v") = Image(f, LenY(f) + w1 * h1, w1, h1)
  BY DEF Plane, LenY
<1>5. LenY(f) = f.width * f.height
  BY DEF LenY
<1> DEFINE k == w * h
           y == LenY(f)
           u == LenU(f)
           uv == LenUV(f)
<1> HIDE DEF w, h, w1, h1, k, y, u, uv
<1>6. y - 0 >= y /\ (y + u) - y >= k /\ (y + uv) - (y + u) >= k
  <2>1. y \in Nat /\ u \in Nat /\ uv \in Int /\ k \in Nat /\ u >= k /\ uv - u >= k
    BY <1>1, <1>2 DEF y, u, uv, k
  <2>2. QED
    BY <2>1
<1>7. Image(f, LenY(f), w, h) = Plane(f, "u") <=> Even(f)
  BY <1>3, <1>4 DEF Image
<1>8. Image(f, LenY(f) + LenU(f), w, h) = Plane(f, "v") <=> Even(f)
  <2>1. CASE Even(f)
    BY <1>1, <1>3, <1>4, <2>1 DEF Image
  <2>2. CASE ~Even(f)
    BY <1>3, <1>4, <2>2 DEF Image
  <2>3. QED
    BY <2>1, <2>2
<1>9. QED
  BY <1>4, <1>5, <1>6, <1>7, <1>8 DEF w, h, k, y, u, uv

-----------------------------------------------------------------------------
(* Calls on the context *)

LEMMA BindContext ==
    ASSUME NEW g \in Contexts, NEW t \in Textures, NEW n \in Units,
           NEW name \in Planes, NEW h, h = Bind(g, t, n, name)
    PROVE  /\ h \in Contexts
           /\ h.active = n /\ h.own = g.own
           /\ h.bound[n] = t
           /\ \A i \in Units : i # n => h.bound[i] = g.bound[i]
           /\ h.sampler[name] = n
           /\ \A p \in Planes : p # name => h.sampler[p] = g.sampler[p]
  BY DEF Bind, Contexts

LEMMA BindY ==
    ASSUME NEW g \in Contexts, NEW t \in Textures, NEW h, h = Bind(g, t, 0, "y")
    PROVE  /\ h \in Contexts /\ h.own = g.own
           /\ h.bound[0] = t /\ h.sampler["y"] = 0
  BY BindContext, UnitsAndPlanes

LEMMA BindU ==
    ASSUME NEW g \in Contexts, NEW t \in Textures, NEW h, h = Bind(g, t, 1, "u")
    PROVE  /\ h \in Contexts /\ h.own = g.own
           /\ h.bound[1] = t /\ h.sampler["u"] = 1
           /\ h.bound[0] = g.bound[0] /\ h.sampler["y"] = g.sampler["y"]
  BY BindContext, UnitsAndPlanes

LEMMA BindV ==
    ASSUME NEW g \in Contexts, NEW t \in Textures, NEW h, h = Bind(g, t, 2, "v")
    PROVE  /\ h \in Contexts /\ h.own = g.own /\ h.active = 2
           /\ h.bound[2] = t /\ h.sampler["v"] = 2
           /\ h.bound[0] = g.bound[0] /\ h.sampler["y"] = g.sampler["y"]
           /\ h.bound[1] = g.bound[1] /\ h.sampler["u"] = g.sampler["u"]
  BY BindContext, UnitsAndPlanes

LEMMA CreateContext ==
    ASSUME NEW g \in Contexts, NEW t \in Textures
    PROVE  /\ CreateTexture(g, t) \in Contexts
           /\ CreateTexture(g, t).own = g.own
<1>1. Blank \in Images
  BY DEF Blank, Image, Images, NoFrame
<1>2. QED
  BY <1>1 DEF CreateTexture, Contexts

LEMMA FillContext ==
    ASSUME NEW g \in Contexts, g.active = 2, NEW t \in Textures,
           NEW f \in Frames, NEW width \in Nat, NEW height \in Nat,
           NEW from \in Nat, NEW upto, ~(upto - from < width * height),
           NEW h, h = Fill(g, t, width, height, f, from, upto)
    PROVE  /\ h \in Contexts
           /\ h.active = 2 /\ h.own = g.own /\ h.sampler = g.sampler
           /\ h.bound[2] = t
           /\ h.bound[0] = g.bound[0] /\ h.bound[1] = g.bound[1]
           /\ h.content[t] = Image(f, from, width, height)
           /\ \A o \in Textures : o # t => h.content[o] = g.content[o]
<1> DEFINE b == [g EXCEPT !.bound[2] = t]
           image == Image(f, from, width, height)
<1>1. image \in Images
  BY DEF Image, Images
<1>3. h = [b EXCEPT !.content[t] = image]
  BY DEF Fill, Bound
<1>4. /\ b \in Contexts
      /\ b.active = 2 /\ b.own = g.own /\ b.sampler = g.sampler
      /\ b.content = g.content
      /\ b.bound[2] = t
      /\ b.bound[0] = g.bound[0] /\ b.bound[1] = g.bound[1]
  BY UnitsAndPlanes DEF Contexts
<1> HIDE DEF b, image
<1>5. /\ h \in Contexts
      /\ h.active = b.active /\ h.own = b.own /\ h.sampler = b.sampler
      /\ h.bound = b.bound
      /\ h.content[t] = image
      /\ \A o \in Textures : o # t => h.content[o] = b.content[o]
  BY <1>1, <1>3, <1>4 DEF Contexts
<1>6. QED
  BY <1>4, <1>5 DEF image

(***************************************************************************)
(* A new player leaves the canvas's context, whatever state others have    *)
(* left it in, with its textures on the units its program reads and the    *)
(* unit of v active (webgl.js:29-33, 126-131).                             *)
(***************************************************************************)
THEOREM NewPlayerReady ==
    ASSUME NEW g \in Contexts, NEW n \in 1..MaxPlayers
    PROVE  NewPlayer(g, n) \in Contexts /\ Ready(NewPlayer(g, n), n)
<1> DEFINE m == MakeTextures(g, n)
           y == <<n, "y">>
           u == <<n, "u">>
           v == <<n, "v">>
           b0 == Bind(m, y, 0, "y")
           b1 == Bind(b0, u, 1, "u")
           b2 == Bind(b1, v, 2, "v")
<1>1. y \in Textures /\ u \in Textures /\ v \in Textures
  BY DEF Textures, Planes
<1>2. m \in Contexts /\ m.own = n
  <2> DEFINE o == [g EXCEPT !.own = n]
             c1 == CreateTexture(o, y)
             c2 == CreateTexture(c1, u)
             c3 == CreateTexture(c2, v)
  <2>1. o \in Contexts /\ o.own = n
    BY FramesAssumption DEF Contexts
  <2>2. m = c3
    BY DEF MakeTextures
  <2> HIDE DEF o, y, u, v, m
  <2>3. c1 \in Contexts /\ c1.own = n
    BY <1>1, <2>1, CreateContext
  <2> HIDE DEF c1
  <2>4. c2 \in Contexts /\ c2.own = n
    BY <1>1, <2>3, CreateContext
  <2> HIDE DEF c2
  <2>5. c3 \in Contexts /\ c3.own = n
    BY <1>1, <2>4, CreateContext
  <2>6. QED
    BY <2>2, <2>5
<1>3. NewPlayer(g, n) = b2
  BY DEF NewPlayer
<1>4. b0 = Bind(m, y, 0, "y")
  OBVIOUS
<1>5. b1 = Bind(b0, u, 1, "u")
  OBVIOUS
<1>6. b2 = Bind(b1, v, 2, "v")
  OBVIOUS
<1> HIDE DEF m, y, u, v, b0, b1, b2
<1>7. /\ b0 \in Contexts /\ b0.own = n
      /\ b0.bound[0] = y /\ b0.sampler["y"] = 0
  BY <1>1, <1>2, <1>4, BindY
<1>8. /\ b1 \in Contexts /\ b1.own = n
      /\ b1.bound[1] = u /\ b1.sampler["u"] = 1
      /\ b1.bound[0] = y /\ b1.sampler["y"] = 0
  BY <1>1, <1>5, <1>7, BindU
<1>9. /\ b2 \in Contexts /\ b2.own = n /\ b2.active = 2
      /\ b2.bound[2] = v /\ b2.sampler["v"] = 2
      /\ b2.bound[0] = y /\ b2.sampler["y"] = 0
      /\ b2.bound[1] = u /\ b2.sampler["u"] = 1
  BY <1>1, <1>6, <1>8, BindV
<1>10. QED
  BY <1>1, <1>3, <1>9 DEF Ready, y, u, v

LEMMA NotLess ==
    ASSUME NEW a \in Int, NEW b \in Nat, a >= b
    PROVE  ~(a < b)
  OBVIOUS

(* What each fill of render() does to a context whose active unit is v's.  *)
LEMMA FillYContext ==
    ASSUME NEW g \in Contexts, g.active = 2, g.own \in 1..MaxPlayers,
           NEW f \in Frames, NEW h, h = FillY(g, f)
    PROVE  /\ h \in Contexts
           /\ h.active = 2 /\ h.own = g.own /\ h.sampler = g.sampler
           /\ h.bound[2] = <<g.own, "y">>
           /\ h.bound[0] = g.bound[0] /\ h.bound[1] = g.bound[1]
           /\ h.content[<<g.own, "y">>] = Image(f, 0, f.width, f.height)
<1>1. <<g.own, "y">> \in Textures
  BY DEF Textures, Planes
<1>2. /\ f.width \in Nat /\ f.height \in Nat
      /\ ~(LenY(f) - 0 < f.width * f.height) /\ 0 \in Nat
  <2>1. f.width \in Nat /\ f.height \in Nat /\ LenY(f) \in Nat
    BY FrameSizes
  <2>2. LenY(f) = f.width * f.height
    BY DEF LenY
  <2>3. \A l \in Nat : ~(l - 0 < l)
    OBVIOUS
  <2>4. QED
    BY <2>1, <2>2, <2>3
<1>3. h = Fill(g, <<g.own, "y">>, f.width, f.height, f, 0, LenY(f))
  BY DEF FillY
<1> DEFINE t == <<g.own, "y">>
           width == f.width
           height == f.height
           from == 0
           upto == LenY(f)
<1>4. /\ t \in Textures /\ width \in Nat /\ height \in Nat /\ from \in Nat
      /\ ~(upto - from < width * height)
      /\ h = Fill(g, t, width, height, f, from, upto)
  BY <1>1, <1>2, <1>3
<1> HIDE DEF t, width, height, from, upto
<1>5. /\ h \in Contexts
      /\ h.active = 2 /\ h.own = g.own /\ h.sampler = g.sampler
      /\ h.bound[2] = t
      /\ h.bound[0] = g.bound[0] /\ h.bound[1] = g.bound[1]
      /\ h.content[t] = Image(f, from, width, height)
      /\ \A o \in Textures : o # t => h.content[o] = g.content[o]
  BY <1>4, FillContext
<1>6. QED
  BY <1>1, <1>5 DEF t, width, height, from, upto

LEMMA FillUContext ==
    ASSUME NEW g \in Contexts, g.active = 2, g.own \in 1..MaxPlayers,
           NEW f \in Frames, NEW h, h = FillU(g, f)
    PROVE  /\ h \in Contexts
           /\ h.active = 2 /\ h.own = g.own /\ h.sampler = g.sampler
           /\ h.bound[2] = <<g.own, "u">>
           /\ h.bound[0] = g.bound[0] /\ h.bound[1] = g.bound[1]
           /\ h.content[<<g.own, "u">>] =
                 Image(f, LenY(f), f.width \div 2, f.height \div 2)
           /\ h.content[<<g.own, "y">>] = g.content[<<g.own, "y">>]
<1>1. /\ <<g.own, "u">> \in Textures /\ <<g.own, "y">> \in Textures
      /\ <<g.own, "u">> # <<g.own, "y">>
  BY DEF Textures, Planes
<1>2. /\ f.width \div 2 \in Nat /\ f.height \div 2 \in Nat
      /\ LenY(f) \in Nat /\ LenU(f) \in Nat
      /\ (f.width \div 2) * (f.height \div 2) \in Nat
  BY FrameSizes
<1>3. (LenY(f) + LenU(f)) - LenY(f) >= (f.width \div 2) * (f.height \div 2)
  BY SlicesArePlanes
<1>4. ~((LenY(f) + LenU(f)) - LenY(f) < (f.width \div 2) * (f.height \div 2))
  <2>1. (LenY(f) + LenU(f)) - LenY(f) \in Int
    <3>1. \A y, u \in Nat : (y + u) - y \in Int
      OBVIOUS
    <3>2. QED
      BY <1>2, <3>1
  <2>2. QED
    BY <1>2, <1>3, <2>1, NotLess
<1>5. h = Fill(g, <<g.own, "u">>, f.width \div 2, f.height \div 2, f, LenY(f),
               LenY(f) + LenU(f))
  BY DEF FillU
<1> DEFINE t == <<g.own, "u">>
           width == f.width \div 2
           height == f.height \div 2
           from == LenY(f)
           upto == LenY(f) + LenU(f)
<1>6. /\ t \in Textures /\ width \in Nat /\ height \in Nat /\ from \in Nat
      /\ ~(upto - from < width * height)
      /\ h = Fill(g, t, width, height, f, from, upto)
  BY <1>1, <1>2, <1>4, <1>5
<1> HIDE DEF t, width, height, from, upto
<1>7. /\ h \in Contexts
      /\ h.active = 2 /\ h.own = g.own /\ h.sampler = g.sampler
      /\ h.bound[2] = t
      /\ h.bound[0] = g.bound[0] /\ h.bound[1] = g.bound[1]
      /\ h.content[t] = Image(f, from, width, height)
      /\ \A o \in Textures : o # t => h.content[o] = g.content[o]
  BY <1>6, FillContext
<1>8. QED
  BY <1>1, <1>7 DEF t, width, height, from, upto

LEMMA FillVContext ==
    ASSUME NEW g \in Contexts, g.active = 2, g.own \in 1..MaxPlayers,
           NEW f \in Frames, NEW h, h = FillV(g, f)
    PROVE  /\ h \in Contexts
           /\ h.active = 2 /\ h.own = g.own /\ h.sampler = g.sampler
           /\ h.bound[2] = <<g.own, "v">>
           /\ h.bound[0] = g.bound[0] /\ h.bound[1] = g.bound[1]
           /\ h.content[<<g.own, "v">>] =
                 Image(f, LenY(f) + LenU(f), f.width \div 2, f.height \div 2)
           /\ h.content[<<g.own, "y">>] = g.content[<<g.own, "y">>]
           /\ h.content[<<g.own, "u">>] = g.content[<<g.own, "u">>]
<1>1. /\ <<g.own, "v">> \in Textures /\ <<g.own, "u">> \in Textures
      /\ <<g.own, "y">> \in Textures
      /\ <<g.own, "v">> # <<g.own, "y">> /\ <<g.own, "v">> # <<g.own, "u">>
  BY DEF Textures, Planes
<1>2. /\ f.width \div 2 \in Nat /\ f.height \div 2 \in Nat
      /\ LenY(f) \in Nat /\ LenU(f) \in Nat
      /\ (f.width \div 2) * (f.height \div 2) \in Nat
  BY FrameSizes
<1>3. (LenY(f) + LenUV(f)) - (LenY(f) + LenU(f)) >= (f.width \div 2) * (f.height \div 2)
  BY SlicesArePlanes
<1>4. /\ LenY(f) + LenU(f) \in Nat
      /\ ~((LenY(f) + LenUV(f)) - (LenY(f) + LenU(f)) < (f.width \div 2) * (f.height \div 2))
  <2>1. /\ LenY(f) + LenU(f) \in Nat
        /\ (LenY(f) + LenUV(f)) - (LenY(f) + LenU(f)) \in Int
    <3>1. \A y, u \in Nat : y + u \in Nat /\ (y + y \div 2) - (y + u) \in Int
      OBVIOUS
    <3>2. QED
      BY <1>2, <3>1 DEF LenUV
  <2>2. QED
    BY <1>2, <1>3, <2>1, NotLess
<1>5. h = Fill(g, <<g.own, "v">>, f.width \div 2, f.height \div 2, f,
               LenY(f) + LenU(f), LenY(f) + LenUV(f))
  BY DEF FillV
<1> DEFINE t == <<g.own, "v">>
           width == f.width \div 2
           height == f.height \div 2
           from == LenY(f) + LenU(f)
           upto == LenY(f) + LenUV(f)
<1>6. /\ t \in Textures /\ width \in Nat /\ height \in Nat /\ from \in Nat
      /\ ~(upto - from < width * height)
      /\ h = Fill(g, t, width, height, f, from, upto)
  BY <1>1, <1>2, <1>4, <1>5
<1> HIDE DEF t, width, height, from, upto
<1>7. /\ h \in Contexts
      /\ h.active = 2 /\ h.own = g.own /\ h.sampler = g.sampler
      /\ h.bound[2] = t
      /\ h.bound[0] = g.bound[0] /\ h.bound[1] = g.bound[1]
      /\ h.content[t] = Image(f, from, width, height)
      /\ \A o \in Textures : o # t => h.content[o] = g.content[o]
  BY <1>6, FillContext, SMTT(30)
<1>8. QED
  BY <1>1, <1>7 DEF t, width, height, from, upto

(***************************************************************************)
(* On such a context render() draws the frame, of whatever size: when      *)
(* drawArrays is called each sampler reads bytes of this very frame, that  *)
(* of y the whole plane, and those of u and v theirs if and only if the    *)
(* size is even; and the context is ready for the next one                 *)
(* (webgl.js:134-160).                                                     *)
(***************************************************************************)
THEOREM RenderDraws ==
    ASSUME NEW g \in Contexts, NEW n \in 1..MaxPlayers, Ready(g, n),
           NEW f \in Frames
    PROVE  /\ Render(g, f) \in Contexts
           /\ Ready(Render(g, f), n)
           /\ \A p \in Planes : Sampled(Render(g, f))[p].frame = f
           /\ Sampled(Render(g, f))["y"] = Plane(f, "y")
           /\ \A p \in {"u", "v"} : Sampled(Render(g, f))[p] = Plane(f, p) <=> Even(f)
<1> DEFINE w == f.width \div 2
           h == f.height \div 2
           iy == Image(f, 0, f.width, f.height)
           iu == Image(f, LenY(f), w, h)
           iv == Image(f, LenY(f) + LenU(f), w, h)
           y == FillY(g, f)
           u == FillU(y, f)
           v == FillV(u, f)
<1>1. g.active = 2 /\ g.own = n
  BY DEF Ready
<1>2. Render(g, f) = v
  BY DEF Render, FillPlanes
<1>3. /\ iy = Plane(f, "y") /\ iy.frame = f /\ iu.frame = f /\ iv.frame = f
      /\ iu = Plane(f, "u") <=> Even(f)
      /\ iv = Plane(f, "v") <=> Even(f)
  BY SlicesArePlanes DEF Image
<1>4. /\ y \in Contexts /\ y.active = 2 /\ y.own = n /\ y.sampler = g.sampler
      /\ y.bound[0] = g.bound[0] /\ y.bound[1] = g.bound[1]
      /\ y.content[<<n, "y">>] = iy
  BY <1>1, FillYContext
<1>5. /\ u \in Contexts /\ u.active = 2 /\ u.own = n /\ u.sampler = g.sampler
      /\ u.bound[0] = g.bound[0] /\ u.bound[1] = g.bound[1]
      /\ u.content[<<n, "y">>] = iy /\ u.content[<<n, "u">>] = iu
  <2> HIDE DEF y
  <2>1. QED
    BY <1>4, FillUContext
<1>6. /\ v \in Contexts /\ v.active = 2 /\ v.own = n /\ v.sampler = g.sampler
      /\ v.bound[0] = g.bound[0] /\ v.bound[1] = g.bound[1]
      /\ v.bound[2] = <<n, "v">>
      /\ v.content[<<n, "y">>] = iy /\ v.content[<<n, "u">>] = iu
      /\ v.content[<<n, "v">>] = iv
  <2> HIDE DEF u
  <2>1. QED
    BY <1>5, FillVContext
<1> HIDE DEF w, h, iy, iu, iv, y, u, v
<1>7. Ready(v, n)
  BY <1>6 DEF Ready, Textures, Planes
<1>8. /\ Sampled(v)["y"] = iy /\ Sampled(v)["u"] = iu /\ Sampled(v)["v"] = iv
  BY <1>6, <1>7 DEF Ready, Sampled, Planes
<1>9. \A p \in Planes : Sampled(v)[p].frame = f
  BY <1>3, <1>8 DEF Planes
<1>10. QED
  BY <1>2, <1>3, <1>6, <1>7, <1>8, <1>9

(* Where render() has thrown, the context is as ready as before: the next  *)
(* render() fills all three textures again.                                *)
LEMMA RenderThrownReady ==
    ASSUME NEW g \in Contexts, NEW n \in 1..MaxPlayers, Ready(g, n),
           NEW f \in Frames, NEW h \in RenderThrown(g, f)
    PROVE  h \in Contexts /\ Ready(h, n)
<1> DEFINE y == FillY(g, f)
           u == FillU(y, f)
<1>1. g.active = 2 /\ g.own = n
  BY DEF Ready
<1>2. y \in Contexts /\ Ready(y, n)
  <2>1. QED
    BY <1>1, FillYContext DEF Ready, Textures, Planes
<1>3. u \in Contexts /\ Ready(u, n)
  <2> HIDE DEF y
  <2>1. y.active = 2 /\ y.own = n
    BY <1>2 DEF Ready
  <2>2. /\ u \in Contexts /\ u.active = 2 /\ u.own = n /\ u.sampler = y.sampler
        /\ u.bound[2] = <<n, "u">>
        /\ u.bound[0] = y.bound[0] /\ u.bound[1] = y.bound[1]
    <3>1. u = FillU(y, f)
      OBVIOUS
    <3> HIDE DEF u
    <3>2. QED
      BY <1>2, <2>1, <3>1, FillUContext
  <2> HIDE DEF u
  <2>3. QED
    BY <1>2, <2>2 DEF Ready, Textures, Planes
<1>4. ASSUME NEW c \in Contexts, Ready(c, n), NEW p \in Planes
      PROVE  Bound(c, <<n, p>>) \in Contexts /\ Ready(Bound(c, <<n, p>>), n)
  <2>1. <<n, p>> \in Textures /\ c.active = 2
    BY <1>4 DEF Textures, Ready
  <2>2. QED
    BY <1>4, <2>1, UnitsAndPlanes DEF Bound, Contexts, Ready
<1>5. /\ RenderThrown(g, f) = {g, Bound(g, <<n, "y">>), Bound(y, <<n, "u">>),
                               Bound(u, <<n, "v">>)}
      /\ "y" \in Planes /\ "u" \in Planes /\ "v" \in Planes
  BY <1>1 DEF RenderThrown, Planes
<1> HIDE DEF y, u
<1>6. QED
  BY <1>2, <1>3, <1>4, <1>5

-----------------------------------------------------------------------------
(* The page *)

LEMMA NewContextTyped == NewContext \in Contexts
<1>1. Blank \in Images
  BY DEF Blank, Image, Images, NoFrame
<1>2. 0 \in 0..MaxPlayers
  BY FramesAssumption
<1>3. QED
  BY <1>1, <1>2, UnitsAndPlanes DEF NewContext, Contexts

LEMMA PageInit == Init => PageInv
<1> SUFFICES ASSUME Init PROVE PageInv
  OBVIOUS
<1>1. MaxPlayers \in Nat
  BY FramesAssumption
<1>2. drawn \in [frame : Frames \union {NoFrame}, sampled : [Planes -> Images]]
  <2>1. Blank \in Images
    BY DEF Blank, Image, Images, NoFrame
  <2>2. QED
    BY <2>1 DEF Init, Nothing
<1>3. TypeOK
  <2>1. 0 \in 0..MaxPlayers /\ 0 \in 0..opens
    BY <1>1 DEF Init
  <2>2. player \in [kind : {"none", "webgl", "unsupported", "opengl"}, n : 0..opens]
    BY <2>1 DEF Init
  <2>3. heap = {} /\ failed \subseteq 1..opens /\ thrown \in [Opens -> 0..MaxThrows]
    BY ThrowsAssumption DEF Init
  <2>4. socket \in [Opens -> {"none", "connecting", "open", "closing", "closed"}]
    BY DEF Init
  <2>5. stream \in BOOLEAN /\ caption \in {"Open", "Close"} /\ gl \in Contexts
    BY NewContextTyped DEF Init
  <2>6. QED
    BY <1>2, <2>1, <2>2, <2>3, <2>4, <2>5 DEF Init, TypeOK
<1>4. OpenClient /\ SocketsOfClient /\ LeftOver /\ CaptionTells
  BY DEF Init, OpenClient, SocketsOfClient, LeftOver, CaptionTells, isOpen, Live
<1>5. OnlyThrowsLeak /\ DrawsTheFrame
  BY DEF Init, OnlyThrowsLeak, DrawsTheFrame
<1>6. QED
  BY <1>3, <1>4, <1>5 DEF PageInv

(* What drawArrays reads is made of images. *)
LEMMA SampledTyped ==
    ASSUME NEW g \in Contexts, NEW n \in 1..MaxPlayers, Ready(g, n)
    PROVE  Sampled(g) \in [Planes -> Images]
<1>1. \A p \in Planes : g.bound[g.sampler[p]] \in Textures
  BY DEF Ready, Planes, Textures
<1>2. QED
  BY <1>1 DEF Sampled, Contexts

-----------------------------------------------------------------------------
(* The steps *)

(* What an attempt to open with a decoder of its own does, whatever player *)
(* it has made.                                                            *)
LEMMA OpenStep ==
    ASSUME PageInv, ~isOpen, opens < MaxPlayers, opens' = opens + 1,
           MakeDecoder, OpenSocket, stream' = stream, drawn' = drawn,
           thrown' = thrown,
           gl' \in Contexts,
           player' \in [kind : {"webgl", "unsupported", "opengl"}, n : {opens'}],
           player'.kind = "webgl" => Ready(gl', opens'),
           \/ /\ heap' = heap \union {Object("Decoder", opens')}
              /\ gl_player' = gl_player
              /\ player'.kind # "opengl"
           \/ /\ heap' = heap \union {Object("Decoder", opens'),
                                      Object("OpenGLPlayer", opens')}
              /\ gl_player' = opens'
    PROVE  PageInv'
<1> USE FramesAssumption DEF PageInv, isOpen, Object
<1>1. opens \in Nat /\ opens' \in Opens /\ ws = 0
  BY DEF TypeOK, Opens
<1>2. ws' = 0 \/ ws' = opens'
  BY <1>1 DEF OpenSocket
<1>3. TypeOK'
  <2>1. /\ opens' \in 0..MaxPlayers /\ ws' \in 0..opens' /\ decoder' \in 0..opens'
        /\ gl_player' \in 0..opens' /\ stream' \in BOOLEAN
    BY <1>1, <1>2 DEF TypeOK, MakeDecoder, Opens
  <2>2. player' \in [kind : {"none", "webgl", "unsupported", "opengl"}, n : 0..opens']
    BY <1>1
  <2>3. socket' \in [Opens -> {"none", "connecting", "open", "closing", "closed"}]
    BY <1>1 DEF TypeOK, OpenSocket
  <2>4. failed' \subseteq 1..opens' /\ caption' \in {"Open", "Close"}
    <3>1. caption' \in {"Open", "Close"}
      BY DEF TypeOK, OpenSocket, updateStreamStatus
    <3>2. failed' \subseteq failed \union {opens'}
      BY DEF OpenSocket
    <3>3. failed \subseteq 1..opens' /\ opens' \in 1..opens'
      BY <1>1 DEF TypeOK, Opens
    <3>4. QED
      BY <3>1, <3>2, <3>3
  <2>5. heap' \subseteq ({"Decoder", "OpenGLPlayer"} \X (1..opens')) \union
                        ({"argument"} \X Opens \X (1..MaxThrows))
    <3>1. 1..opens \subseteq 1..opens' /\ opens' \in 1..opens'
      BY <1>1 DEF Opens
    <3>2. heap \subseteq ({"Decoder", "OpenGLPlayer"} \X (1..opens')) \union
                         ({"argument"} \X Opens \X (1..MaxThrows))
      BY <3>1 DEF TypeOK
    <3>3. /\ <<"Decoder", opens'>> \in {"Decoder", "OpenGLPlayer"} \X (1..opens')
          /\ <<"OpenGLPlayer", opens'>> \in {"Decoder", "OpenGLPlayer"} \X (1..opens')
      BY <3>1
    <3>4. QED
      BY <3>2, <3>3
  <2>6. QED
    BY <2>1, <2>2, <2>3, <2>4, <2>5 DEF TypeOK
<1>4. OpenClient'
  BY <1>1, <1>2 DEF OpenClient, MakeDecoder
<1>5. SocketsOfClient'
  BY <1>1 DEF SocketsOfClient, OpenSocket, Live, Opens, TypeOK
<1>6. LeftOver'
  BY <1>1 DEF LeftOver, OpenSocket, MakeDecoder
<1>7. OnlyThrowsLeak'
  BY <1>1 DEF OnlyThrowsLeak, LeftOver, OpenSocket, MakeDecoder, TypeOK
<1>8. CaptionTells'
  BY <1>1 DEF CaptionTells, OpenSocket, updateStreamStatus
<1>9. DrawsTheFrame'
  BY DEF DrawsTheFrame
<1>10. QED
  BY <1>3, <1>4, <1>5, <1>6, <1>7, <1>8, <1>9

LEMMA OpenWebGLStep == ASSUME PageInv, OpenWebGL PROVE PageInv'
<1>1. opens' \in 1..MaxPlayers
  BY FramesAssumption DEF OpenWebGL, PageInv, TypeOK
<1>2. gl \in Contexts
  BY DEF PageInv, TypeOK
<1>3. NewPlayer(gl, opens') \in Contexts /\ Ready(NewPlayer(gl, opens'), opens')
  BY <1>1, <1>2, NewPlayerReady
<1>4. /\ gl' \in Contexts
      /\ player' \in [kind : {"webgl", "unsupported", "opengl"}, n : {opens'}]
      /\ player'.kind # "opengl"
      /\ player'.kind = "webgl" => Ready(gl', opens')
  BY <1>2, <1>3 DEF OpenWebGL, MakeWebGL
<1>5. QED
  BY <1>4, OpenStep DEF OpenWebGL

LEMMA OpenOpenGLStep == ASSUME PageInv, OpenOpenGL PROVE PageInv'
<1>1. /\ gl' \in Contexts /\ drawn' = drawn
      /\ player' \in [kind : {"webgl", "unsupported", "opengl"}, n : {opens'}]
      /\ player'.kind # "webgl"
  BY DEF OpenOpenGL, PageInv, TypeOK, canvas
<1>2. QED
  BY <1>1, OpenStep DEF OpenOpenGL

LEMMA OpenNoStreamStep == ASSUME PageInv, OpenNoStream PROVE PageInv'
<1> USE FramesAssumption DEF PageInv, isOpen, Object, OpenNoStream, client, canvas
<1>1. opens \in Nat /\ opens' \in Opens /\ ws = 0
  BY DEF TypeOK, Opens
<1>2. TypeOK'
  <2>1. player' \in [kind : {"none", "webgl", "unsupported", "opengl"}, n : 0..opens']
    BY <1>1 DEF TypeOK
  <2>2. QED
    BY <1>1, <2>1 DEF TypeOK, Opens
<1>3. OpenClient' /\ SocketsOfClient' /\ LeftOver'
  BY <1>1 DEF OpenClient, SocketsOfClient, LeftOver, Live, TypeOK, Opens
<1>4. OnlyThrowsLeak'
  <2> SUFFICES ASSUME NEW o \in heap'
               PROVE  \/ o = <<"Decoder", decoder>>
                      \/ \E m \in failed' : o \in {<<"Decoder", m>>, <<"OpenGLPlayer", m>>}
                      \/ \E m \in Opens : \E k \in 1..thrown[m] : o = Argument(m, k)
    BY DEF OnlyThrowsLeak, Argument
  <2>1. CASE o = <<"OpenGLPlayer", opens'>>
    BY <2>1
  <2>2. CASE o = <<"OpenGLPlayer", gl_player>> /\ o \in heap
    <3>1. gl_player \in 1..opens
      BY <2>2 DEF TypeOK
    <3>2. gl_player \in failed
      BY <1>1, <3>1 DEF LeftOver
    <3>3. QED
      BY <2>2, <3>2
  <2>3. CASE o \in heap /\ o # <<"OpenGLPlayer", gl_player>>
    BY <2>3 DEF OnlyThrowsLeak
  <2>4. QED
    BY <2>1, <2>2, <2>3
<1>5. CaptionTells' /\ DrawsTheFrame'
  BY DEF CaptionTells, DrawsTheFrame
<1>6. QED
  BY <1>2, <1>3, <1>4, <1>5

LEMMA CloseStep == ASSUME PageInv, Close PROVE PageInv'
<1> USE DEF PageInv, isOpen, Object, Close, canvas, history
<1>1. opens \in Nat /\ ws \in 1..opens /\ ws' = 0
  BY DEF TypeOK
<1>2. TypeOK'
  <2>1. socket' \in [Opens -> {"none", "connecting", "open", "closing", "closed"}]
    BY DEF TypeOK, SocketClosed
  <2>2. caption' = "Open"
    BY <1>1 DEF updateStreamStatus
  <2>3. QED
    BY <1>1, <2>1, <2>2 DEF TypeOK
<1>3. SocketsOfClient'
  <2> SUFFICES ASSUME NEW n \in Opens
               PROVE  /\ ~Live(n)'
                      /\ (n > opens => socket[n] = "none")'
    BY DEF SocketsOfClient
  <2>1. CASE n = ws
    BY <1>1, <2>1 DEF SocketsOfClient, SocketClosed, Live, TypeOK
  <2>2. CASE n # ws
    BY <1>1, <2>2 DEF SocketsOfClient, SocketClosed, Live, TypeOK
  <2>3. QED
    BY <2>1, <2>2
<1>4. OpenClient' /\ LeftOver'
  BY <1>1 DEF OpenClient, LeftOver
<1>5. OnlyThrowsLeak'
  BY <1>1 DEF OnlyThrowsLeak, Deleted
<1>6. CaptionTells' /\ DrawsTheFrame'
  BY <1>1 DEF CaptionTells, DrawsTheFrame, updateStreamStatus
<1>7. QED
  BY <1>2, <1>3, <1>4, <1>5, <1>6

(* Buffer and handles are a message's own, and it leaves the heap as it    *)
(* was, but for the handle of a callback that throws.                      *)
LEMMA HeapRestored ==
    ASSUME PageInv, NEW n \in Opens, onmessage(n)
    PROVE  \/ heap' = heap /\ thrown' = thrown
           \/ /\ heap' = heap \union {Argument(n, thrown[n] + 1)}
              /\ thrown[n] < MaxThrows
              /\ thrown' = [thrown EXCEPT ![n] = @ + 1]
<1> DEFINE a == Argument(n, thrown[n] + 1)
           live == heap \union {Buffer(n)}
<1>1. \A o \in heap : o[1] \in {"Decoder", "OpenGLPlayer", "argument"}
  BY DEF PageInv, TypeOK
<1>2. Buffer(n)[1] = "buffer" /\ Result(n)[1] = "result" /\ a[1] = "argument"
  BY DEF Buffer, Result, Argument, Object
<1>3. ASSUME NEW k \in Opens, NEW m \in 1..thrown[k], a = Argument(k, m)
      PROVE  FALSE
  <2>1. k = n /\ m = thrown[n] + 1 /\ thrown[n] \in Nat
    BY <1>3, ThrowsAssumption DEF Argument, PageInv, TypeOK
  <2>2. QED
    BY <1>3, <2>1
<1>4. a \notin heap
  <2>1. a # Object("Decoder", decoder) /\ a # Object("OpenGLPlayer", gl_player)
    BY <1>2 DEF Object
  <2>2. \A m : a \notin {Object("Decoder", m), Object("OpenGLPlayer", m)}
    BY <1>2 DEF Object
  <2>3. QED
    BY <1>3, <2>1, <2>2 DEF PageInv, OnlyThrowsLeak
<1>5. /\ Buffer(n) \notin heap /\ Result(n) \notin heap
      /\ Buffer(n) # a /\ Buffer(n) # Result(n) /\ a # Result(n)
  BY <1>1, <1>2
<1> HIDE DEF a
<1>6. CASE DecodesFrame(n, live)
  <2>1. heap' = FreeBuffer((((live \union {a}) \ {a}) \union {Result(n)}) \ {Result(n)}, n)
    BY <1>6, Zenon DEF DecodesFrame, a
  <2>2. thrown' = thrown
    BY <1>6, Zenon DEF DecodesFrame
  <2>3. heap' = heap
    BY <1>4, <1>5, <2>1 DEF FreeBuffer
  <2>4. QED
    BY <2>2, <2>3
<1>7. CASE CallbackThrows(n, live)
  <2>1. heap' = (live \union {a}) \ {Buffer(n)}
    BY <1>7 DEF CallbackThrows, FreeBuffer, a
  <2>2. heap' = heap \union {a}
    BY <1>5, <2>1
  <2>3. QED
    BY <1>7, <2>2 DEF CallbackThrows, a
<1>8. CASE DecodesNothing(n, live) \/ Throws(n, live)
  BY <1>5, <1>8 DEF DecodesNothing, Throws, FreeBuffer
<1>9. QED
  BY <1>6, <1>7, <1>8 DEF onmessage

LEMMA NativeTyped ==
    ASSUME gl \in Contexts, NativeCalls
    PROVE  gl' \in Contexts
<1>1. PICK u \in Units :
         gl' = [gl EXCEPT !.active = u,
                          !.bound = [i \in Units |-> NoTexture],
                          !.sampler = [p \in Planes |-> u]]
  BY DEF NativeCalls
<1>2. QED
  BY <1>1 DEF Contexts

(* A frame is drawn by the client's own player, whose context is ready. *)
LEMMA DrawStep ==
    ASSUME PageInv, NEW n \in Opens, socket[n] = "open", NEW f \in Frames,
           ondecode(f)
    PROVE  /\ gl' \in Contexts
           /\ drawn' \in [frame : Frames \union {NoFrame}, sampled : [Planes -> Images]]
           /\ player.kind = "webgl" => Ready(gl', ws)
           /\ DrawsTheFrame'
<1>1. /\ isOpen /\ ws = n /\ gl \in Contexts /\ n \in 1..MaxPlayers
      /\ player.kind = "webgl" => Ready(gl, n)
      /\ drawn \in [frame : Frames \union {NoFrame}, sampled : [Planes -> Images]]
  BY DEF PageInv, SocketsOfClient, Live, OpenClient, isOpen, TypeOK, Opens
<1>2. CASE player.kind = "webgl"
  <2>1. /\ gl' = Render(gl, f)
        /\ drawn' = [frame |-> f, sampled |-> Sampled(gl')]
    BY <1>2 DEF ondecode
  <2>2. /\ gl' \in Contexts /\ Ready(gl', n)
        /\ \A p \in Planes : Sampled(gl')[p].frame = f
        /\ Sampled(gl')["y"] = Plane(f, "y")
        /\ \A p \in {"u", "v"} : Sampled(gl')[p] = Plane(f, p) <=> Even(f)
    BY <1>1, <1>2, <2>1, RenderDraws
  <2>3. Sampled(gl') \in [Planes -> Images]
    BY <1>1, <2>2, SampledTyped
  <2>4. QED
    BY <1>1, <2>1, <2>2, <2>3 DEF DrawsTheFrame
<1>3. CASE player.kind = "opengl"
  <2>2. gl' \in Contexts
    BY <1>1, <1>3, NativeTyped DEF ondecode
  <2>3. drawn' = drawn
    BY <1>3 DEF ondecode
  <2>4. QED
    BY <1>1, <1>3, <2>2, <2>3 DEF DrawsTheFrame, PageInv
<1>4. CASE player.kind = "unsupported"
  BY <1>1, <1>4 DEF ondecode, canvas, DrawsTheFrame, PageInv
<1>5. QED
  BY <1>2, <1>3, <1>4 DEF ondecode

(* Where it throws, the context stays ready, and nothing is drawn. *)
LEMMA ThrowStep ==
    ASSUME PageInv, NEW n \in Opens, socket[n] = "open", NEW f \in Frames,
           ondecodeThrows(f)
    PROVE  /\ gl' \in Contexts /\ drawn' = drawn
           /\ player.kind = "webgl" => Ready(gl', ws)
<1>1. /\ isOpen /\ ws = n /\ gl \in Contexts /\ n \in 1..MaxPlayers
      /\ player.kind = "webgl" => Ready(gl, n)
  BY DEF PageInv, SocketsOfClient, Live, OpenClient, isOpen, TypeOK, Opens
<1>2. CASE player.kind = "webgl"
  <2>1. gl' \in RenderThrown(gl, f)
    BY <1>2 DEF ondecodeThrows
  <2>2. gl' \in Contexts /\ Ready(gl', n)
    BY <1>1, <1>2, <2>1, RenderThrownReady
  <2>3. QED
    BY <1>1, <2>2 DEF ondecodeThrows
<1>3. CASE player.kind # "webgl"
  BY <1>1, <1>3, NativeTyped DEF ondecodeThrows
<1>4. QED
  BY <1>2, <1>3

LEMMA MessageStep ==
    ASSUME PageInv, NEW n \in Opens, onmessage(n) PROVE PageInv'
<1>1. \/ heap' = heap /\ thrown' = thrown
      \/ /\ heap' = heap \union {Argument(n, thrown[n] + 1)}
         /\ thrown[n] < MaxThrows
         /\ thrown' = [thrown EXCEPT ![n] = @ + 1]
  BY HeapRestored
<1>2. /\ UNCHANGED <<page, client, opens, socket, failed>>
      /\ socket[n] = "open"
  BY DEF onmessage
<1>3. /\ gl' \in Contexts
      /\ drawn' \in [frame : Frames \union {NoFrame}, sampled : [Planes -> Images]]
      /\ player.kind = "webgl" /\ isOpen => Ready(gl', ws)
      /\ DrawsTheFrame'
  <2>1. CASE \E f \in Frames : ondecode(f)
    BY <1>2, <2>1, DrawStep
  <2>2. CASE \E f \in Frames : ondecodeThrows(f)
    BY <1>2, <2>2, ThrowStep DEF PageInv, TypeOK, DrawsTheFrame
  <2>3. CASE UNCHANGED canvas
    BY <2>3 DEF PageInv, TypeOK, OpenClient, DrawsTheFrame, canvas
  <2>4. QED
    BY <2>1, <2>2, <2>3 DEF onmessage, DecodesFrame, CallbackThrows, DecodesNothing, Throws
<1>4. thrown' \in [Opens -> 0..MaxThrows] /\ \A k \in Opens : thrown'[k] >= thrown[k]
  BY <1>1, ThrowsAssumption DEF PageInv, TypeOK
<1>5. heap' \subseteq heap \union {Argument(n, thrown'[n])} /\ heap \subseteq heap'
      /\ (heap' # heap => thrown'[n] \in 1..MaxThrows)
  BY <1>1, ThrowsAssumption DEF PageInv, TypeOK
<1>6. TypeOK'
  <2>1. heap' # heap => Argument(n, thrown'[n]) \in {"argument"} \X Opens \X (1..MaxThrows)
    BY <1>5 DEF Argument
  <2>2. heap' \subseteq ({"Decoder", "OpenGLPlayer"} \X (1..opens)) \union
                        ({"argument"} \X Opens \X (1..MaxThrows))
    BY <1>5, <2>1 DEF PageInv, TypeOK
  <2>3. QED
    BY <1>2, <1>3, <1>4, <2>2 DEF PageInv, TypeOK, page, client
<1>7. OpenClient' /\ SocketsOfClient' /\ LeftOver' /\ CaptionTells'
  BY <1>2, <1>3, <1>5 DEF PageInv, OpenClient, SocketsOfClient, LeftOver,
     CaptionTells, isOpen, Live, page, client
<1>8. OnlyThrowsLeak'
  <2> SUFFICES ASSUME NEW o \in heap'
               PROVE  \/ o = Object("Decoder", decoder)
                      \/ o = Object("OpenGLPlayer", gl_player)
                      \/ \E m \in failed : o \in {Object("Decoder", m),
                                                    Object("OpenGLPlayer", m)}
                      \/ \E m \in Opens : \E k \in 1..thrown'[m] : o = Argument(m, k)
    BY <1>2 DEF OnlyThrowsLeak, page, client, Argument, Object
  <2>1. CASE o \in heap
    <3>1. \A m \in Opens : 1..thrown[m] \subseteq 1..thrown'[m]
      BY <1>4, ThrowsAssumption DEF PageInv, TypeOK
    <3>2. QED
      BY <2>1, <3>1 DEF PageInv, OnlyThrowsLeak
  <2>2. CASE o \notin heap
    <3>1. o = Argument(n, thrown'[n]) /\ thrown'[n] \in 1..MaxThrows
      BY <1>5, <2>2
    <3>2. thrown'[n] \in 1..thrown'[n]
      BY <3>1
    <3>3. QED
      BY <3>1, <3>2
  <2>3. QED
    BY <2>1, <2>2
<1>9. QED
  BY <1>3, <1>6, <1>7, <1>8 DEF PageInv

LEMMA SocketStep ==
    ASSUME PageInv, NEW n \in Opens, onopen(n) \/ onclose(n) PROVE PageInv'
<1> USE DEF PageInv, page, client, canvas, history
<1>1. /\ stream' = stream /\ caption' = caption /\ opens' = opens /\ ws' = ws
      /\ decoder' = decoder /\ gl_player' = gl_player /\ player' = player
      /\ heap' = heap /\ failed' = failed /\ thrown' = thrown /\ gl' = gl /\ drawn' = drawn
  BY DEF onopen, onclose, KeepsClient
<1>2. \E to \in {"open", "closed"} : socket' = [socket EXCEPT ![n] = to]
  BY DEF onopen, onclose
<1>3. Live(n) \/ (socket[n] = "closing" /\ socket'[n] = "closed")
  BY DEF onopen, onclose, Live, TypeOK
<1>4. TypeOK'
  BY <1>1, <1>2 DEF TypeOK
<1>5. SocketsOfClient'
  BY <1>1, <1>2, <1>3 DEF SocketsOfClient, Live, TypeOK
<1>6. OpenClient' /\ LeftOver' /\ OnlyThrowsLeak' /\ CaptionTells' /\ DrawsTheFrame'
  BY <1>1 DEF OpenClient, LeftOver, OnlyThrowsLeak, CaptionTells,
     DrawsTheFrame, isOpen
<1>7. QED
  BY <1>4, <1>5, <1>6

LEMMA QuietStep == ASSUME PageInv, Refresh \/ UNCHANGED vars PROVE PageInv'
<1>1. /\ stream' \in BOOLEAN /\ caption' = caption /\ opens' = opens /\ ws' = ws
      /\ decoder' = decoder /\ gl_player' = gl_player /\ player' = player
      /\ socket' = socket /\ heap' = heap /\ failed' = failed /\ thrown' = thrown
      /\ gl' = gl /\ drawn' = drawn
  BY DEF PageInv, TypeOK, Refresh, vars, page, client, canvas, history
<1>2. TypeOK'
  BY <1>1 DEF PageInv, TypeOK
<1>3. OpenClient' /\ SocketsOfClient' /\ LeftOver' /\ CaptionTells' /\ DrawsTheFrame'
  BY <1>1 DEF PageInv, OpenClient, SocketsOfClient, LeftOver, CaptionTells,
     DrawsTheFrame, isOpen, Live
<1>4. OnlyThrowsLeak'
  BY <1>1 DEF PageInv, OnlyThrowsLeak, Argument
<1>5. QED
  BY <1>2, <1>3, <1>4 DEF PageInv

(***************************************************************************)
(* The inductive invariant: one case per event of the page.                *)
(***************************************************************************)
THEOREM PageInvariant == Spec => []PageInv
<1>1. PageInv /\ [Next]_vars => PageInv'
  BY QuietStep, OpenWebGLStep, OpenOpenGLStep, OpenNoStreamStep, CloseStep,
     MessageStep, SocketStep DEF Next
<1>2. QED
  BY PageInit, <1>1, PTL DEF Spec

(***************************************************************************)
(* Every variable of the page keeps its type.                              *)
(***************************************************************************)
THEOREM PageTypes == Spec => []TypeOK
<1>1. PageInv => TypeOK
  BY DEF PageInv
<1>2. QED
  BY <1>1, PageInvariant, PTL

(***************************************************************************)
(* A socket that may deliver messages meets its own live decoder and       *)
(* player, however attempts fail and sockets end.                          *)
(***************************************************************************)
THEOREM MessagesMeetTheirDecoder == Spec => []OwnDecoder
<1>1. PageInv => OwnDecoder
  BY DEF PageInv, OwnDecoder, OpenClient, SocketsOfClient, isOpen, Opens
<1>2. QED
  BY <1>1, PageInvariant, PTL

(***************************************************************************)
(* Of the wasm objects that nothing can delete, each is of an attempt to   *)
(* open that threw, or the one handle of a callback that threw.            *)
(***************************************************************************)
THEOREM OnlyThrowsLeave == Spec => []OnlyThrowsLeak
<1>1. PageInv => OnlyThrowsLeak
  BY DEF PageInv
<1>2. QED
  BY <1>1, PageInvariant, PTL

(***************************************************************************)
(* The button says Close exactly while the client is open.                 *)
(***************************************************************************)
THEOREM ButtonTells == Spec => []CaptionTells
<1>1. PageInv => CaptionTells
  BY DEF PageInv
<1>2. QED
  BY <1>1, PageInvariant, PTL

(***************************************************************************)
(* What the page draws is of the frame it was called back with, in all     *)
(* planes if and only if its size is even, for frames of every size and    *)
(* any number of players on the canvas.                                    *)
(***************************************************************************)
THEOREM PageDrawsTheFrame == Spec => []DrawsTheFrame
<1>1. PageInv => DrawsTheFrame
  BY DEF PageInv
<1>2. QED
  BY <1>1, PageInvariant, PTL
=============================================================================
