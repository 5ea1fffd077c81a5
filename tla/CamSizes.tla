------------------------------ MODULE CamSizes ------------------------------
(***************************************************************************)
(* The sizes of src/libcamera/QualcommCameraHardware.cpp: which preview    *)
(* and picture sizes a sensor has, which other picture sizes are accepted, *)
(* and how large the thumbnail is.  A size is <<width, height>>.  The      *)
(* board is an MSM7627.  A mask is the set of its one bits.                *)
(***************************************************************************)
EXTENDS Integers, Sequences

Q12 == 4096

preview_sizes == << <<1280, 720>>, <<800, 480>>, <<768, 432>>, <<720, 480>>,
                    <<640, 480>>, <<576, 432>>, <<480, 320>>, <<384, 288>>,
                    <<352, 288>>, <<320, 240>>, <<240, 160>>, <<176, 144>> >>
picture_sizes == << <<1600, 1200>>, <<1280, 768>>, <<1280, 720>>,
                    <<1024, 768>>, <<800, 600>>, <<800, 480>>, <<640, 480>>,
                    <<352, 288>>, <<320, 240>>, <<176, 144>> >>
thumbnail_sizes == << [ratio |-> 7281, size |-> <<512, 288>>],
                      [ratio |-> 6826, size |-> <<480, 288>>],
                      [ratio |-> 6808, size |-> <<256, 154>>],
                      [ratio |-> 6144, size |-> <<432, 288>>],
                      [ratio |-> 5461, size |-> <<512, 384>>],
                      [ratio |-> 5006, size |-> <<352, 288>>] >>
jpeg_thumbnail_sizes == {<<512, 288>>, <<480, 288>>, <<432, 288>>,
                         <<512, 384>>, <<352, 288>>, <<0, 0>>}
DefaultThumbnail == thumbnail_sizes[3].size
SmallHeight      == 144

boardMask == (0..10) \ {8}      \* 0x6ff
sensorTypes ==
    << [name |-> "5mp", raw |-> <<2608, 1960>>, maxSize |-> <<2592, 1944>>,
        mask |-> 0..11, focus |-> TRUE],
       [name |-> "3mp", raw |-> <<2064, 1544>>, maxSize |-> <<2048, 1536>>,
        mask |-> 0..10, focus |-> FALSE],
       [name |-> "2mp", raw |-> <<3200, 1200>>, maxSize |-> <<1600, 1200>>,
        mask |-> 0..10, focus |-> FALSE] >>
Sensors == {sensorTypes[i] : i \in DOMAIN sensorTypes}

\* The sensor is told by the height of its raw picture; height 0 stands for
\* a driver that did not answer.
findSensorType(rawHeight) ==
    IF \E s \in Sensors : s.raw[2] = rawHeight
    THEN CHOOSE s \in Sensors : s.raw[2] = rawHeight
    ELSE sensorTypes[1]

FitsIn(size, bound) == size[1] <= bound[1] /\ size[2] <= bound[2]
Ratio(size) == (size[1] * Q12) \div size[2]

\* The highest bit of the mask stands for the first size.
filterPreviewSizes ==
    [sensor \in Sensors |->
       {preview_sizes[i] : i \in {j \in DOMAIN preview_sizes :
           Len(preview_sizes) - j \in boardMask \cap sensor.mask}}]

\* All sizes from the first on that fits: the table falls in width.
filterPictureSizes ==
    [sensor \in Sensors |->
       {picture_sizes[i] : i \in {j \in DOMAIN picture_sizes :
           \E k \in 1..j : FitsIn(picture_sizes[k], sensor.maxSize)}}]

KnownRatios == {thumbnail_sizes[i].ratio : i \in DOMAIN thumbnail_sizes}
isValidDimension(size, sensor) ==
    /\ size[1] % 16 = 0 /\ size[2] % 16 = 0
    /\ FitsIn(size, sensor.maxSize)
    /\ Ratio(size) \in KnownRatios

AcceptsPictureSize(size, sensor) ==
    size \in filterPictureSizes[sensor] \/ isValidDimension(size, sensor)

-----------------------------------------------------------------------------
(* initRaw *)

SmallThumbnail(raw) == <<(SmallHeight * raw[1]) \div raw[2], SmallHeight>>

\* A thumbnail of the picture's ratio, if there is one.
RatioThumbnail(raw) ==
    LET same == {i \in DOMAIN thumbnail_sizes :
                   thumbnail_sizes[i].ratio = Ratio(raw)}
    IN  IF same = {} THEN DefaultThumbnail
        ELSE thumbnail_sizes[CHOOSE i \in same : TRUE].size

\* mThumbnailWidth and mThumbnailHeight, what the encoder scales to.
EncoderThumbnail(raw, preview) ==
    IF raw[2] <= DefaultThumbnail[2] \/ raw[2] < preview[2]
    THEN SmallThumbnail(raw) ELSE RatioThumbnail(raw)

\* ui_thumbnail_width and _height, the picture shown after the shot.
PostviewSize(raw, preview) ==
    IF raw[2] >= preview[2] THEN preview ELSE SmallThumbnail(raw)
=============================================================================
