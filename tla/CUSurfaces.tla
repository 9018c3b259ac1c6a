------------------------------- MODULE CUSurfaces -------------------------------
(* The GPU's frames on their way to the caller's array: the hardware decoder
   (src/src/video/nvcodec/cuda_decoder_impl.cc), the frames it maps
   (cuda_mapped_frame.cc) and the textures they are read through
   (cuda_texture.cc), as HandlePictureSequence_ and HandlePictureDisplay_ of
   cuda_threaded_decoder.cc use them. Decoder and textures live as long as the
   CUThreadedDecoder, through every Clear and Start.

   The driver shows a frame in one of a few output surfaces, whose pitch it
   fixes when the decoder is made. A texture is kept by the address of the
   surface alone: what it was made with must fit every frame shown there later. A format is
   [coded, width, height]: coded stands for the codec, the chroma format and the
   coded size, by which Initialize tells formats apart, width and height
   are those of the display area. The pixels are left out. *)
EXTENDS Integers

CONSTANTS Formats,  \* formats a stream may have or change to
          Surfaces, \* addresses of output surfaces
          Pitches,  \* that the driver may choose
          NoFormat, NoFrame, NoTexture

VARIABLES decoder_,      \* driver: [pitch, width, height] of the decoder, NoFormat if there is none
          decoder_info_, \* the format asked for last, NoFormat at first
          textures_,     \* the registry: [luma, chroma] of each address, or NoTexture
          objects,       \* driver: texture objects that exist
          mapped,        \* the frame that is mapped: its address
          reading        \* the texture it is read through

surfaceVars == <<decoder_, decoder_info_, textures_, objects, mapped, reading>>

(***************************************************************************)
(* Decoders and textures.                                                  *)
(***************************************************************************)
DecoderOf(format, pitch) == [pitch |-> pitch, width |-> format.width, height |-> format.height]

\* The chroma plane has half the size and lies below the rows of the luma plane.
Luma(ptr, pitch, width, height) ==
  [at |-> ptr, below |-> 0, pitch |-> pitch, width |-> width, height |-> height]
Chroma(ptr, pitch, width, height) ==
  [at |-> ptr, below |-> height, pitch |-> pitch, width |-> width \div 2, height |-> height \div 2]
Texture(ptr, pitch, width, height) ==
  [luma |-> Luma(ptr, pitch, width, height), chroma |-> Chroma(ptr, pitch, width, height)]

ASSUME SurfacesAssumption ==
  /\ NoFrame \notin Surfaces
  /\ \A format \in Formats, pitch \in Pitches :
       /\ DecoderOf(format, pitch) # NoFormat
       /\ \A ptr \in Surfaces : Texture(ptr, pitch, format.width, format.height) # NoTexture

SurfacesInit ==
  /\ decoder_ = NoFormat /\ decoder_info_ = NoFormat
  /\ textures_ = [ptr \in Surfaces |-> NoTexture] /\ objects = {}
  /\ mapped = NoFrame /\ reading = NoTexture

Initialized == decoder_ # NoFormat
Waiting == mapped = NoFrame

(***************************************************************************)
(* HandlePictureSequence_.                                                 *)
(***************************************************************************)
\* A format the hardware cannot decode raises before anything is set.
CreateDecoder(format) ==
  /\ decoder_info_' = format
  /\ decoder_' \in {DecoderOf(format, pitch) : pitch \in Pitches} \cup {NoFormat}

\* A slip: a change of format makes a new decoder, as it well might, and the textures stay.
InitializeAnew(format) ==
  /\ Waiting /\ (Initialized => format.coded # decoder_info_.coded) /\ CreateDecoder(format)
  /\ UNCHANGED <<textures_, objects, mapped, reading>>

\* Once there is a decoder, a change of format is refused and nothing is set.
Initialize(format) ==
  /\ Waiting /\ ~Initialized /\ CreateDecoder(format)
  /\ UNCHANGED <<textures_, objects, mapped, reading>>

(***************************************************************************)
(* HandlePictureDisplay_. A frame is mapped until the function returns or  *)
(* raises. An interlaced frame, and one that cannot be mapped, raises      *)
(* before it is.                                                           *)
(***************************************************************************)
MapFrame(ptr) ==
  /\ Waiting /\ Initialized
  /\ mapped' = ptr
  /\ UNCHANGED <<decoder_, decoder_info_, textures_, objects, reading>>

Unmap == mapped' = NoFrame /\ reading' = NoTexture

TexturesOf(tex) == IF tex = NoTexture THEN {} ELSE {tex.luma, tex.chroma}
Registered == UNION {TexturesOf(textures_[ptr]) : ptr \in Surfaces}

\* If the second object cannot be made the first is destroyed.
GetTexture ==
  LET new == Texture(mapped, decoder_.pitch, decoder_info_.width, decoder_info_.height) IN
  /\ ~Waiting /\ reading = NoTexture
  /\ \/ /\ textures_[mapped] # NoTexture /\ reading' = textures_[mapped]
        /\ UNCHANGED <<textures_, objects, mapped>>
     \/ /\ textures_[mapped] = NoTexture
        /\ textures_' = [textures_ EXCEPT ![mapped] = new]
        /\ objects' = objects \cup TexturesOf(new) /\ reading' = new
        /\ UNCHANGED mapped
     \/ /\ textures_[mapped] = NoTexture /\ Unmap
        /\ UNCHANGED <<textures_, objects>>
  /\ UNCHANGED <<decoder_, decoder_info_>>

\* ProcessFrame has read the frame, or raised.
Processed ==
  /\ reading # NoTexture /\ Unmap
  /\ UNCHANGED <<decoder_, decoder_info_, textures_, objects>>

\* ~CUThreadedDecoder, and another one: its textures go first, then its decoder.
Replace ==
  /\ Waiting
  /\ textures_' = [ptr \in Surfaces |-> NoTexture] /\ objects' = objects \ Registered
  /\ decoder_' = NoFormat /\ decoder_info_' = NoFormat
  /\ UNCHANGED <<mapped, reading>>

SurfacesNext ==
  \/ \E format \in Formats : Initialize(format)
  \/ \E ptr \in Surfaces : MapFrame(ptr)
  \/ GetTexture \/ Processed \/ Replace

SurfacesSpec == SurfacesInit /\ [][SurfacesNext]_surfaceVars

(***************************************************************************)
(* Properties.                                                             *)
(***************************************************************************)
\* "Here we assume that a data pointer, scale method, chroma_up_method uniquely defines a texture"
\* (cuda_texture.h:82): the texture a frame is read through has the address, the pitch and the size of that frame,
\* however many formats the stream had; its objects exist, and no others than those of the registry do.
TexturesFitFrames ==
  /\ reading # NoTexture =>
       /\ reading = Texture(mapped, decoder_.pitch, decoder_.width, decoder_.height)
       /\ TexturesOf(reading) \subseteq objects
  /\ objects = Registered
=============================================================================
