-------------------------- MODULE MCPreviewPipeline --------------------------
(***************************************************************************)
(* Small instances of PreviewPipeline: two or three buffers, a recorder    *)
(* and a JPEG stream.  Buffers are interchangeable.                        *)
(***************************************************************************)
EXTENDS PreviewPipeline, TLC

BufferSymmetry == Permutations(Buffers)

==============================================================================
