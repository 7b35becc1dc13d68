---------------------------- MODULE MCCctvWorker ----------------------------
(* Two of the three kinds of stream, one of each sort: what is published of *)
(* depth_stream and rgbd_stream is always there, what is published of       *)
(* pc_stream is encoded first.                                              *)
EXTENDS CctvWorker
MCKinds == <<"depth_stream", "pc_stream">>
MCEncoded == {"pc_stream"}
=============================================================================
