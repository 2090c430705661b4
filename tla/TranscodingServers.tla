------------------------- MODULE TranscodingServers --------------------------
(***************************************************************************)
(* The seven servers of transcoding-apps/transcoding: what each does with  *)
(* the steps of ServerThreads.  They differ in the transport, in whether   *)
(* the decoder is made before the threads or by one of them, in how frames *)
(* get their timestamps, and in whether requests and responses are         *)
(* numbered.                                                               *)
(***************************************************************************)
EXTENDS ServerThreads

-----------------------------------------------------------------------------
(* transcoding-tcp-udp: requests over TCP carry a header that is reported,
   frames are counted in steps of two (the timestamp packet after each takes the
   number between), and each packet of the encoding loop numbers a response. *)

TcpUdpInitializes == InitializeDecoder

TcpUdpReader == Reader

TcpUdpPackets == PopPacket \/ PacketsEnd

TcpUdpDecoder == DecoderStart \/ TcpUdpPackets \/ DecodeTurn \/ FinishQueue

TcpUdpFrames(e) == PopFrame(e) \/ FramesEnd(e)

TcpUdpSetup(e) == EncoderSetup(e)

TcpUdpEncodes(e) == TcpUdpFrames(e) \/ EncodeTurn(e, Counted(e), TRUE, 2)

TcpUdpFlushes(e) == FlushPacket(e, frameCount[e]) \/ FlushEnds(e)

TcpUdpEncoder(e) == TcpUdpSetup(e) \/ TcpUdpEncodes(e) \/ TcpUdpFlushes(e)

TcpUdpMain == TcpUdpInitializes \/ JoinAndReport(Encoders)

-----------------------------------------------------------------------------
(* transcoding-tcp (modified): requests and responses are numbered as above;
   the timestamps are those of the decoded frames. *)

TcpModInitializes == InitializeDecoder

TcpModReader == Reader

TcpModPackets == PopPacket \/ PacketsEnd

TcpModDecoder == DecoderStart \/ TcpModPackets \/ DecodeTurn \/ FinishQueue

TcpModFrames(e) == PopFrame(e) \/ FramesEnd(e)

TcpModSetup(e) == EncoderSetup(e)

TcpModEncodes(e) == TcpModFrames(e) \/ EncodeTurn(e, Rescaled(Head(taken[e]), IntRate), TRUE, 1)

TcpModFlushes(e) == FlushPacket(e, CodecStamp(e)) \/ FlushEnds(e)

TcpModEncoder(e) == TcpModSetup(e) \/ TcpModEncodes(e) \/ TcpModFlushes(e)

TcpModMain == TcpModInitializes \/ JoinAndReport(Encoders)

-----------------------------------------------------------------------------
(* transcoding-udp (modified): nothing is numbered, frames are counted by two. *)

UdpModInitializes == InitializeDecoder

UdpModReader == Reader

UdpModPackets == PopPacket \/ PacketsEnd

UdpModDecoder == DecoderStart \/ UdpModPackets \/ DecodeTurn \/ FinishQueue

UdpModFrames(e) == PopFrame(e) \/ FramesEnd(e)

UdpModSetup(e) == EncoderSetup(e)

UdpModEncodes(e) == UdpModFrames(e) \/ EncodeTurn(e, Counted(e), FALSE, 2)

UdpModFlushes(e) == FlushPacket(e, frameCount[e]) \/ FlushEnds(e)

UdpModEncoder(e) == UdpModSetup(e) \/ UdpModEncodes(e) \/ UdpModFlushes(e)

UdpModMain == UdpModInitializes \/ JoinAndReport(Encoders)

-----------------------------------------------------------------------------
(* transcoding-rtsp: as the modified UDP server, over RTSP. *)

RtspInitializes == InitializeDecoder

RtspReader == Reader

RtspPackets == PopPacket \/ PacketsEnd

RtspDecoder == DecoderStart \/ RtspPackets \/ DecodeTurn \/ FinishQueue

RtspFrames(e) == PopFrame(e) \/ FramesEnd(e)

RtspSetup(e) == EncoderSetup(e)

RtspEncodes(e) == RtspFrames(e) \/ EncodeTurn(e, Counted(e), FALSE, 2)

RtspFlushes(e) == FlushPacket(e, frameCount[e]) \/ FlushEnds(e)

RtspEncoder(e) == RtspSetup(e) \/ RtspEncodes(e) \/ RtspFlushes(e)

RtspMain == RtspInitializes \/ JoinAndReport(Encoders)

-----------------------------------------------------------------------------
(* transcoding-tcp: the decoder is made by its own thread, while the encoders
   listen for their clients and then wait for it. *)

TcpInitializes == DecoderInitializes

TcpReader == Reader

TcpPackets == PopPacket \/ PacketsEnd

TcpDecoder == DecoderStart \/ TcpPackets \/ DecodeTurn \/ FinishQueue

TcpFrames(e) == PopFrame(e) \/ FramesEnd(e)

TcpOpens(e) == OpenOutput(e)

TcpSetup(e) == FinishSetup(e)

TcpEncodes(e) == TcpFrames(e) \/ EncodeTurn(e, Rescaled(Head(taken[e]), IntRate), FALSE, 1)

TcpFlushes(e) == FlushPacket(e, CodecStamp(e)) \/ FlushEnds(e)

TcpEncoder(e) == TcpOpens(e) \/ TcpSetup(e) \/ TcpEncodes(e) \/ TcpFlushes(e)

TcpMain == StartThreads \/ JoinAndReport(Encoders)

-----------------------------------------------------------------------------
(* transcoding-udp: the decoder is made late too; frames are counted by one, and
   the timestamp packet after each has the same number as the frame. *)

UdpInitializes == DecoderInitializes

UdpReader == Reader

UdpPackets == PopPacket \/ PacketsEnd

UdpDecoder == DecoderStart \/ UdpPackets \/ DecodeTurn \/ FinishQueue

UdpFrames(e) == PopFrame(e) \/ FramesEnd(e)

UdpOpens(e) == OpenOutput(e)

UdpSetup(e) == FinishSetup(e)

UdpEncodes(e) == UdpFrames(e) \/ EncodeTurn(e, Counted(e), FALSE, 1)

UdpFlushes(e) == FlushPacket(e, frameCount[e]) \/ FlushEnds(e)

UdpEncoder(e) == UdpOpens(e) \/ UdpSetup(e) \/ UdpEncodes(e) \/ UdpFlushes(e)

UdpMain == StartThreads \/ JoinAndReport(Encoders)

-----------------------------------------------------------------------------
(* transcoding-rtp: the decoder is made late, frames are counted by two. *)

RtpInitializes == DecoderInitializes

RtpReader == Reader

RtpPackets == PopPacket \/ PacketsEnd

RtpDecoder == DecoderStart \/ RtpPackets \/ DecodeTurn \/ FinishQueue

RtpFrames(e) == PopFrame(e) \/ FramesEnd(e)

RtpOpens(e) == OpenOutput(e)

RtpSetup(e) == FinishSetup(e)

RtpEncodes(e) == RtpFrames(e) \/ EncodeTurn(e, Counted(e), FALSE, 2)

RtpFlushes(e) == FlushPacket(e, frameCount[e]) \/ FlushEnds(e)

RtpEncoder(e) == RtpOpens(e) \/ RtpSetup(e) \/ RtpEncodes(e) \/ RtpFlushes(e)

RtpMain == StartThreads \/ JoinAndReport(Encoders)
=============================================================================
