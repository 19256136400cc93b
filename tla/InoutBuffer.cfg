CONSTANT MaxWords = 6
SPECIFICATION StageSpec
PROPERTIES HandshakeKept PipeSpec Delivered
