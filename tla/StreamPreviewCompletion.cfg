CONSTANTS
  Stream = {s1}
  Fd = {d1}
  Kinds <- Previews
  Chunks = 2
  NoStream = NoStream
  NoFd = NoFd
SPECIFICATION Spec
PROPERTY CompletionIsReported
